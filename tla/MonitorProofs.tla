----------------------------- MODULE MonitorProofs -----------------------------
(* Proofs about the Monitor AVR on the bus, for all addresses, bytes, programs   *)
(* and commands, as long as 'B' and 'C' are used only while the 6502 is stopped  *)
(* and the AVR is off the bus (FreeToggles = {}).                                *)
(*                                                                               *)
(* The firmware is a set of scripts of pin writes.  What must not go wrong is in *)
(* the middle of them, so the invariant speaks about what is left of the script: *)
(* every write of it is Fine when its turn comes, and at its end the pins are    *)
(* such that the loop can go on (Ready).  Run is that walk through a script, a   *)
(* sequence of states; RunThen composes two, so that what a command does is put  *)
(* together from what its parts do, in the order in which main.c calls them.     *)
(* Memory is as it was meant except between the write that puts a byte on the    *)
(* data bus and the rise of PHI2 that stores it (Memory).                        *)
EXTENDS Monitor, SequenceTheorems, TLAPS

At(p) == p.PORTA * Page + p.PORTB

\* The AVR writes into the SRAM.
Writing(p) == p.BE = 0 /\ p.GO = 1 /\ p.RWB = WRITE

\* What holds of the pins at any time: the AVR drives no line that the 6502 may drive, the
\* 6502 goes on only when it has the bus, and the data lines are driven only for a write or,
\* with PHI2 low, while the SRAM is addressed.
Sound(p) ==
    /\ p.driveAddress \/ p.driveRWB \/ p.driveData => p.BE = 0
    /\ p.STOP = 1 => p.BE = 1 /\ p.GO = 0
    /\ p.driveData => \/ p.driveRWB /\ p.RWB = WRITE
                      \/ p.driveAddress /\ At(p) \in SRAM /\ p.GO = 0

\* Pins, and whether memory still lacks the byte that a command is writing.
States == [pin : Pins, dirty : BOOLEAN]

Writes == ({"STOP", "BE", "GO", "RESB", "RWB"} \X {0, 1})
          \union ({"driveRWB", "driveAddress", "driveData"} \X BOOLEAN)
          \union ({"PORTA"} \X (0 .. Pages - 1)) \union ({"PORTB"} \X (0 .. Page - 1))
          \union ({"PORTC"} \X Byte) \union {<<"take", 0>>}

After(u, w) ==
    IF w[1] = "take" THEN u
    ELSE [pin   |-> [u.pin EXCEPT ![w[1]] = w[2]],
          dirty |-> IF w[1] = "driveData" THEN w[2] ELSE IF w = <<"GO", 1>> THEN FALSE ELSE u.dirty]

\* A pin write that may follow in state u when the command is about address h.
Fine(h, u, w) ==
    LET q == After(u, w).pin
    IN IF w[1] = "take" THEN /\ q.driveAddress /\ At(q) = h /\ q.driveRWB /\ q.RWB = READ
                            /\ q.STOP = 0 /\ q.GO = 1
       ELSE /\ Sound(q)
            /\ Writing(q) => /\ w = <<"GO", 1>> /\ u.dirty
                             /\ q.driveAddress /\ At(q) = h /\ q.driveRWB /\ q.driveData
            /\ u.dirty => q.BE = 0 /\ w[1] \notin {"PORTC", "driveData"} /\ (w = <<"GO", 1>> => Writing(q))

\* A script that takes u to v, each of its writes being fine.
Run(h, u, s, v) ==
    \E f \in [0 .. Len(s) -> States] :
       /\ f[0] = u /\ f[Len(s)] = v
       /\ \A i \in 1 .. Len(s) : Fine(h, f[i - 1], s[i]) /\ f[i] = After(f[i - 1], s[i])

\* The empty script.
LEMMA RunNil == ASSUME NEW h, NEW u \in States PROVE Run(h, u, <<>>, u)
<1> DEFINE f == [i \in 0 .. 0 |-> u]
<1>1. Len(<<>>) = 0
  OBVIOUS
<1>2. f \in [0 .. 0 -> States] /\ f[0] = u
  OBVIOUS
<1> HIDE DEF f
<1> QED  BY <1>1, <1>2 DEF Run

\* One write.
LEMMA RunOne ==
    ASSUME NEW h, NEW u \in States, NEW w, Fine(h, u, w), After(u, w) \in States
    PROVE  Run(h, u, <<w>>, After(u, w))
<1> DEFINE f == [i \in 0 .. 1 |-> IF i = 0 THEN u ELSE After(u, w)]
<1>1. Len(<<w>>) = 1 /\ <<w>>[1] = w
  OBVIOUS
<1>2. f \in [0 .. 1 -> States] /\ f[0] = u /\ f[1] = After(u, w)
  OBVIOUS
<1> HIDE DEF f
<1>3. \A i \in 1 .. 1 : Fine(h, f[i - 1], <<w>>[i]) /\ f[i] = After(f[i - 1], <<w>>[i])
  <2> TAKE i \in 1 .. 1
  <2>1. i = 1 /\ i - 1 = 0
    OBVIOUS
  <2> QED  BY <1>1, <1>2, <2>1
<1> QED  BY <1>1, <1>2, <1>3 DEF Run

\* A script and another.
LEMMA RunThen ==
    ASSUME NEW h, NEW u, NEW v, NEW x, NEW s \in Seq(Writes), NEW t \in Seq(Writes),
           Run(h, u, s, v), Run(h, v, t, x)
    PROVE  Run(h, u, s \o t, x) /\ s \o t \in Seq(Writes)
<1>1. PICK f \in [0 .. Len(s) -> States] :
         /\ f[0] = u /\ f[Len(s)] = v
         /\ \A i \in 1 .. Len(s) : Fine(h, f[i - 1], s[i]) /\ f[i] = After(f[i - 1], s[i])
  BY DEF Run
<1>2. PICK g \in [0 .. Len(t) -> States] :
         /\ g[0] = v /\ g[Len(t)] = x
         /\ \A i \in 1 .. Len(t) : Fine(h, g[i - 1], t[i]) /\ g[i] = After(g[i - 1], t[i])
  BY DEF Run
<1> DEFINE m == Len(s)
           n == Len(t)
           e == [i \in 0 .. m + n |-> IF i <= m THEN f[i] ELSE g[i - m]]
<1>3. m \in Nat /\ n \in Nat
  OBVIOUS
<1>4. /\ s \o t \in Seq(Writes) /\ Len(s \o t) = m + n
      /\ \A i \in 1 .. m + n : (s \o t)[i] = IF i <= m THEN s[i] ELSE t[i - m]
  BY ConcatProperties
<1>5. \A i \in 0 .. m + n : (i <= m => i \in 0 .. m) /\ (~(i <= m) => i - m \in 0 .. n)
  BY <1>3
<1>6. e \in [0 .. m + n -> States]
  BY <1>1, <1>2, <1>5
<1>7. \A i \in 0 .. m : e[i] = f[i]
  BY <1>3
<1>8. \A i \in 0 .. n : e[m + i] = g[i]
  <2> TAKE i \in 0 .. n
  <2>1. CASE i = 0
    BY <1>1, <1>2, <1>3, <2>1
  <2>2. CASE i # 0
    BY <1>3, <2>2
  <2> QED  BY <2>1, <2>2
<1> HIDE DEF e
<1>9. \A i \in 1 .. m + n : Fine(h, e[i - 1], (s \o t)[i]) /\ e[i] = After(e[i - 1], (s \o t)[i])
  <2> TAKE i \in 1 .. m + n
  <2>1. CASE i <= m
    <3>1. e[i] = f[i] /\ e[i - 1] = f[i - 1] /\ i \in 1 .. Len(s)
      BY <1>3, <1>7, <2>1
    <3>2. (s \o t)[i] = s[i]
      BY <1>4, <2>1
    <3> QED  BY <1>1, <3>1, <3>2
  <2>2. CASE ~(i <= m)
    <3> DEFINE j == i - m
    <3>1. j \in 1 .. n /\ j - 1 \in 0 .. n /\ j \in 0 .. n /\ i = m + j /\ i - 1 = m + (j - 1)
      BY <1>3, <2>2
    <3>2. e[i] = g[j] /\ e[i - 1] = g[j - 1]
      BY <1>8, <3>1
    <3>3. (s \o t)[i] = t[j]
      BY <1>4, <2>2
    <3> QED  BY <1>2, <3>1, <3>2, <3>3
  <2> QED  BY <2>1, <2>2
<1>10. e[0] = u /\ e[m + n] = x
  BY <1>1, <1>2, <1>3, <1>7, <1>8
<1> QED  BY <1>4, <1>6, <1>9, <1>10 DEF Run

\* The first write of a script, and the rest.
LEMMA RunHead ==
    ASSUME NEW h, NEW u, NEW v, NEW s \in Seq(Writes), s # <<>>, Run(h, u, s, v)
    PROVE  /\ u \in States /\ Fine(h, u, Head(s)) /\ After(u, Head(s)) \in States
           /\ Run(h, After(u, Head(s)), Tail(s), v)
           /\ Head(s) \in Writes /\ Tail(s) \in Seq(Writes)
<1>1. PICK f \in [0 .. Len(s) -> States] :
         /\ f[0] = u /\ f[Len(s)] = v
         /\ \A i \in 1 .. Len(s) : Fine(h, f[i - 1], s[i]) /\ f[i] = After(f[i - 1], s[i])
  BY DEF Run
<1> DEFINE n == Len(s)
           e == [i \in 0 .. n - 1 |-> f[i + 1]]
<1>2. n \in Nat \ {0} /\ Len(Tail(s)) = n - 1 /\ Tail(s) \in Seq(Writes) /\ Head(s) = s[1]
  OBVIOUS
<1>3. \A i \in 1 .. n - 1 : Tail(s)[i] = s[i + 1]
  OBVIOUS
<1> HIDE DEF n
<1>4. /\ Fine(h, u, Head(s)) /\ f[1] = After(u, Head(s)) /\ 1 \in 0 .. n /\ f[1] \in States
      /\ u \in States
  BY <1>1, <1>2 DEF n
<1>5. e \in [0 .. n - 1 -> States] /\ e[0] = f[1] /\ e[n - 1] = f[n]
  BY <1>1, <1>2 DEF n
<1>6. \A i \in 1 .. n - 1 : Fine(h, e[i - 1], Tail(s)[i]) /\ e[i] = After(e[i - 1], Tail(s)[i])
  <2> TAKE i \in 1 .. n - 1
  <2>1. e[i - 1] = f[i] /\ e[i] = f[i + 1] /\ i + 1 \in 1 .. n /\ (i + 1) - 1 = i
    BY <1>2
  <2>2. Fine(h, f[(i + 1) - 1], s[i + 1]) /\ f[i + 1] = After(f[(i + 1) - 1], s[i + 1])
    BY <1>1, <2>1 DEF n
  <2> QED  BY <1>3, <2>1, <2>2
<1>7. Head(s) \in Writes
  BY <1>2 DEF n
<1> QED  BY <1>1, <1>2, <1>4, <1>5, <1>6, <1>7, ZenonT(60) DEF Run, n

\* The end of a script.
LEMMA RunEnd == ASSUME NEW h, NEW u, NEW v, Run(h, u, <<>>, v) PROVE u = v /\ u \in States
BY DEF Run

--------------------------------------------------------------------------------
(* What each command does, from any state of the pins.  The pins in groups: what *)
(* holds the 6502 (k: STOP, BE), PHI2 (g), RWB (r), the address (a), data (d).   *)

Bus(z, k, g, r, a, d, dirty) ==
    [pin   |-> [STOP |-> k[1], BE |-> k[2], GO |-> g, RESB |-> z, RWB |-> r[1], driveRWB |-> r[2],
                PORTA |-> a[1], PORTB |-> a[2], driveAddress |-> a[3],
                PORTC |-> d[1], driveData |-> d[2]],
     dirty |-> dirty]

Held   == {0, 1} \X {0, 1}
Ways   == {0, 1} \X BOOLEAN
Places == (0 .. Pages - 1) \X (0 .. Page - 1) \X BOOLEAN
Data   == Byte \X BOOLEAN

Off   == <<0, 0>>          \* 6502 stopped and off the bus
Place(x) == <<high(x), low(x), TRUE>>

\* Every state is one of these.
LEMMA BusStates ==
    /\ \A z \in {0, 1}, k \in Held, g \in {0, 1}, r \in Ways, a \in Places, d \in Data, dirty \in BOOLEAN :
          Bus(z, k, g, r, a, d, dirty) \in States
    /\ \A u \in States :
          \E z \in {0, 1}, k \in Held, g \in {0, 1}, r \in Ways, a \in Places, d \in Data, dirty \in BOOLEAN :
             u = Bus(z, k, g, r, a, d, dirty)
<1>1. ASSUME NEW z \in {0, 1}, NEW k \in Held, NEW g \in {0, 1}, NEW r \in Ways, NEW a \in Places,
             NEW d \in Data, NEW dirty \in BOOLEAN
      PROVE  Bus(z, k, g, r, a, d, dirty) \in States
  BY <1>1 DEF Bus, States, Pins, Held, Ways, Places, Data
<1>2. ASSUME NEW u \in States
      PROVE  \E z \in {0, 1}, k \in Held, g \in {0, 1}, r \in Ways, a \in Places, d \in Data, dirty \in BOOLEAN :
                u = Bus(z, k, g, r, a, d, dirty)
  <2> DEFINE p == u.pin
             k == <<p.STOP, p.BE>>
             r == <<p.RWB, p.driveRWB>>
             a == <<p.PORTA, p.PORTB, p.driveAddress>>
             d == <<p.PORTC, p.driveData>>
  <2>1. /\ p.RESB \in {0, 1} /\ k \in Held /\ p.GO \in {0, 1} /\ r \in Ways /\ a \in Places /\ d \in Data
        /\ u.dirty \in BOOLEAN
    BY DEF States, Pins, Held, Ways, Places, Data
  <2>2. u = [pin |-> p, dirty |-> u.dirty]
    BY DEF States
  <2>3. p = [STOP |-> k[1], BE |-> k[2], GO |-> p.GO, RESB |-> p.RESB, RWB |-> r[1], driveRWB |-> r[2],
             PORTA |-> a[1], PORTB |-> a[2], driveAddress |-> a[3], PORTC |-> d[1], driveData |-> d[2]]
    BY DEF States, Pins
  <2>4. u = Bus(p.RESB, k, p.GO, r, a, d, u.dirty)
    BY <2>2, <2>3 DEF Bus
  <2> QED  BY <2>1, <2>4
<1> QED  BY <1>1, <1>2

\* Addresses and their halves.
LEMMA Halves ==
    ASSUME NEW a \in Address
    PROVE  /\ Page \in Nat \ {0} /\ Pages \in Nat \ {0}
           /\ high(a) \in 0 .. Pages - 1 /\ low(a) \in 0 .. Page - 1 /\ high(a) * Page + low(a) = a
<1>1. Page \in Nat \ {0} /\ Pages \in Nat \ {0}
  <2>1. Pages \in Nat /\ Page \in Nat /\ 4 <= Pages * Page
    BY MonitorAssumption DEF Word
  <2> QED  BY <2>1
<1>2. a \in Nat /\ a < Pages * Page
  BY <1>1 DEF Address, Word
<1>3. low(a) \in 0 .. Page - 1 /\ high(a) \in Nat /\ high(a) * Page + low(a) = a
  BY <1>1, <1>2 DEF low, high
<1>4. high(a) < Pages
  BY <1>1, <1>2, <1>3
<1> QED  BY <1>1, <1>3, <1>4

\* Sound, of the groups.
Safe(k, g, r, a, d) ==
    /\ a[3] \/ r[2] \/ d[2] => k[2] = 0
    /\ k[1] = 1 => k[2] = 1 /\ g = 0
    /\ d[2] => \/ r[2] /\ r[1] = WRITE
               \/ a[3] /\ a[1] * Page + a[2] \in SRAM /\ g = 0

\* The AVR does not write.
Calm(k, g, r) == k[2] = 0 /\ g = 1 => r[1] = READ

\* The same in two ways.
LEMMA Same ==
    ASSUME NEW z \in {0, 1}, NEW k \in Held, NEW g \in {0, 1}, NEW r \in Ways,
           NEW a \in Places, NEW d \in Data,
           NEW dirty \in BOOLEAN
    PROVE  LET u == Bus(z, k, g, r, a, d, dirty)
           IN /\ Sound(u.pin) <=> Safe(k, g, r, a, d)
              /\ Writing(u.pin) <=> ~Calm(k, g, r)
              /\ u.dirty = dirty /\ u.pin.BE = k[2]
<1>1. r[1] \in {READ, WRITE} /\ READ # WRITE
  BY DEF Ways, READ, WRITE
<1> QED  BY <1>1 DEF Bus, Sound, Safe, Writing, Calm, At

\* A write while no byte is on its way to memory.
LEMMA OneWrite ==
    ASSUME NEW h, NEW u \in States, ~u.dirty, NEW w \in Writes, w[1] # "take",
           NEW z \in {0, 1}, NEW k \in Held, NEW g \in {0, 1}, NEW r \in Ways,
           NEW a \in Places, NEW d \in Data,
           NEW dirty \in BOOLEAN, After(u, w) = Bus(z, k, g, r, a, d, dirty),
           Safe(k, g, r, a, d), Calm(k, g, r)
    PROVE  Run(h, u, <<w>>, Bus(z, k, g, r, a, d, dirty)) /\ <<w>> \in Seq(Writes)
<1>1. Bus(z, k, g, r, a, d, dirty) \in States
  BY BusStates
<1>2. Fine(h, u, w)
  BY Same DEF Fine
<1> QED  BY <1>1, <1>2, RunOne

\* Scripts of two and of three writes.
LEMMA Joined ==
    ASSUME NEW s \in Seq(Writes), NEW w \in Writes
    PROVE  /\ s \o <<w>> \in Seq(Writes) /\ Len(s \o <<w>>) = Len(s) + 1
           /\ \A i \in 1 .. Len(s) + 1 : (s \o <<w>>)[i] = IF i <= Len(s) THEN s[i] ELSE w
<1>1. <<w>> \in Seq(Writes) /\ Len(<<w>>) = 1 /\ <<w>>[1] = w
  OBVIOUS
<1>2. /\ s \o <<w>> \in Seq(Writes) /\ Len(s \o <<w>>) = Len(s) + 1
      /\ \A i \in 1 .. Len(s) + 1 : (s \o <<w>>)[i] = IF i <= Len(s) THEN s[i] ELSE <<w>>[i - Len(s)]
  BY <1>1, ConcatProperties
<1>3. Len(s) \in Nat
  OBVIOUS
<1>4. \A i \in 1 .. Len(s) + 1 : i <= Len(s) \/ i - Len(s) = 1
  BY <1>3
<1> QED  BY <1>1, <1>2, <1>4

\* Of two writes.
LEMMA Pair == ASSUME NEW v \in Writes, NEW w \in Writes PROVE <<v, w>> = <<v>> \o <<w>>
<1>1. <<v>> \in Seq(Writes) /\ Len(<<v>>) = 1 /\ <<v>>[1] = v
  OBVIOUS
<1>2. <<v, w>> \in Seq(Writes) /\ Len(<<v, w>>) = 2 /\ <<v, w>>[1] = v /\ <<v, w>>[2] = w
  OBVIOUS
<1> DEFINE t == <<v>> \o <<w>>
<1>3. t \in Seq(Writes) /\ Len(t) = 2 /\ \A i \in 1 .. 2 : t[i] = IF i <= 1 THEN <<v>>[i] ELSE w
  BY <1>1, Joined
<1> HIDE DEF t
<1>4. \A i \in 1 .. 2 : t[i] = <<v, w>>[i]
  BY <1>1, <1>2, <1>3
<1>5. t = <<v, w>>
  BY <1>2, <1>3, <1>4, SeqEqual
<1> QED  BY <1>5 DEF t

\* And of three.
LEMMA Triple ==
    ASSUME NEW v \in Writes, NEW w \in Writes, NEW x \in Writes PROVE <<v, w, x>> = <<v, w>> \o <<x>>
<1>1. <<v, w>> \in Seq(Writes) /\ Len(<<v, w>>) = 2 /\ <<v, w>>[1] = v /\ <<v, w>>[2] = w
  OBVIOUS
<1>2. /\ <<v, w, x>> \in Seq(Writes) /\ Len(<<v, w, x>>) = 3
      /\ <<v, w, x>>[1] = v /\ <<v, w, x>>[2] = w /\ <<v, w, x>>[3] = x
  OBVIOUS
<1> DEFINE t == <<v, w>> \o <<x>>
<1>3. t \in Seq(Writes) /\ Len(t) = 3 /\ \A i \in 1 .. 3 : t[i] = IF i <= 2 THEN <<v, w>>[i] ELSE x
  BY <1>1, Joined
<1> HIDE DEF t
<1>4. \A i \in 1 .. 3 : t[i] = <<v, w, x>>[i]
  BY <1>1, <1>2, <1>3
<1>5. t = <<v, w, x>>
  BY <1>2, <1>3, <1>4, SeqEqual
<1> QED  BY <1>5 DEF t

\* Scripts of two and of three writes, write by write.
LEMMA RunTwo ==
    ASSUME NEW h, NEW u, NEW x, NEW y, NEW v \in Writes, NEW w \in Writes, Run(h, u, <<v>>, x), Run(h, x, <<w>>, y)
    PROVE  Run(h, u, <<v, w>>, y) /\ <<v, w>> \in Seq(Writes)
<1>1. <<v>> \in Seq(Writes) /\ <<w>> \in Seq(Writes) /\ <<v, w>> \in Seq(Writes)
  OBVIOUS
<1>2. Run(h, u, <<v>> \o <<w>>, y)
  BY <1>1, RunThen
<1> QED  BY <1>1, <1>2, Pair

\* Three.
LEMMA RunThree ==
    ASSUME NEW h, NEW u, NEW x, NEW y, NEW z, NEW v \in Writes, NEW w \in Writes, NEW t \in Writes,
           Run(h, u, <<v>>, x), Run(h, x, <<w>>, y), Run(h, y, <<t>>, z)
    PROVE  Run(h, u, <<v, w, t>>, z) /\ <<v, w, t>> \in Seq(Writes)
<1>1. <<v, w>> \in Seq(Writes) /\ <<t>> \in Seq(Writes) /\ <<v, w, t>> \in Seq(Writes)
  OBVIOUS
<1>2. Run(h, u, <<v, w>>, y)
  BY RunTwo
<1>3. Run(h, u, <<v, w>> \o <<t>>, z)
  BY <1>1, <1>2, RunThen
<1> QED  BY <1>1, <1>3, Triple

\* PHI2 falls.
LEMMA Lower ==
    ASSUME NEW h, NEW z \in {0, 1}, NEW k \in Held, NEW g \in {0, 1}, NEW r \in Ways,
           NEW a \in Places, NEW d \in Data,
           Safe(k, g, r, a, d)
    PROVE  /\ Run(h, Bus(z, k, g, r, a, d, FALSE), PHI2_low,
                  Bus(z, k, 0, r, a, d, FALSE))
           /\ PHI2_low \in Seq(Writes)
<1> DEFINE u == Bus(z, k, g, r, a, d, FALSE)
<1>1. u \in States /\ ~u.dirty
  BY BusStates, Same, ZenonT(60)
<1>2. <<"GO", 0>> \in Writes /\ <<"GO", 0>>[1] # "take"
  BY DEF Writes
<1>3. 0 \in {0, 1} /\ FALSE \in BOOLEAN
  OBVIOUS
<1>4. Safe(k, 0, r, a, d) /\ Calm(k, 0, r)
  BY DEF Safe, Calm, Held, Ways, Places, READ, WRITE
<1>5. After(u, <<"GO", 0>>) = Bus(z, k, 0, r, a, d, FALSE)
  BY DEF Bus, After
<1> HIDE DEF u
<1>6. /\ Run(h, u, << <<"GO", 0>> >>, Bus(z, k, 0, r, a, d, FALSE))
      /\ << <<"GO", 0>> >> \in Seq(Writes)
  BY <1>1, <1>2, <1>3, <1>4, <1>5, OneWrite
<1> QED  BY <1>6 DEF u, PHI2_low

\* RWB says READ.
LEMMA ReadRWB ==
    ASSUME NEW h, NEW z \in {0, 1}, NEW k \in Held, NEW g \in {0, 1}, NEW r \in Ways,
           NEW a \in Places, NEW d \in Data,
           k[2] = 0, ~d[2], Safe(k, g, r, a, d), NEW b \in Ways, b = <<READ, r[2]>>
    PROVE  /\ Run(h, Bus(z, k, g, r, a, d, FALSE), RWB_read,
                  Bus(z, k, g, b, a, d, FALSE))
           /\ RWB_read \in Seq(Writes)
<1> DEFINE u == Bus(z, k, g, r, a, d, FALSE)
<1>1. u \in States /\ ~u.dirty
  BY BusStates, Same, ZenonT(60)
<1>2. <<"RWB", READ>> \in Writes /\ <<"RWB", READ>>[1] # "take"
  BY DEF Writes, READ
<1>3. FALSE \in BOOLEAN
  BY DEF READ
<1>4. Safe(k, g, b, a, d) /\ Calm(k, g, b)
  BY DEF Safe, Calm, Held, Ways, Places, READ, WRITE
<1>5. After(u, <<"RWB", READ>>) = Bus(z, k, g, b, a, d, FALSE)
  BY DEF Bus, After
<1> HIDE DEF u
<1>6. /\ Run(h, u, << <<"RWB", READ>> >>, Bus(z, k, g, b, a, d, FALSE))
      /\ << <<"RWB", READ>> >> \in Seq(Writes)
  BY <1>1, <1>2, <1>3, <1>4, <1>5, OneWrite
<1> QED  BY <1>6 DEF u, RWB_read

\* RWB says WRITE.
LEMMA WriteRWB ==
    ASSUME NEW h, NEW z \in {0, 1}, NEW k \in Held, NEW g \in {0, 1}, NEW r \in Ways,
           NEW a \in Places, NEW d \in Data,
           k[2] = 0, g = 0, Safe(k, g, r, a, d), NEW b \in Ways, b = <<WRITE, r[2]>>
    PROVE  /\ Run(h, Bus(z, k, g, r, a, d, FALSE), RWB_write,
                  Bus(z, k, g, b, a, d, FALSE))
           /\ RWB_write \in Seq(Writes)
<1> DEFINE u == Bus(z, k, g, r, a, d, FALSE)
<1>1. u \in States /\ ~u.dirty
  BY BusStates, Same, ZenonT(60)
<1>2. <<"RWB", WRITE>> \in Writes /\ <<"RWB", WRITE>>[1] # "take"
  BY DEF Writes, WRITE
<1>3. FALSE \in BOOLEAN
  BY DEF WRITE
<1>4. Safe(k, g, b, a, d) /\ Calm(k, g, b)
  BY DEF Safe, Calm, Held, Ways, Places, READ, WRITE
<1>5. After(u, <<"RWB", WRITE>>) = Bus(z, k, g, b, a, d, FALSE)
  BY DEF Bus, After
<1> HIDE DEF u
<1>6. /\ Run(h, u, << <<"RWB", WRITE>> >>, Bus(z, k, g, b, a, d, FALSE))
      /\ << <<"RWB", WRITE>> >> \in Seq(Writes)
  BY <1>1, <1>2, <1>3, <1>4, <1>5, OneWrite
<1> QED  BY <1>6 DEF u, RWB_write

\* RWB is driven.
LEMMA DrivenRWB ==
    ASSUME NEW h, NEW z \in {0, 1}, NEW k \in Held, NEW g \in {0, 1}, NEW r \in Ways,
           NEW a \in Places, NEW d \in Data,
           k[2] = 0, Safe(k, g, r, a, d), Calm(k, g, r), NEW b \in Ways, b = <<r[1], TRUE>>
    PROVE  /\ Run(h, Bus(z, k, g, r, a, d, FALSE), drive_RWB,
                  Bus(z, k, g, b, a, d, FALSE))
           /\ drive_RWB \in Seq(Writes)
<1> DEFINE u == Bus(z, k, g, r, a, d, FALSE)
<1>1. u \in States /\ ~u.dirty
  BY BusStates, Same, ZenonT(60)
<1>2. <<"driveRWB", TRUE>> \in Writes /\ <<"driveRWB", TRUE>>[1] # "take"
  BY DEF Writes
<1>3. FALSE \in BOOLEAN
  OBVIOUS
<1>4. Safe(k, g, b, a, d) /\ Calm(k, g, b)
  BY DEF Safe, Calm, Held, Ways, Places, READ, WRITE
<1>5. After(u, <<"driveRWB", TRUE>>) = Bus(z, k, g, b, a, d, FALSE)
  BY DEF Bus, After
<1> HIDE DEF u
<1>6. /\ Run(h, u, << <<"driveRWB", TRUE>> >>, Bus(z, k, g, b, a, d, FALSE))
      /\ << <<"driveRWB", TRUE>> >> \in Seq(Writes)
  BY <1>1, <1>2, <1>3, <1>4, <1>5, OneWrite
<1> QED  BY <1>6 DEF u, drive_RWB

\* RWB is let go.
LEMMA ReleasedRWB ==
    ASSUME NEW h, NEW z \in {0, 1}, NEW k \in Held, NEW g \in {0, 1}, NEW r \in Ways,
           NEW a \in Places, NEW d \in Data,
           ~d[2], Safe(k, g, r, a, d), Calm(k, g, r), NEW b \in Ways, b = <<r[1], FALSE>>
    PROVE  /\ Run(h, Bus(z, k, g, r, a, d, FALSE), release_RWB,
                  Bus(z, k, g, b, a, d, FALSE))
           /\ release_RWB \in Seq(Writes)
<1> DEFINE u == Bus(z, k, g, r, a, d, FALSE)
<1>1. u \in States /\ ~u.dirty
  BY BusStates, Same, ZenonT(60)
<1>2. <<"driveRWB", FALSE>> \in Writes /\ <<"driveRWB", FALSE>>[1] # "take"
  BY DEF Writes
<1>3. FALSE \in BOOLEAN
  OBVIOUS
<1>4. Safe(k, g, b, a, d) /\ Calm(k, g, b)
  BY DEF Safe, Calm, Held, Ways, Places, READ, WRITE
<1>5. After(u, <<"driveRWB", FALSE>>) = Bus(z, k, g, b, a, d, FALSE)
  BY DEF Bus, After
<1> HIDE DEF u
<1>6. /\ Run(h, u, << <<"driveRWB", FALSE>> >>, Bus(z, k, g, b, a, d, FALSE))
      /\ << <<"driveRWB", FALSE>> >> \in Seq(Writes)
  BY <1>1, <1>2, <1>3, <1>4, <1>5, OneWrite
<1> QED  BY <1>6 DEF u, release_RWB

\* PHI2 rises for a read.
LEMMA Raise ==
    ASSUME NEW h, NEW z \in {0, 1}, NEW k \in Held, NEW g \in {0, 1}, NEW r \in Ways,
           NEW a \in Places, NEW d \in Data,
           k = Off, r[1] = READ, Safe(k, g, r, a, d), ~d[2]
    PROVE  /\ Run(h, Bus(z, k, g, r, a, d, FALSE), PHI2_high,
                  Bus(z, k, 1, r, a, d, FALSE))
           /\ PHI2_high \in Seq(Writes)
<1> DEFINE u == Bus(z, k, g, r, a, d, FALSE)
<1>1. u \in States /\ ~u.dirty
  BY BusStates, Same, ZenonT(60)
<1>2. <<"GO", 1>> \in Writes /\ <<"GO", 1>>[1] # "take"
  BY DEF Writes, Off
<1>3. FALSE \in BOOLEAN
  BY DEF Off
<1>4. Safe(k, 1, r, a, d) /\ Calm(k, 1, r)
  BY DEF Safe, Calm, Held, Ways, Places, READ, WRITE, Off
<1>5. After(u, <<"GO", 1>>) = Bus(z, k, 1, r, a, d, FALSE)
  BY DEF Bus, After
<1> HIDE DEF u
<1>6. /\ Run(h, u, << <<"GO", 1>> >>, Bus(z, k, 1, r, a, d, FALSE))
      /\ << <<"GO", 1>> >> \in Seq(Writes)
  BY <1>1, <1>2, <1>3, <1>4, <1>5, OneWrite
<1> QED  BY <1>6 DEF u, PHI2_high

\* STOP falls.
LEMMA StopLow ==
    ASSUME NEW h, NEW z \in {0, 1}, NEW k \in Held, NEW g \in {0, 1}, NEW r \in Ways,
           NEW a \in Places, NEW d \in Data,
           Safe(k, g, r, a, d), Calm(k, g, r)
    PROVE  /\ Run(h, Bus(z, k, g, r, a, d, FALSE), << <<"STOP", 0>> >>,
                  Bus(z, <<0, k[2]>>, g, r, a, d, FALSE))
           /\ << <<"STOP", 0>> >> \in Seq(Writes)
<1> DEFINE u == Bus(z, k, g, r, a, d, FALSE)
<1>1. u \in States /\ ~u.dirty
  BY BusStates, Same, ZenonT(60)
<1>2. <<"STOP", 0>> \in Writes /\ <<"STOP", 0>>[1] # "take"
  BY DEF Writes
<1>3. <<0, k[2]>> \in Held /\ FALSE \in BOOLEAN
  BY DEF Held
<1>4. Safe(<<0, k[2]>>, g, r, a, d) /\ Calm(<<0, k[2]>>, g, r)
  BY DEF Safe, Calm, Held, Ways, Places, READ, WRITE
<1>5. After(u, <<"STOP", 0>>) = Bus(z, <<0, k[2]>>, g, r, a, d, FALSE)
  BY DEF Bus, After
<1> HIDE DEF u
<1>6. /\ Run(h, u, << <<"STOP", 0>> >>, Bus(z, <<0, k[2]>>, g, r, a, d, FALSE))
      /\ << <<"STOP", 0>> >> \in Seq(Writes)
  BY <1>1, <1>2, <1>3, <1>4, <1>5, OneWrite
<1> QED  BY <1>6 DEF u

\* The 6502 is taken off the bus.
LEMMA BELow ==
    ASSUME NEW h, NEW z \in {0, 1}, NEW k \in Held, NEW g \in {0, 1}, NEW r \in Ways,
           NEW a \in Places, NEW d \in Data,
           k[1] = 0, Safe(k, g, r, a, d), g = 0 \/ r[1] = READ
    PROVE  /\ Run(h, Bus(z, k, g, r, a, d, FALSE), << <<"BE", 0>> >>,
                  Bus(z, <<k[1], 0>>, g, r, a, d, FALSE))
           /\ << <<"BE", 0>> >> \in Seq(Writes)
<1> DEFINE u == Bus(z, k, g, r, a, d, FALSE)
<1>1. u \in States /\ ~u.dirty
  BY BusStates, Same, ZenonT(60)
<1>2. <<"BE", 0>> \in Writes /\ <<"BE", 0>>[1] # "take"
  BY DEF Writes
<1>3. <<k[1], 0>> \in Held /\ FALSE \in BOOLEAN
  BY DEF Held
<1>4. Safe(<<k[1], 0>>, g, r, a, d) /\ Calm(<<k[1], 0>>, g, r)
  BY DEF Safe, Calm, Held, Ways, Places, READ, WRITE
<1>5. After(u, <<"BE", 0>>) = Bus(z, <<k[1], 0>>, g, r, a, d, FALSE)
  BY DEF Bus, After
<1> HIDE DEF u
<1>6. /\ Run(h, u, << <<"BE", 0>> >>, Bus(z, <<k[1], 0>>, g, r, a, d, FALSE))
      /\ << <<"BE", 0>> >> \in Seq(Writes)
  BY <1>1, <1>2, <1>3, <1>4, <1>5, OneWrite
<1> QED  BY <1>6 DEF u

\* The 6502 gets the bus.
LEMMA BEHigh ==
    ASSUME NEW h, NEW z \in {0, 1}, NEW k \in Held, NEW g \in {0, 1}, NEW r \in Ways,
           NEW a \in Places, NEW d \in Data,
           ~a[3], ~r[2], ~d[2], k[1] = 0 \/ g = 0
    PROVE  /\ Run(h, Bus(z, k, g, r, a, d, FALSE), << <<"BE", 1>> >>,
                  Bus(z, <<k[1], 1>>, g, r, a, d, FALSE))
           /\ << <<"BE", 1>> >> \in Seq(Writes)
<1> DEFINE u == Bus(z, k, g, r, a, d, FALSE)
<1>1. u \in States /\ ~u.dirty
  BY BusStates, Same, ZenonT(60)
<1>2. <<"BE", 1>> \in Writes /\ <<"BE", 1>>[1] # "take"
  BY DEF Writes
<1>3. <<k[1], 1>> \in Held /\ FALSE \in BOOLEAN
  BY DEF Held
<1>4. Safe(<<k[1], 1>>, g, r, a, d) /\ Calm(<<k[1], 1>>, g, r)
  BY DEF Safe, Calm, Held, Ways, Places, READ, WRITE
<1>5. After(u, <<"BE", 1>>) = Bus(z, <<k[1], 1>>, g, r, a, d, FALSE)
  BY DEF Bus, After
<1> HIDE DEF u
<1>6. /\ Run(h, u, << <<"BE", 1>> >>, Bus(z, <<k[1], 1>>, g, r, a, d, FALSE))
      /\ << <<"BE", 1>> >> \in Seq(Writes)
  BY <1>1, <1>2, <1>3, <1>4, <1>5, OneWrite
<1> QED  BY <1>6 DEF u

\* The 6502 goes on.
LEMMA StopHigh ==
    ASSUME NEW h, NEW z \in {0, 1}, NEW k \in Held, NEW g \in {0, 1}, NEW r \in Ways,
           NEW a \in Places, NEW d \in Data,
           k[2] = 1, g = 0, Safe(k, g, r, a, d)
    PROVE  /\ Run(h, Bus(z, k, g, r, a, d, FALSE), << <<"STOP", 1>> >>,
                  Bus(z, <<1, k[2]>>, g, r, a, d, FALSE))
           /\ << <<"STOP", 1>> >> \in Seq(Writes)
<1> DEFINE u == Bus(z, k, g, r, a, d, FALSE)
<1>1. u \in States /\ ~u.dirty
  BY BusStates, Same, ZenonT(60)
<1>2. <<"STOP", 1>> \in Writes /\ <<"STOP", 1>>[1] # "take"
  BY DEF Writes
<1>3. <<1, k[2]>> \in Held /\ FALSE \in BOOLEAN
  BY DEF Held
<1>4. Safe(<<1, k[2]>>, g, r, a, d) /\ Calm(<<1, k[2]>>, g, r)
  BY DEF Safe, Calm, Held, Ways, Places, READ, WRITE
<1>5. After(u, <<"STOP", 1>>) = Bus(z, <<1, k[2]>>, g, r, a, d, FALSE)
  BY DEF Bus, After
<1> HIDE DEF u
<1>6. /\ Run(h, u, << <<"STOP", 1>> >>, Bus(z, <<1, k[2]>>, g, r, a, d, FALSE))
      /\ << <<"STOP", 1>> >> \in Seq(Writes)
  BY <1>1, <1>2, <1>3, <1>4, <1>5, OneWrite
<1> QED  BY <1>6 DEF u

\* The high half of an address.
LEMMA HighHalf ==
    ASSUME NEW h, NEW z \in {0, 1}, NEW k \in Held, NEW g \in {0, 1}, NEW r \in Ways,
           NEW a \in Places, NEW d \in Data,
           Safe(k, g, r, a, d), Calm(k, g, r), d[2] => r[2] /\ r[1] = WRITE, NEW x \in 0 .. Pages - 1, NEW b \in Places, b = <<x, a[2], a[3]>>
    PROVE  /\ Run(h, Bus(z, k, g, r, a, d, FALSE), << <<"PORTA", x>> >>,
                  Bus(z, k, g, r, b, d, FALSE))
           /\ << <<"PORTA", x>> >> \in Seq(Writes)
<1> DEFINE u == Bus(z, k, g, r, a, d, FALSE)
<1>1. u \in States /\ ~u.dirty
  BY BusStates, Same, ZenonT(60)
<1>2. <<"PORTA", x>> \in Writes /\ <<"PORTA", x>>[1] # "take"
  BY DEF Writes
<1>3. FALSE \in BOOLEAN
  OBVIOUS
<1>4. Safe(k, g, r, b, d) /\ Calm(k, g, r)
  BY DEF Safe, Calm, Held, Ways, Places, READ, WRITE
<1>5. After(u, <<"PORTA", x>>) = Bus(z, k, g, r, b, d, FALSE)
  BY ZenonT(60) DEF Bus, After
<1> HIDE DEF u
<1>6. /\ Run(h, u, << <<"PORTA", x>> >>, Bus(z, k, g, r, b, d, FALSE))
      /\ << <<"PORTA", x>> >> \in Seq(Writes)
  BY <1>1, <1>2, <1>3, <1>4, <1>5, OneWrite
<1> QED  BY <1>6 DEF u

\* The low half of an address.
LEMMA LowHalf ==
    ASSUME NEW h, NEW z \in {0, 1}, NEW k \in Held, NEW g \in {0, 1}, NEW r \in Ways,
           NEW a \in Places, NEW d \in Data,
           Safe(k, g, r, a, d), Calm(k, g, r), d[2] => r[2] /\ r[1] = WRITE, NEW x \in 0 .. Page - 1, NEW b \in Places, b = <<a[1], x, a[3]>>
    PROVE  /\ Run(h, Bus(z, k, g, r, a, d, FALSE), << <<"PORTB", x>> >>,
                  Bus(z, k, g, r, b, d, FALSE))
           /\ << <<"PORTB", x>> >> \in Seq(Writes)
<1> DEFINE u == Bus(z, k, g, r, a, d, FALSE)
<1>1. u \in States /\ ~u.dirty
  BY BusStates, Same, ZenonT(60)
<1>2. <<"PORTB", x>> \in Writes /\ <<"PORTB", x>>[1] # "take"
  BY DEF Writes
<1>3. FALSE \in BOOLEAN
  OBVIOUS
<1>4. Safe(k, g, r, b, d) /\ Calm(k, g, r)
  BY DEF Safe, Calm, Held, Ways, Places, READ, WRITE
<1>5. After(u, <<"PORTB", x>>) = Bus(z, k, g, r, b, d, FALSE)
  BY ZenonT(60) DEF Bus, After
<1> HIDE DEF u
<1>6. /\ Run(h, u, << <<"PORTB", x>> >>, Bus(z, k, g, r, b, d, FALSE))
      /\ << <<"PORTB", x>> >> \in Seq(Writes)
  BY <1>1, <1>2, <1>3, <1>4, <1>5, OneWrite
<1> QED  BY <1>6 DEF u

\* The address is driven.
LEMMA AddressOn ==
    ASSUME NEW h, NEW z \in {0, 1}, NEW k \in Held, NEW g \in {0, 1}, NEW r \in Ways,
           NEW a \in Places, NEW d \in Data,
           Safe(k, g, r, a, d), Calm(k, g, r), d[2] => r[2] /\ r[1] = WRITE, k[2] = 0, NEW b \in Places, b = <<a[1], a[2], TRUE>>
    PROVE  /\ Run(h, Bus(z, k, g, r, a, d, FALSE), << <<"driveAddress", TRUE>> >>,
                  Bus(z, k, g, r, b, d, FALSE))
           /\ << <<"driveAddress", TRUE>> >> \in Seq(Writes)
<1> DEFINE u == Bus(z, k, g, r, a, d, FALSE)
<1>1. u \in States /\ ~u.dirty
  BY BusStates, Same, ZenonT(60)
<1>2. <<"driveAddress", TRUE>> \in Writes /\ <<"driveAddress", TRUE>>[1] # "take"
  BY DEF Writes
<1>3. FALSE \in BOOLEAN
  OBVIOUS
<1>4. Safe(k, g, r, b, d) /\ Calm(k, g, r)
  BY DEF Safe, Calm, Held, Ways, Places, READ, WRITE
<1>5. After(u, <<"driveAddress", TRUE>>) = Bus(z, k, g, r, b, d, FALSE)
  BY ZenonT(60) DEF Bus, After
<1> HIDE DEF u
<1>6. /\ Run(h, u, << <<"driveAddress", TRUE>> >>, Bus(z, k, g, r, b, d, FALSE))
      /\ << <<"driveAddress", TRUE>> >> \in Seq(Writes)
  BY <1>1, <1>2, <1>3, <1>4, <1>5, OneWrite
<1> QED  BY <1>6 DEF u

\* The address is let go.
LEMMA AddressOff ==
    ASSUME NEW h, NEW z \in {0, 1}, NEW k \in Held, NEW g \in {0, 1}, NEW r \in Ways,
           NEW a \in Places, NEW d \in Data,
           Safe(k, g, r, a, d), Calm(k, g, r), d[2] => r[2] /\ r[1] = WRITE
    PROVE  /\ Run(h, Bus(z, k, g, r, a, d, FALSE), << <<"driveAddress", FALSE>> >>,
                  Bus(z, k, g, r, <<a[1], a[2], FALSE>>, d, FALSE))
           /\ << <<"driveAddress", FALSE>> >> \in Seq(Writes)
<1> DEFINE u == Bus(z, k, g, r, a, d, FALSE)
<1>1. u \in States /\ ~u.dirty
  BY BusStates, Same, ZenonT(60)
<1>2. <<"driveAddress", FALSE>> \in Writes /\ <<"driveAddress", FALSE>>[1] # "take"
  BY DEF Writes
<1>3. <<a[1], a[2], FALSE>> \in Places /\ FALSE \in BOOLEAN
  BY DEF Places
<1>4. Safe(k, g, r, <<a[1], a[2], FALSE>>, d) /\ Calm(k, g, r)
  BY DEF Safe, Calm, Held, Ways, Places, READ, WRITE
<1>5. After(u, <<"driveAddress", FALSE>>) = Bus(z, k, g, r, <<a[1], a[2], FALSE>>, d, FALSE)
  BY DEF Bus, After
<1> HIDE DEF u
<1>6. /\ Run(h, u, << <<"driveAddress", FALSE>> >>, Bus(z, k, g, r, <<a[1], a[2], FALSE>>, d, FALSE))
      /\ << <<"driveAddress", FALSE>> >> \in Seq(Writes)
  BY <1>1, <1>2, <1>3, <1>4, <1>5, OneWrite
<1> QED  BY <1>6 DEF u

\* A byte for the data bus.
LEMMA DataByte ==
    ASSUME NEW h, NEW z \in {0, 1}, NEW k \in Held, NEW g \in {0, 1}, NEW r \in Ways,
           NEW a \in Places, NEW d \in Data,
           Safe(k, g, r, a, d), Calm(k, g, r), NEW x \in Byte, NEW b \in Data, b = <<x, d[2]>>
    PROVE  /\ Run(h, Bus(z, k, g, r, a, d, FALSE), << <<"PORTC", x>> >>,
                  Bus(z, k, g, r, a, b, FALSE))
           /\ << <<"PORTC", x>> >> \in Seq(Writes)
<1> DEFINE u == Bus(z, k, g, r, a, d, FALSE)
<1>1. u \in States /\ ~u.dirty
  BY BusStates, Same, ZenonT(60)
<1>2. <<"PORTC", x>> \in Writes /\ <<"PORTC", x>>[1] # "take"
  BY DEF Writes
<1>3. FALSE \in BOOLEAN
  OBVIOUS
<1>4. Safe(k, g, r, a, b) /\ Calm(k, g, r)
  BY DEF Safe, Calm, Held, Ways, Places, READ, WRITE
<1>5. After(u, <<"PORTC", x>>) = Bus(z, k, g, r, a, b, FALSE)
  BY DEF Bus, After
<1> HIDE DEF u
<1>6. /\ Run(h, u, << <<"PORTC", x>> >>, Bus(z, k, g, r, a, b, FALSE))
      /\ << <<"PORTC", x>> >> \in Seq(Writes)
  BY <1>1, <1>2, <1>3, <1>4, <1>5, OneWrite
<1> QED  BY <1>6 DEF u

\* The data bus is let go.
LEMMA DataOff ==
    ASSUME NEW h, NEW z \in {0, 1}, NEW k \in Held, NEW g \in {0, 1}, NEW r \in Ways,
           NEW a \in Places, NEW d \in Data,
           Safe(k, g, r, a, d), Calm(k, g, r)
    PROVE  /\ Run(h, Bus(z, k, g, r, a, d, FALSE), << <<"driveData", FALSE>> >>,
                  Bus(z, k, g, r, a, <<d[1], FALSE>>, FALSE))
           /\ << <<"driveData", FALSE>> >> \in Seq(Writes)
<1> DEFINE u == Bus(z, k, g, r, a, d, FALSE)
<1>1. u \in States /\ ~u.dirty
  BY BusStates, Same, ZenonT(60)
<1>2. <<"driveData", FALSE>> \in Writes /\ <<"driveData", FALSE>>[1] # "take"
  BY DEF Writes
<1>3. <<d[1], FALSE>> \in Data /\ FALSE \in BOOLEAN
  BY DEF Data
<1>4. Safe(k, g, r, a, <<d[1], FALSE>>) /\ Calm(k, g, r)
  BY DEF Safe, Calm, Held, Ways, Places, READ, WRITE
<1>5. After(u, <<"driveData", FALSE>>) = Bus(z, k, g, r, a, <<d[1], FALSE>>, FALSE)
  BY DEF Bus, After
<1> HIDE DEF u
<1>6. /\ Run(h, u, << <<"driveData", FALSE>> >>, Bus(z, k, g, r, a, <<d[1], FALSE>>, FALSE))
      /\ << <<"driveData", FALSE>> >> \in Seq(Writes)
  BY <1>1, <1>2, <1>3, <1>4, <1>5, OneWrite
<1> QED  BY <1>6 DEF u

\* The data bus is driven: memory lacks the byte from here on.
LEMMA DataOn ==
    ASSUME NEW h, NEW z \in {0, 1}, NEW k \in Held, NEW g \in {0, 1}, NEW r \in Ways,
           NEW a \in Places, NEW d \in Data,
           k = Off, g = 0, Safe(k, g, r, a, d), (r[2] /\ r[1] = WRITE) \/ (a[3] /\ a[1] * Page + a[2] \in SRAM)
    PROVE  /\ Run(h, Bus(z, k, g, r, a, d, FALSE), << <<"driveData", TRUE>> >>,
                  Bus(z, k, g, r, a, <<d[1], TRUE>>, TRUE))
           /\ << <<"driveData", TRUE>> >> \in Seq(Writes)
<1> DEFINE u == Bus(z, k, g, r, a, d, FALSE)
<1>1. u \in States /\ ~u.dirty
  BY BusStates, Same, ZenonT(60)
<1>2. <<"driveData", TRUE>> \in Writes /\ <<"driveData", TRUE>>[1] # "take"
  BY DEF Writes, Off
<1>3. <<d[1], TRUE>> \in Data /\ TRUE \in BOOLEAN
  BY DEF Data, Off
<1>4. Safe(k, g, r, a, <<d[1], TRUE>>) /\ Calm(k, g, r)
  BY DEF Safe, Calm, Held, Ways, Places, READ, WRITE, Off
<1>5. After(u, <<"driveData", TRUE>>) = Bus(z, k, g, r, a, <<d[1], TRUE>>, TRUE)
  BY ZenonT(60) DEF Bus, After
<1> HIDE DEF u
<1>6. /\ Run(h, u, << <<"driveData", TRUE>> >>, Bus(z, k, g, r, a, <<d[1], TRUE>>, TRUE))
      /\ << <<"driveData", TRUE>> >> \in Seq(Writes)
  BY <1>1, <1>2, <1>3, <1>4, <1>5, OneWrite
<1> QED  BY <1>6 DEF u

\* RESB is driven or let go.
LEMMA StrobeRESB ==
    ASSUME NEW h, NEW z \in {0, 1}, NEW k \in Held, NEW g \in {0, 1}, NEW r \in Ways,
           NEW a \in Places, NEW d \in Data,
           Safe(k, g, r, a, d), Calm(k, g, r), NEW x \in {0, 1}
    PROVE  /\ Run(h, Bus(z, k, g, r, a, d, FALSE), << <<"RESB", x>> >>,
                  Bus(x, k, g, r, a, d, FALSE))
           /\ << <<"RESB", x>> >> \in Seq(Writes)
<1> DEFINE u == Bus(z, k, g, r, a, d, FALSE)
<1>1. u \in States /\ ~u.dirty
  BY BusStates, Same, ZenonT(60)
<1>2. <<"RESB", x>> \in Writes /\ <<"RESB", x>>[1] # "take"
  BY DEF Writes
<1>3. FALSE \in BOOLEAN
  OBVIOUS
<1>4. Safe(k, g, r, a, d) /\ Calm(k, g, r)
  BY DEF Safe, Calm, Held, Ways, Places, READ, WRITE
<1>5. After(u, <<"RESB", x>>) = Bus(x, k, g, r, a, d, FALSE)
  BY DEF Bus, After
<1> HIDE DEF u
<1>6. /\ Run(h, u, << <<"RESB", x>> >>, Bus(x, k, g, r, a, d, FALSE))
      /\ << <<"RESB", x>> >> \in Seq(Writes)
  BY <1>1, <1>2, <1>3, <1>4, <1>5, OneWrite
<1> QED  BY <1>6 DEF u

\* GO is toggled while the 6502 is stopped and RWB says READ.
LEMMA ToggleGO ==
    ASSUME NEW h, NEW z \in {0, 1}, NEW k \in Held, NEW g \in {0, 1}, NEW r \in Ways,
           NEW a \in Places, NEW d \in Data,
           k[1] = 0, r[1] = READ, ~d[2], Safe(k, g, r, a, d), NEW x \in {0, 1}
    PROVE  /\ Run(h, Bus(z, k, g, r, a, d, FALSE), << <<"GO", x>> >>,
                  Bus(z, k, x, r, a, d, FALSE))
           /\ << <<"GO", x>> >> \in Seq(Writes)
<1> DEFINE u == Bus(z, k, g, r, a, d, FALSE)
<1>1. u \in States /\ ~u.dirty
  BY BusStates, Same, ZenonT(60)
<1>2. <<"GO", x>> \in Writes /\ <<"GO", x>>[1] # "take"
  BY DEF Writes
<1>3. FALSE \in BOOLEAN
  OBVIOUS
<1>4. Safe(k, x, r, a, d) /\ Calm(k, x, r)
  BY DEF Safe, Calm, Held, Ways, Places, READ, WRITE
<1>5. After(u, <<"GO", x>>) = Bus(z, k, x, r, a, d, FALSE)
  BY DEF Bus, After
<1> HIDE DEF u
<1>6. /\ Run(h, u, << <<"GO", x>> >>, Bus(z, k, x, r, a, d, FALSE))
      /\ << <<"GO", x>> >> \in Seq(Writes)
  BY <1>1, <1>2, <1>3, <1>4, <1>5, OneWrite
<1> QED  BY <1>6 DEF u

\* RWB is driven while memory lacks a byte.
LEMMA DrivenForByte ==
    ASSUME NEW h, NEW z \in {0, 1}, NEW r \in Ways, NEW a \in Places, NEW d \in Data, Safe(Off, 0, r, a, d)
    PROVE  /\ Run(h, Bus(z, Off, 0, r, a, d, TRUE), drive_RWB, Bus(z, Off, 0, <<r[1], TRUE>>, a, d, TRUE))
           /\ drive_RWB \in Seq(Writes)
<1> DEFINE u == Bus(z, Off, 0, r, a, d, TRUE)
           v == Bus(z, Off, 0, <<r[1], TRUE>>, a, d, TRUE)
           w == <<"driveRWB", TRUE>>
<1>1. Off \in Held /\ 0 \in {0, 1} /\ <<r[1], TRUE>> \in Ways /\ TRUE \in BOOLEAN /\ Off[2] = 0
  BY DEF Off, Held, Ways
<1>2. u \in States /\ v \in States
  BY <1>1, BusStates
<1>3. After(u, w) = v
  BY DEF Bus, After
<1>4. Safe(Off, 0, <<r[1], TRUE>>, a, d) /\ Calm(Off, 0, <<r[1], TRUE>>)
  BY DEF Safe, Calm, Off
<1>5. Sound(v.pin) /\ ~Writing(v.pin) /\ v.pin.BE = 0
  BY <1>1, <1>4 DEF Sound, Writing, Safe, Calm, At, Bus, READ, WRITE
<1>6. w \in Writes /\ w[1] = "driveRWB" /\ w # <<"GO", 1>>
  BY DEF Writes
<1> HIDE DEF u, v, w
<1>7. Fine(h, u, w)
  BY <1>3, <1>5, <1>6 DEF Fine
<1>8. Run(h, u, <<w>>, v) /\ <<w>> \in Seq(Writes)
  BY <1>2, <1>3, <1>6, <1>7, RunOne
<1> QED  BY <1>8 DEF u, v, w, drive_RWB

\* PHI2 rises for a write: memory gets the byte.
LEMMA Store ==
    ASSUME NEW h \in Address, NEW z \in {0, 1}, NEW x \in Byte
    PROVE  /\ Run(h, Bus(z, Off, 0, <<WRITE, TRUE>>, Place(h), <<x, TRUE>>, TRUE), PHI2_high,
                  Bus(z, Off, 1, <<WRITE, TRUE>>, Place(h), <<x, TRUE>>, FALSE))
           /\ PHI2_high \in Seq(Writes)
<1> DEFINE u == Bus(z, Off, 0, <<WRITE, TRUE>>, Place(h), <<x, TRUE>>, TRUE)
           v == Bus(z, Off, 1, <<WRITE, TRUE>>, Place(h), <<x, TRUE>>, FALSE)
           w == <<"GO", 1>>
<1>1. /\ Off \in Held /\ <<WRITE, TRUE>> \in Ways /\ <<x, TRUE>> \in Data
      /\ TRUE \in BOOLEAN /\ FALSE \in BOOLEAN /\ Off[2] = 0 /\ 0 \in {0, 1} /\ 1 \in {0, 1}
  BY DEF Off, Held, Ways, Data, WRITE
<1>2. Place(h) \in Places
  BY Halves DEF Place, Places
<1>3. u \in States /\ v \in States /\ u.dirty
  BY <1>1, <1>2, BusStates, Same
<1>4. After(u, w) = v
  BY DEF Bus, After
<1>5. Safe(Off, 1, <<WRITE, TRUE>>, Place(h), <<x, TRUE>>) /\ ~Calm(Off, 1, <<WRITE, TRUE>>)
  BY DEF Safe, Calm, Off, READ, WRITE
<1>6. Sound(v.pin) /\ Writing(v.pin) /\ v.pin.BE = 0
  BY <1>1, <1>2, <1>5 DEF Sound, Writing, Safe, Calm, At, Bus, READ, WRITE
<1>7. v.pin.driveAddress /\ v.pin.driveRWB /\ v.pin.driveData /\ At(v.pin) = h
  BY Halves DEF Bus, Place, At
<1>8. w \in Writes /\ w[1] = "GO" /\ w = <<"GO", 1>>
  BY DEF Writes
<1> HIDE DEF u, v
<1>9. Fine(h, u, w)
  BY <1>3, <1>4, <1>6, <1>7, <1>8 DEF Fine
<1>10. Run(h, u, <<w>>, v) /\ <<w>> \in Seq(Writes)
  BY <1>3, <1>4, <1>8, <1>9, RunOne
<1> QED  BY <1>10 DEF u, v, PHI2_high

\* The byte is taken at the address that the command is about, where memory answers.
LEMMA TakeThere ==
    ASSUME NEW h \in Address, NEW z \in {0, 1}, NEW k \in Held, NEW g \in {0, 1}, NEW r \in Ways, NEW d \in Data,
           k[1] = 0, g = 1, r = <<READ, TRUE>>
    PROVE  /\ Run(h, Bus(z, k, g, r, Place(h), d, FALSE), Take, Bus(z, k, g, r, Place(h), d, FALSE))
           /\ Take \in Seq(Writes)
<1> DEFINE u == Bus(z, k, g, r, Place(h), d, FALSE)
           w == <<"take", 0>>
<1>1. Place(h) \in Places
  BY Halves DEF Place, Places
<1>2. u \in States
  BY <1>1, BusStates
<1>3. /\ u.pin.driveAddress /\ At(u.pin) = h /\ u.pin.driveRWB /\ u.pin.RWB = READ
      /\ u.pin.STOP = 0 /\ u.pin.GO = 1
  BY Halves DEF Bus, Place, At
<1>4. w \in Writes /\ w[1] = "take"
  BY DEF Writes
<1> HIDE DEF u, w
<1>5. After(u, w) = u /\ Fine(h, u, w)
  BY <1>3, <1>4 DEF After, Fine
<1>6. Run(h, u, <<w>>, u) /\ <<w>> \in Seq(Writes)
  BY <1>2, <1>4, <1>5, RunOne
<1> QED  BY <1>6 DEF u, w, Take

\* Data lines and address lines that are let go.
Free == <<Values - 1, FALSE>>
Away == <<Pages - 1, Page - 1, FALSE>>

\* Addresses and bytes that the commands write.
LEMMA Numbers ==
    /\ Pages - 1 \in 0 .. Pages - 1 /\ Page - 1 \in 0 .. Page - 1 /\ Values - 1 \in Byte
    /\ FALSE \in BOOLEAN /\ TRUE \in BOOLEAN
<1>1. 0 \in Address
  BY MonitorAssumption DEF SRAM
<1> QED  BY <1>1, Halves, MonitorAssumption DEF Byte

\* The 6502 is stopped and taken off the bus.
LEMMA Disconnect ==
    ASSUME NEW h, NEW z \in {0, 1}, NEW k \in Held, NEW g \in {0, 1}, NEW r \in Ways,
           NEW a \in Places, NEW d \in Data,
           Safe(k, g, r, a, d), g = 0 \/ r[1] = READ
    PROVE  /\ Run(h, Bus(z, k, g, r, a, d, FALSE), disconnect_6502_from_bus,
                  Bus(z, Off, g, r, a, d, FALSE))
           /\ disconnect_6502_from_bus \in Seq(Writes)
<1> DEFINE u0 == Bus(z, k, g, r, a, d, FALSE)
           u1 == Bus(z, <<0, k[2]>>, g, r, a, d, FALSE)
           u2 == Bus(z, Off, g, r, a, d, FALSE)
           w1 == <<"STOP", 0>>
           w2 == <<"BE", 0>>
<1>1. /\ <<0, k[2]>> \in Held /\ Off = <<0, 0>> /\ Calm(k, g, r) /\ <<0, k[2]>>[1] = 0
      /\ <<0, k[2]>>[2] = k[2]
  BY Halves, Numbers DEF Held, Ways, Places, Data, READ, WRITE, Calm, Off
<1>2. Safe(<<0, k[2]>>, g, r, a, d) /\ Calm(<<0, k[2]>>, g, r)
  BY <1>1 DEF Safe, Calm, Off, READ, WRITE
<1>3. Run(h, u0, <<w1>>, u1)
  BY <1>1, StopLow
<1>4. Safe(Off, g, r, a, d) /\ Calm(Off, g, r)
  BY <1>1 DEF Safe, Calm, Off, READ, WRITE
<1>5. Run(h, u1, <<w2>>, u2)
  BY <1>1, <1>2, BELow
<1>6. w1 \in Writes /\ w2 \in Writes
  BY <1>1, Numbers DEF Writes
<1> HIDE DEF u0, u1, u2, w1, w2
<1>7. Run(h, u0, <<w1, w2>>, u2) /\ <<w1, w2>> \in Seq(Writes)
  BY <1>3, <1>5, <1>6, RunTwo
<1> QED  BY <1>7 DEF disconnect_6502_from_bus, u0, u2, w1, w2

\* The 6502 gets the bus and goes on.
LEMMA Reconnect ==
    ASSUME NEW h, NEW z \in {0, 1}, NEW k \in Held, NEW g \in {0, 1}, NEW r \in Ways,
           NEW a \in Places, NEW d \in Data,
           ~a[3], ~r[2], ~d[2], g = 0
    PROVE  /\ Run(h, Bus(z, k, g, r, a, d, FALSE), reconnect_6502_to_bus,
                  Bus(z, <<1, 1>>, g, r, a, d, FALSE))
           /\ reconnect_6502_to_bus \in Seq(Writes)
<1> DEFINE u0 == Bus(z, k, g, r, a, d, FALSE)
           u1 == Bus(z, <<k[1], 1>>, g, r, a, d, FALSE)
           u2 == Bus(z, <<1, 1>>, g, r, a, d, FALSE)
           w1 == <<"BE", 1>>
           w2 == <<"STOP", 1>>
<1>1. <<k[1], 1>> \in Held /\ <<k[1], 1>>[2] = 1
  BY Halves, Numbers DEF Held, READ, WRITE
<1>2. Safe(<<k[1], 1>>, g, r, a, d) /\ Calm(<<k[1], 1>>, g, r)
  BY <1>1 DEF Safe, Calm, READ, WRITE
<1>3. Run(h, u0, <<w1>>, u1)
  BY <1>1, BEHigh
<1>4. Safe(<<1, 1>>, g, r, a, d) /\ Calm(<<1, 1>>, g, r)
  BY <1>1 DEF Safe, Calm, READ, WRITE
<1>5. Run(h, u1, <<w2>>, u2)
  BY <1>1, <1>2, StopHigh
<1>6. w1 \in Writes /\ w2 \in Writes
  BY <1>1, Numbers DEF Writes
<1> HIDE DEF u0, u1, u2, w1, w2
<1>7. Run(h, u0, <<w1, w2>>, u2) /\ <<w1, w2>> \in Seq(Writes)
  BY <1>3, <1>5, <1>6, RunTwo
<1> QED  BY <1>7 DEF reconnect_6502_to_bus, u0, u2, w1, w2

\* The address x is put on the bus.
LEMMA AddressOut ==
    ASSUME NEW h, NEW z \in {0, 1}, NEW k \in Held, NEW g \in {0, 1}, NEW r \in Ways,
           NEW a \in Places, NEW d \in Data,
           Safe(k, g, r, a, d), Calm(k, g, r), d[2] => r[2] /\ r[1] = WRITE, k[2] = 0, NEW x \in Address
    PROVE  /\ Run(h, Bus(z, k, g, r, a, d, FALSE), drive_address_bus(x),
                  Bus(z, k, g, r, Place(x), d, FALSE))
           /\ drive_address_bus(x) \in Seq(Writes)
<1> DEFINE u0 == Bus(z, k, g, r, a, d, FALSE)
           u1 == Bus(z, k, g, r, <<high(x), a[2], a[3]>>, d, FALSE)
           u2 == Bus(z, k, g, r, <<high(x), low(x), a[3]>>, d, FALSE)
           u3 == Bus(z, k, g, r, Place(x), d, FALSE)
           w1 == <<"PORTA", high(x)>>
           w2 == <<"PORTB", low(x)>>
           w3 == <<"driveAddress", TRUE>>
<1>1. /\ <<high(x), a[2], a[3]>> \in Places /\ <<high(x), low(x), a[3]>> \in Places
      /\ high(x) \in 0 .. Pages - 1 /\ low(x) \in 0 .. Page - 1
      /\ Place(x) = <<high(x), low(x), TRUE>> /\ Place(x) \in Places
  BY Halves, Numbers DEF Places, READ, WRITE, Place
<1>2. Safe(k, g, r, <<high(x), a[2], a[3]>>, d) /\ Calm(k, g, r)
  BY <1>1 DEF Safe, Calm, READ, WRITE, Place
<1>3. Run(h, u0, <<w1>>, u1)
  BY <1>1, HighHalf, Numbers, ZenonT(60)
<1>4. Safe(k, g, r, <<high(x), low(x), a[3]>>, d) /\ Calm(k, g, r)
  BY <1>1 DEF Safe, Calm, READ, WRITE, Place
<1>5. Run(h, u1, <<w2>>, u2)
  BY <1>1, <1>2, LowHalf, Numbers, ZenonT(60)
<1>6. Safe(k, g, r, Place(x), d) /\ Calm(k, g, r)
  BY <1>1 DEF Safe, Calm, READ, WRITE, Place
<1>7. Run(h, u2, <<w3>>, u3)
  BY <1>1, <1>2, <1>4, AddressOn
<1>8. w1 \in Writes /\ w2 \in Writes /\ w3 \in Writes
  BY <1>1, Numbers DEF Writes
<1> HIDE DEF u0, u1, u2, u3, w1, w2, w3
<1>9. Run(h, u0, <<w1, w2, w3>>, u3) /\ <<w1, w2, w3>> \in Seq(Writes)
  BY <1>3, <1>5, <1>7, <1>8, RunThree
<1> QED  BY <1>9 DEF drive_address_bus, u0, u3, w1, w2, w3

\* The address bus is let go.
LEMMA AddressGone ==
    ASSUME NEW h, NEW z \in {0, 1}, NEW k \in Held, NEW g \in {0, 1}, NEW r \in Ways,
           NEW a \in Places, NEW d \in Data,
           Safe(k, g, r, a, d), Calm(k, g, r), d[2] => r[2] /\ r[1] = WRITE
    PROVE  /\ Run(h, Bus(z, k, g, r, a, d, FALSE), release_address_bus,
                  Bus(z, k, g, r, Away, d, FALSE))
           /\ release_address_bus \in Seq(Writes)
<1> DEFINE u0 == Bus(z, k, g, r, a, d, FALSE)
           u1 == Bus(z, k, g, r, <<a[1], a[2], FALSE>>, d, FALSE)
           u2 == Bus(z, k, g, r, <<Pages - 1, a[2], FALSE>>, d, FALSE)
           u3 == Bus(z, k, g, r, Away, d, FALSE)
           w1 == <<"driveAddress", FALSE>>
           w2 == <<"PORTA", Pages - 1>>
           w3 == <<"PORTB", Page - 1>>
<1>1. <<a[1], a[2], FALSE>> \in Places /\ <<Pages - 1, a[2], FALSE>> \in Places /\ Away \in Places
  BY Halves, Numbers DEF Places, READ, WRITE, Away
<1>2. Safe(k, g, r, <<a[1], a[2], FALSE>>, d) /\ Calm(k, g, r)
  BY <1>1 DEF Safe, Calm, READ, WRITE, Away
<1>3. Run(h, u0, <<w1>>, u1)
  BY <1>1, AddressOff
<1>4. Safe(k, g, r, <<Pages - 1, a[2], FALSE>>, d) /\ Calm(k, g, r)
  BY <1>1 DEF Safe, Calm, READ, WRITE, Away
<1>5. Run(h, u1, <<w2>>, u2)
  BY <1>1, <1>2, HighHalf, Numbers
<1>6. Safe(k, g, r, Away, d) /\ Calm(k, g, r)
  BY <1>1 DEF Safe, Calm, READ, WRITE, Away
<1>7. Run(h, u2, <<w3>>, u3)
  BY <1>1, <1>2, <1>4, LowHalf, Numbers DEF Away
<1>8. w1 \in Writes /\ w2 \in Writes /\ w3 \in Writes
  BY <1>1, Numbers DEF Writes
<1> HIDE DEF u0, u1, u2, u3, w1, w2, w3
<1>9. Run(h, u0, <<w1, w2, w3>>, u3) /\ <<w1, w2, w3>> \in Seq(Writes)
  BY <1>3, <1>5, <1>7, <1>8, RunThree
<1> QED  BY <1>9 DEF release_address_bus, u0, u3, w1, w2, w3

\* The byte x is put on the data bus.
LEMMA DataOut ==
    ASSUME NEW h, NEW z \in {0, 1}, NEW k \in Held, NEW g \in {0, 1}, NEW r \in Ways,
           NEW a \in Places, NEW d \in Data,
           k = Off, g = 0, Safe(k, g, r, a, d), (r[2] /\ r[1] = WRITE) \/ (a[3] /\ a[1] * Page + a[2] \in SRAM), NEW x \in Byte
    PROVE  /\ Run(h, Bus(z, k, g, r, a, d, FALSE), drive_data_bus(x),
                  Bus(z, k, g, r, a, <<x, TRUE>>, TRUE))
           /\ drive_data_bus(x) \in Seq(Writes)
<1> DEFINE u0 == Bus(z, k, g, r, a, d, FALSE)
           u1 == Bus(z, k, g, r, a, <<x, d[2]>>, FALSE)
           u2 == Bus(z, k, g, r, a, <<x, TRUE>>, TRUE)
           w1 == <<"PORTC", x>>
           w2 == <<"driveData", TRUE>>
<1>1. <<x, d[2]>> \in Data /\ <<x, TRUE>> \in Data /\ <<x, d[2]>>[1] = x /\ Calm(k, g, r)
  BY Halves, Numbers DEF Held, Ways, Places, Data, READ, WRITE, Calm
<1>2. Safe(k, g, r, a, <<x, d[2]>>) /\ Calm(k, g, r)
  BY <1>1 DEF Safe, Calm, Off, READ, WRITE
<1>3. Run(h, u0, <<w1>>, u1)
  BY <1>1, DataByte, Numbers, ZenonT(60)
<1>4. Safe(k, g, r, a, <<x, TRUE>>) /\ Calm(k, g, r)
  BY <1>1 DEF Safe, Calm, Off, READ, WRITE
<1>5. Run(h, u1, <<w2>>, u2)
  BY <1>1, <1>2, DataOn, ZenonT(60)
<1>6. w1 \in Writes /\ w2 \in Writes
  BY <1>1, Numbers DEF Writes
<1> HIDE DEF u0, u1, u2, w1, w2
<1>7. Run(h, u0, <<w1, w2>>, u2) /\ <<w1, w2>> \in Seq(Writes)
  BY <1>3, <1>5, <1>6, RunTwo
<1> QED  BY <1>7 DEF drive_data_bus, u0, u2, w1, w2

\* The data bus is let go.
LEMMA DataGone ==
    ASSUME NEW h, NEW z \in {0, 1}, NEW k \in Held, NEW g \in {0, 1}, NEW r \in Ways,
           NEW a \in Places, NEW d \in Data,
           Safe(k, g, r, a, d), Calm(k, g, r)
    PROVE  /\ Run(h, Bus(z, k, g, r, a, d, FALSE), release_data_bus,
                  Bus(z, k, g, r, a, Free, FALSE))
           /\ release_data_bus \in Seq(Writes)
<1> DEFINE u0 == Bus(z, k, g, r, a, d, FALSE)
           u1 == Bus(z, k, g, r, a, <<d[1], FALSE>>, FALSE)
           u2 == Bus(z, k, g, r, a, Free, FALSE)
           w1 == <<"driveData", FALSE>>
           w2 == <<"PORTC", Values - 1>>
<1>1. <<d[1], FALSE>> \in Data /\ Free \in Data
  BY Halves, Numbers DEF Data, READ, WRITE, Free
<1>2. Safe(k, g, r, a, <<d[1], FALSE>>) /\ Calm(k, g, r)
  BY <1>1 DEF Safe, Calm, READ, WRITE, Free
<1>3. Run(h, u0, <<w1>>, u1)
  BY <1>1, DataOff
<1>4. Safe(k, g, r, a, Free) /\ Calm(k, g, r)
  BY <1>1 DEF Safe, Calm, READ, WRITE, Free
<1>5. Run(h, u1, <<w2>>, u2)
  BY <1>1, <1>2, DataByte, Numbers DEF Free
<1>6. w1 \in Writes /\ w2 \in Writes
  BY <1>1, Numbers DEF Writes
<1> HIDE DEF u0, u1, u2, w1, w2
<1>7. Run(h, u0, <<w1, w2>>, u2) /\ <<w1, w2>> \in Seq(Writes)
  BY <1>3, <1>5, <1>6, RunTwo
<1> QED  BY <1>7 DEF release_data_bus, u0, u2, w1, w2

\* A read at h ends with the bus still held, PHI2 low.
LEMMA ReadsCell ==
    ASSUME NEW h \in Address, NEW z \in {0, 1}, NEW k \in Held, NEW g \in {0, 1}, NEW r \in Ways,
           NEW a \in Places, NEW d \in Data,
           Safe(k, g, r, a, d)
    PROVE  /\ Run(h, Bus(z, k, g, r, a, d, FALSE), read_from_address(h),
                  Bus(z, Off, 0, <<READ, TRUE>>, Place(h), Free, FALSE))
           /\ read_from_address(h) \in Seq(Writes)
<1> DEFINE u0 == Bus(z, k, g, r, a, d, FALSE)
           u1 == Bus(z, k, 0, r, a, d, FALSE)
           u2 == Bus(z, Off, 0, r, a, d, FALSE)
           u3 == Bus(z, Off, 0, r, a, Free, FALSE)
           u4 == Bus(z, Off, 0, <<READ, r[2]>>, a, Free, FALSE)
           u5 == Bus(z, Off, 0, <<READ, r[2]>>, Place(h), Free, FALSE)
           u6 == Bus(z, Off, 0, <<READ, TRUE>>, Place(h), Free, FALSE)
           u7 == Bus(z, Off, 1, <<READ, TRUE>>, Place(h), Free, FALSE)
           u8 == Bus(z, Off, 1, <<READ, TRUE>>, Place(h), Free, FALSE)
           u9 == Bus(z, Off, 0, <<READ, TRUE>>, Place(h), Free, FALSE)
<1>1. /\ Off \in Held /\ Free \in Data /\ 0 \in {0, 1} /\ 1 \in {0, 1} /\ FALSE \in BOOLEAN
      /\ TRUE \in BOOLEAN /\ Off[1] = 0 /\ Off[2] = 0 /\ ~Free[2] /\ <<READ, r[2]>> \in Ways
      /\ <<READ, TRUE>> \in Ways /\ Place(h) \in Places
  BY Numbers, Halves, MonitorAssumption DEF Free, Held, Ways, Places, Data, READ, WRITE, Off, Place
<1>2. Safe(k, g, r, a, d)
  BY <1>1 DEF Safe, Calm, Off, Place, Free, READ, WRITE
<1>3. Run(h, u0, PHI2_low, u1) /\ PHI2_low \in Seq(Writes)
  BY <1>1, <1>2, Lower
<1>4. Safe(k, 0, r, a, d) /\ Calm(k, 0, r)
  BY <1>1, <1>2 DEF Safe, Calm, Off, Place, Free, READ, WRITE
<1>5. Run(h, u1, disconnect_6502_from_bus, u2) /\ disconnect_6502_from_bus \in Seq(Writes)
  BY <1>1, <1>4, Disconnect
<1>6. Safe(Off, 0, r, a, d) /\ Calm(Off, 0, r)
  BY <1>1, <1>4 DEF Safe, Calm, Off, Place, Free, READ, WRITE
<1>7. Run(h, u2, release_data_bus, u3) /\ release_data_bus \in Seq(Writes)
  BY <1>1, <1>6, DataGone
<1>8. Safe(Off, 0, r, a, Free) /\ Calm(Off, 0, r)
  BY <1>1, <1>6 DEF Safe, Calm, Off, Place, Free, READ, WRITE
<1>9. Run(h, u3, RWB_read, u4) /\ RWB_read \in Seq(Writes)
  BY <1>1, <1>8, ReadRWB, ZenonT(60)
<1>10. Safe(Off, 0, <<READ, r[2]>>, a, Free) /\ Calm(Off, 0, <<READ, r[2]>>)
  BY <1>1, <1>8 DEF Safe, Calm, Off, Place, Free, READ, WRITE
<1>11. Run(h, u4, drive_address_bus(h), u5) /\ drive_address_bus(h) \in Seq(Writes)
  BY <1>1, <1>10, AddressOut
<1>12. Safe(Off, 0, <<READ, r[2]>>, Place(h), Free) /\ Calm(Off, 0, <<READ, r[2]>>)
  BY <1>1, <1>10 DEF Safe, Calm, Off, Place, Free, READ, WRITE
<1>13. Run(h, u5, drive_RWB, u6) /\ drive_RWB \in Seq(Writes)
  BY <1>1, <1>12, DrivenRWB
<1>14. Safe(Off, 0, <<READ, TRUE>>, Place(h), Free) /\ Calm(Off, 0, <<READ, TRUE>>)
  BY <1>1, <1>12 DEF Safe, Calm, Off, Place, Free, READ, WRITE
<1>15. Run(h, u6, PHI2_high, u7) /\ PHI2_high \in Seq(Writes)
  BY <1>1, <1>14, Raise
<1>16. Safe(Off, 1, <<READ, TRUE>>, Place(h), Free) /\ Calm(Off, 1, <<READ, TRUE>>)
  BY <1>1, <1>14 DEF Safe, Calm, Off, Place, Free, READ, WRITE
<1>17. Run(h, u7, Take, u8) /\ Take \in Seq(Writes)
  BY <1>1, <1>16, TakeThere
<1>18. Safe(Off, 1, <<READ, TRUE>>, Place(h), Free) /\ Calm(Off, 1, <<READ, TRUE>>)
  BY <1>1, <1>16 DEF Safe, Calm, Off, Place, Free, READ, WRITE
<1>19. Run(h, u8, PHI2_low, u9) /\ PHI2_low \in Seq(Writes)
  BY <1>1, <1>18, Lower
<1> DEFINE t2 == PHI2_low \o disconnect_6502_from_bus
           t3 == t2 \o release_data_bus
           t4 == t3 \o RWB_read
           t5 == t4 \o drive_address_bus(h)
           t6 == t5 \o drive_RWB
           t7 == t6 \o PHI2_high
           t8 == t7 \o Take
           t9 == t8 \o PHI2_low
<1> HIDE DEF u0, u1, u2, u3, u4, u5, u6, u7, u8, u9, t2, t3, t4, t5, t6, t7, t8, t9
<1>20. Run(h, u0, t2, u2) /\ t2 \in Seq(Writes)
  BY <1>3, <1>5, RunThen DEF t2
<1>21. Run(h, u0, t3, u3) /\ t3 \in Seq(Writes)
  BY <1>20, <1>7, RunThen DEF t3
<1>22. Run(h, u0, t4, u4) /\ t4 \in Seq(Writes)
  BY <1>21, <1>9, RunThen DEF t4
<1>23. Run(h, u0, t5, u5) /\ t5 \in Seq(Writes)
  BY <1>22, <1>11, RunThen DEF t5
<1>24. Run(h, u0, t6, u6) /\ t6 \in Seq(Writes)
  BY <1>23, <1>13, RunThen DEF t6
<1>25. Run(h, u0, t7, u7) /\ t7 \in Seq(Writes)
  BY <1>24, <1>15, RunThen DEF t7
<1>26. Run(h, u0, t8, u8) /\ t8 \in Seq(Writes)
  BY <1>25, <1>17, RunThen DEF t8
<1>27. Run(h, u0, t9, u9) /\ t9 \in Seq(Writes)
  BY <1>26, <1>19, RunThen DEF t9
<1> QED  BY <1>27 DEF u0, u9, t2, t3, t4, t5, t6, t7, t8, t9, read_from_address

\* A write of x at h ends with the bus still held, PHI2 low and the byte in memory.
LEMMA WritesCell ==
    ASSUME NEW h \in Address, NEW x \in Byte, NEW z \in {0, 1}, NEW k \in Held, NEW g \in {0, 1}, NEW r \in Ways,
           NEW a \in Places, NEW d \in Data,
           Safe(k, g, r, a, d), g = 0 \/ r[1] = READ \/ k[2] = 0, d[2] => r[2] /\ r[1] = WRITE, r[2] \/ h \in SRAM
    PROVE  /\ Run(h, Bus(z, k, g, r, a, d, FALSE), write_to_address(h, x),
                  Bus(z, Off, 0, <<WRITE, TRUE>>, Place(h), <<x, TRUE>>, FALSE))
           /\ write_to_address(h, x) \in Seq(Writes)
<1> DEFINE u0 == Bus(z, k, g, r, a, d, FALSE)
           u1 == Bus(z, k, 0, r, a, d, FALSE)
           u2 == Bus(z, Off, 0, r, a, d, FALSE)
           u3 == Bus(z, Off, 0, r, Place(h), d, FALSE)
           u4 == Bus(z, Off, 0, <<WRITE, r[2]>>, Place(h), d, FALSE)
           u5 == Bus(z, Off, 0, <<WRITE, r[2]>>, Place(h), <<x, TRUE>>, TRUE)
           u6 == Bus(z, Off, 0, <<WRITE, TRUE>>, Place(h), <<x, TRUE>>, TRUE)
           u7 == Bus(z, Off, 1, <<WRITE, TRUE>>, Place(h), <<x, TRUE>>, FALSE)
           u8 == Bus(z, Off, 0, <<WRITE, TRUE>>, Place(h), <<x, TRUE>>, FALSE)
<1>1. /\ Off \in Held /\ Free \in Data /\ 0 \in {0, 1} /\ 1 \in {0, 1} /\ FALSE \in BOOLEAN
      /\ TRUE \in BOOLEAN /\ Off[1] = 0 /\ Off[2] = 0 /\ ~Free[2] /\ <<WRITE, r[2]>> \in Ways
      /\ <<WRITE, TRUE>> \in Ways /\ Place(h) \in Places /\ <<x, TRUE>> \in Data /\ Place(h)[3]
      /\ Place(h)[1] * Page + Place(h)[2] = h
  BY Numbers, Halves, MonitorAssumption DEF Free, Held, Ways, Places, Data, READ, WRITE, Off, Place, SRAM
<1>2. Safe(k, g, r, a, d)
  BY <1>1 DEF Safe, Calm, Off, Place, READ, WRITE
<1>3. Run(h, u0, PHI2_low, u1) /\ PHI2_low \in Seq(Writes)
  BY <1>1, <1>2, Lower
<1>4. Safe(k, 0, r, a, d) /\ Calm(k, 0, r)
  BY <1>1, <1>2 DEF Safe, Calm, Off, Place, READ, WRITE
<1>5. Run(h, u1, disconnect_6502_from_bus, u2) /\ disconnect_6502_from_bus \in Seq(Writes)
  BY <1>1, <1>4, Disconnect
<1>6. Safe(Off, 0, r, a, d) /\ Calm(Off, 0, r)
  BY <1>1, <1>4 DEF Safe, Calm, Off, Place, READ, WRITE
<1>7. Run(h, u2, drive_address_bus(h), u3) /\ drive_address_bus(h) \in Seq(Writes)
  BY <1>1, <1>6, AddressOut
<1>8. Safe(Off, 0, r, Place(h), d) /\ Calm(Off, 0, r)
  BY <1>1, <1>6 DEF Safe, Calm, Off, Place, READ, WRITE
<1>9. Run(h, u3, RWB_write, u4) /\ RWB_write \in Seq(Writes)
  BY <1>1, <1>8, WriteRWB
<1>10. Safe(Off, 0, <<WRITE, r[2]>>, Place(h), d) /\ Calm(Off, 0, <<WRITE, r[2]>>)
  BY <1>1, <1>8 DEF Safe, Calm, Off, Place, READ, WRITE
<1>11. Run(h, u4, drive_data_bus(x), u5) /\ drive_data_bus(x) \in Seq(Writes)
  BY <1>1, <1>10, DataOut
<1>12. Safe(Off, 0, <<WRITE, r[2]>>, Place(h), <<x, TRUE>>) /\ Calm(Off, 0, <<WRITE, r[2]>>)
  BY <1>1, <1>10 DEF Safe, Calm, Off, Place, READ, WRITE
<1>13. Run(h, u5, drive_RWB, u6) /\ drive_RWB \in Seq(Writes)
  BY <1>1, <1>12, DrivenForByte
<1>14. Safe(Off, 0, <<WRITE, TRUE>>, Place(h), <<x, TRUE>>) /\ Calm(Off, 0, <<WRITE, TRUE>>)
  BY <1>1, <1>12 DEF Safe, Calm, Off, Place, READ, WRITE
<1>15. Run(h, u6, PHI2_high, u7) /\ PHI2_high \in Seq(Writes)
  BY <1>1, <1>14, Store
<1>16. Safe(Off, 1, <<WRITE, TRUE>>, Place(h), <<x, TRUE>>)
  BY <1>1, <1>14 DEF Safe, Calm, Off, Place, READ, WRITE
<1>17. Run(h, u7, PHI2_low, u8) /\ PHI2_low \in Seq(Writes)
  BY <1>1, <1>16, Lower
<1> DEFINE t2 == PHI2_low \o disconnect_6502_from_bus
           t3 == t2 \o drive_address_bus(h)
           t4 == t3 \o RWB_write
           t5 == t4 \o drive_data_bus(x)
           t6 == t5 \o drive_RWB
           t7 == t6 \o PHI2_high
           t8 == t7 \o PHI2_low
<1> HIDE DEF u0, u1, u2, u3, u4, u5, u6, u7, u8, t2, t3, t4, t5, t6, t7, t8
<1>18. Run(h, u0, t2, u2) /\ t2 \in Seq(Writes)
  BY <1>3, <1>5, RunThen DEF t2
<1>19. Run(h, u0, t3, u3) /\ t3 \in Seq(Writes)
  BY <1>18, <1>7, RunThen DEF t3
<1>20. Run(h, u0, t4, u4) /\ t4 \in Seq(Writes)
  BY <1>19, <1>9, RunThen DEF t4
<1>21. Run(h, u0, t5, u5) /\ t5 \in Seq(Writes)
  BY <1>20, <1>11, RunThen DEF t5
<1>22. Run(h, u0, t6, u6) /\ t6 \in Seq(Writes)
  BY <1>21, <1>13, RunThen DEF t6
<1>23. Run(h, u0, t7, u7) /\ t7 \in Seq(Writes)
  BY <1>22, <1>15, RunThen DEF t7
<1>24. Run(h, u0, t8, u8) /\ t8 \in Seq(Writes)
  BY <1>23, <1>17, RunThen DEF t8
<1> QED  BY <1>24 DEF u0, u8, t2, t3, t4, t5, t6, t7, t8, write_to_address

\* The beginning of a download holds the bus and addresses the reset vector.
LEMMA BeginsReading ==
    ASSUME NEW h, NEW z \in {0, 1}, NEW k \in Held, NEW g \in {0, 1}, NEW r \in Ways,
           NEW a \in Places, NEW d \in Data,
           Safe(k, g, r, a, d)
    PROVE  /\ Run(h, Bus(z, k, g, r, a, d, FALSE), begin_read_from_RAM,
                  Bus(z, Off, 1, <<READ, TRUE>>, Place(VECTOR), Free, FALSE))
           /\ begin_read_from_RAM \in Seq(Writes)
<1> DEFINE u0 == Bus(z, k, g, r, a, d, FALSE)
           u1 == Bus(z, k, 0, r, a, d, FALSE)
           u2 == Bus(z, Off, 0, r, a, d, FALSE)
           u3 == Bus(z, Off, 0, r, a, Free, FALSE)
           u4 == Bus(z, Off, 0, <<READ, r[2]>>, a, Free, FALSE)
           u5 == Bus(z, Off, 0, <<READ, TRUE>>, a, Free, FALSE)
           u6 == Bus(z, Off, 0, <<READ, TRUE>>, Place(VECTOR), Free, FALSE)
           u7 == Bus(z, Off, 1, <<READ, TRUE>>, Place(VECTOR), Free, FALSE)
<1>1. /\ Off \in Held /\ Free \in Data /\ 0 \in {0, 1} /\ 1 \in {0, 1} /\ FALSE \in BOOLEAN
      /\ TRUE \in BOOLEAN /\ Off[1] = 0 /\ Off[2] = 0 /\ ~Free[2] /\ <<READ, r[2]>> \in Ways
      /\ <<READ, TRUE>> \in Ways /\ VECTOR \in Address /\ Place(VECTOR) \in Places
  BY Numbers, Halves, MonitorAssumption DEF Free, Held, Ways, Places, Data, READ, WRITE, Off, Place, SRAM
<1>2. Safe(k, g, r, a, d)
  BY <1>1 DEF Safe, Calm, Off, Place, Free, READ, WRITE
<1>3. Run(h, u0, PHI2_low, u1) /\ PHI2_low \in Seq(Writes)
  BY <1>1, <1>2, Lower
<1>4. Safe(k, 0, r, a, d) /\ Calm(k, 0, r)
  BY <1>1, <1>2 DEF Safe, Calm, Off, Place, Free, READ, WRITE
<1>5. Run(h, u1, disconnect_6502_from_bus, u2) /\ disconnect_6502_from_bus \in Seq(Writes)
  BY <1>1, <1>4, Disconnect
<1>6. Safe(Off, 0, r, a, d) /\ Calm(Off, 0, r)
  BY <1>1, <1>4 DEF Safe, Calm, Off, Place, Free, READ, WRITE
<1>7. Run(h, u2, release_data_bus, u3) /\ release_data_bus \in Seq(Writes)
  BY <1>1, <1>6, DataGone
<1>8. Safe(Off, 0, r, a, Free) /\ Calm(Off, 0, r)
  BY <1>1, <1>6 DEF Safe, Calm, Off, Place, Free, READ, WRITE
<1>9. Run(h, u3, RWB_read, u4) /\ RWB_read \in Seq(Writes)
  BY <1>1, <1>8, ReadRWB, ZenonT(60)
<1>10. Safe(Off, 0, <<READ, r[2]>>, a, Free) /\ Calm(Off, 0, <<READ, r[2]>>)
  BY <1>1, <1>8 DEF Safe, Calm, Off, Place, Free, READ, WRITE
<1>11. Run(h, u4, drive_RWB, u5) /\ drive_RWB \in Seq(Writes)
  BY <1>1, <1>10, DrivenRWB
<1>12. Safe(Off, 0, <<READ, TRUE>>, a, Free) /\ Calm(Off, 0, <<READ, TRUE>>)
  BY <1>1, <1>10 DEF Safe, Calm, Off, Place, Free, READ, WRITE
<1>13. Run(h, u5, drive_address_bus(VECTOR), u6) /\ drive_address_bus(VECTOR) \in Seq(Writes)
  BY <1>1, <1>12, AddressOut
<1>14. Safe(Off, 0, <<READ, TRUE>>, Place(VECTOR), Free) /\ Calm(Off, 0, <<READ, TRUE>>)
  BY <1>1, <1>12 DEF Safe, Calm, Off, Place, Free, READ, WRITE
<1>15. Run(h, u6, PHI2_high, u7) /\ PHI2_high \in Seq(Writes)
  BY <1>1, <1>14, Raise
<1> DEFINE t2 == PHI2_low \o disconnect_6502_from_bus
           t3 == t2 \o release_data_bus
           t4 == t3 \o RWB_read
           t5 == t4 \o drive_RWB
           t6 == t5 \o drive_address_bus(VECTOR)
           t7 == t6 \o PHI2_high
<1> HIDE DEF u0, u1, u2, u3, u4, u5, u6, u7, t2, t3, t4, t5, t6, t7
<1>16. Run(h, u0, t2, u2) /\ t2 \in Seq(Writes)
  BY <1>3, <1>5, RunThen DEF t2
<1>17. Run(h, u0, t3, u3) /\ t3 \in Seq(Writes)
  BY <1>16, <1>7, RunThen DEF t3
<1>18. Run(h, u0, t4, u4) /\ t4 \in Seq(Writes)
  BY <1>17, <1>9, RunThen DEF t4
<1>19. Run(h, u0, t5, u5) /\ t5 \in Seq(Writes)
  BY <1>18, <1>11, RunThen DEF t5
<1>20. Run(h, u0, t6, u6) /\ t6 \in Seq(Writes)
  BY <1>19, <1>13, RunThen DEF t6
<1>21. Run(h, u0, t7, u7) /\ t7 \in Seq(Writes)
  BY <1>20, <1>15, RunThen DEF t7
<1> QED  BY <1>21 DEF u0, u7, t2, t3, t4, t5, t6, t7, begin_read_from_RAM

\* So does that of an upload.
LEMMA BeginsWriting ==
    ASSUME NEW h, NEW z \in {0, 1}, NEW k \in Held, NEW g \in {0, 1}, NEW r \in Ways,
           NEW a \in Places, NEW d \in Data,
           Safe(k, g, r, a, d), Calm(k, g, r)
    PROVE  /\ Run(h, Bus(z, k, g, r, a, d, FALSE), begin_write_to_RAM,
                  Bus(z, Off, 1, <<READ, TRUE>>, Place(VECTOR), Free, FALSE))
           /\ begin_write_to_RAM \in Seq(Writes)
<1> DEFINE u0 == Bus(z, k, g, r, a, d, FALSE)
           u1 == Bus(z, k, g, r, a, Free, FALSE)
           u2 == Bus(z, k, 0, r, a, Free, FALSE)
           u3 == Bus(z, Off, 0, r, a, Free, FALSE)
           u4 == Bus(z, Off, 0, <<READ, r[2]>>, a, Free, FALSE)
           u5 == Bus(z, Off, 0, <<READ, TRUE>>, a, Free, FALSE)
           u6 == Bus(z, Off, 0, <<READ, TRUE>>, Place(VECTOR), Free, FALSE)
           u7 == Bus(z, Off, 1, <<READ, TRUE>>, Place(VECTOR), Free, FALSE)
<1>1. /\ Off \in Held /\ Free \in Data /\ 0 \in {0, 1} /\ 1 \in {0, 1} /\ FALSE \in BOOLEAN
      /\ TRUE \in BOOLEAN /\ Off[1] = 0 /\ Off[2] = 0 /\ ~Free[2] /\ <<READ, r[2]>> \in Ways
      /\ <<READ, TRUE>> \in Ways /\ VECTOR \in Address /\ Place(VECTOR) \in Places
  BY Numbers, Halves, MonitorAssumption DEF Free, Held, Ways, Places, Data, READ, WRITE, Off, Place, SRAM
<1>2. Safe(k, g, r, a, d)
  BY <1>1 DEF Safe, Calm, Off, Place, Free, READ, WRITE
<1>3. Run(h, u0, release_data_bus, u1) /\ release_data_bus \in Seq(Writes)
  BY <1>1, <1>2, DataGone
<1>4. Safe(k, g, r, a, Free) /\ Calm(k, g, r)
  BY <1>1, <1>2 DEF Safe, Calm, Off, Place, Free, READ, WRITE
<1>5. Run(h, u1, PHI2_low, u2) /\ PHI2_low \in Seq(Writes)
  BY <1>1, <1>4, Lower
<1>6. Safe(k, 0, r, a, Free) /\ Calm(k, 0, r)
  BY <1>1, <1>4 DEF Safe, Calm, Off, Place, Free, READ, WRITE
<1>7. Run(h, u2, disconnect_6502_from_bus, u3) /\ disconnect_6502_from_bus \in Seq(Writes)
  BY <1>1, <1>6, Disconnect
<1>8. Safe(Off, 0, r, a, Free) /\ Calm(Off, 0, r)
  BY <1>1, <1>6 DEF Safe, Calm, Off, Place, Free, READ, WRITE
<1>9. Run(h, u3, RWB_read, u4) /\ RWB_read \in Seq(Writes)
  BY <1>1, <1>8, ReadRWB, ZenonT(60)
<1>10. Safe(Off, 0, <<READ, r[2]>>, a, Free) /\ Calm(Off, 0, <<READ, r[2]>>)
  BY <1>1, <1>8 DEF Safe, Calm, Off, Place, Free, READ, WRITE
<1>11. Run(h, u4, drive_RWB, u5) /\ drive_RWB \in Seq(Writes)
  BY <1>1, <1>10, DrivenRWB
<1>12. Safe(Off, 0, <<READ, TRUE>>, a, Free) /\ Calm(Off, 0, <<READ, TRUE>>)
  BY <1>1, <1>10 DEF Safe, Calm, Off, Place, Free, READ, WRITE
<1>13. Run(h, u5, drive_address_bus(VECTOR), u6) /\ drive_address_bus(VECTOR) \in Seq(Writes)
  BY <1>1, <1>12, AddressOut
<1>14. Safe(Off, 0, <<READ, TRUE>>, Place(VECTOR), Free) /\ Calm(Off, 0, <<READ, TRUE>>)
  BY <1>1, <1>12 DEF Safe, Calm, Off, Place, Free, READ, WRITE
<1>15. Run(h, u6, PHI2_high, u7) /\ PHI2_high \in Seq(Writes)
  BY <1>1, <1>14, Raise
<1> DEFINE t2 == release_data_bus \o PHI2_low
           t3 == t2 \o disconnect_6502_from_bus
           t4 == t3 \o RWB_read
           t5 == t4 \o drive_RWB
           t6 == t5 \o drive_address_bus(VECTOR)
           t7 == t6 \o PHI2_high
<1> HIDE DEF u0, u1, u2, u3, u4, u5, u6, u7, t2, t3, t4, t5, t6, t7
<1>16. Run(h, u0, t2, u2) /\ t2 \in Seq(Writes)
  BY <1>3, <1>5, RunThen DEF t2
<1>17. Run(h, u0, t3, u3) /\ t3 \in Seq(Writes)
  BY <1>16, <1>7, RunThen DEF t3
<1>18. Run(h, u0, t4, u4) /\ t4 \in Seq(Writes)
  BY <1>17, <1>9, RunThen DEF t4
<1>19. Run(h, u0, t5, u5) /\ t5 \in Seq(Writes)
  BY <1>18, <1>11, RunThen DEF t5
<1>20. Run(h, u0, t6, u6) /\ t6 \in Seq(Writes)
  BY <1>19, <1>13, RunThen DEF t6
<1>21. Run(h, u0, t7, u7) /\ t7 \in Seq(Writes)
  BY <1>20, <1>15, RunThen DEF t7
<1> QED  BY <1>21 DEF u0, u7, t2, t3, t4, t5, t6, t7, begin_write_to_RAM

\* A byte of an upload, stored while PHI2 is high.
LEMMA Uploads ==
    ASSUME NEW h \in Address, NEW x \in Byte, NEW z \in {0, 1}, NEW k \in Held, NEW g \in {0, 1}, NEW r \in Ways,
           NEW a \in Places, NEW d \in Data,
           k = Off, r[2], Safe(k, g, r, a, d), d[2] => r[1] = WRITE
    PROVE  /\ Run(h, Bus(z, k, g, r, a, d, FALSE), upload_byte(h, x),
                  Bus(z, Off, 1, <<WRITE, TRUE>>, Place(h), <<x, TRUE>>, FALSE))
           /\ upload_byte(h, x) \in Seq(Writes)
<1> DEFINE u0 == Bus(z, k, g, r, a, d, FALSE)
           u1 == Bus(z, k, 0, r, a, d, FALSE)
           u2 == Bus(z, k, 0, r, Place(h), d, FALSE)
           u3 == Bus(z, Off, 0, <<WRITE, TRUE>>, Place(h), d, FALSE)
           u4 == Bus(z, Off, 0, <<WRITE, TRUE>>, Place(h), <<x, TRUE>>, TRUE)
           u5 == Bus(z, Off, 1, <<WRITE, TRUE>>, Place(h), <<x, TRUE>>, FALSE)
<1>1. /\ Off \in Held /\ Free \in Data /\ 0 \in {0, 1} /\ 1 \in {0, 1} /\ FALSE \in BOOLEAN
      /\ TRUE \in BOOLEAN /\ Off[1] = 0 /\ Off[2] = 0 /\ ~Free[2]
      /\ <<WRITE, TRUE>> = <<WRITE, r[2]>> /\ <<WRITE, TRUE>> \in Ways /\ Place(h) \in Places
      /\ <<x, TRUE>> \in Data
  BY Numbers, Halves, MonitorAssumption DEF Free, Held, Ways, Places, Data, READ, WRITE, Off, Place
<1>2. Safe(k, g, r, a, d)
  BY <1>1 DEF Safe, Calm, Off, Place, READ, WRITE
<1>3. Run(h, u0, PHI2_low, u1) /\ PHI2_low \in Seq(Writes)
  BY <1>1, <1>2, Lower
<1>4. Safe(k, 0, r, a, d) /\ Calm(k, 0, r)
  BY <1>1, <1>2 DEF Safe, Calm, Off, Place, READ, WRITE
<1>5. Run(h, u1, drive_address_bus(h), u2) /\ drive_address_bus(h) \in Seq(Writes)
  BY <1>1, <1>4, AddressOut
<1>6. Safe(k, 0, r, Place(h), d) /\ Calm(k, 0, r)
  BY <1>1, <1>4 DEF Safe, Calm, Off, Place, READ, WRITE
<1>7. Run(h, u2, RWB_write, u3) /\ RWB_write \in Seq(Writes)
  BY <1>1, <1>6, WriteRWB
<1>8. Safe(Off, 0, <<WRITE, TRUE>>, Place(h), d) /\ Calm(Off, 0, <<WRITE, TRUE>>)
  BY <1>1, <1>6 DEF Safe, Calm, Off, Place, READ, WRITE
<1>9. Run(h, u3, drive_data_bus(x), u4) /\ drive_data_bus(x) \in Seq(Writes)
  BY <1>1, <1>8, DataOut
<1>10. Safe(Off, 0, <<WRITE, TRUE>>, Place(h), <<x, TRUE>>) /\ Calm(Off, 0, <<WRITE, TRUE>>)
  BY <1>1, <1>8 DEF Safe, Calm, Off, Place, READ, WRITE
<1>11. Run(h, u4, PHI2_high, u5) /\ PHI2_high \in Seq(Writes)
  BY <1>1, <1>10, Store
<1> DEFINE t2 == PHI2_low \o drive_address_bus(h)
           t3 == t2 \o RWB_write
           t4 == t3 \o drive_data_bus(x)
           t5 == t4 \o PHI2_high
<1> HIDE DEF u0, u1, u2, u3, u4, u5, t2, t3, t4, t5
<1>12. Run(h, u0, t2, u2) /\ t2 \in Seq(Writes)
  BY <1>3, <1>5, RunThen DEF t2
<1>13. Run(h, u0, t3, u3) /\ t3 \in Seq(Writes)
  BY <1>12, <1>7, RunThen DEF t3
<1>14. Run(h, u0, t4, u4) /\ t4 \in Seq(Writes)
  BY <1>13, <1>9, RunThen DEF t4
<1>15. Run(h, u0, t5, u5) /\ t5 \in Seq(Writes)
  BY <1>14, <1>11, RunThen DEF t5
<1> QED  BY <1>15 DEF u0, u5, t2, t3, t4, t5, upload_byte

\* A byte of a download.
LEMMA Downloads ==
    ASSUME NEW h \in Address, NEW z \in {0, 1}, NEW k \in Held, NEW g \in {0, 1}, NEW r \in Ways,
           NEW a \in Places, NEW d \in Data,
           k = Off, g = 1, r = <<READ, TRUE>>, ~d[2], Safe(k, g, r, a, d)
    PROVE  /\ Run(h, Bus(z, k, g, r, a, d, FALSE), download_byte(h),
                  Bus(z, k, g, r, Place(h), d, FALSE))
           /\ download_byte(h) \in Seq(Writes)
<1> DEFINE u0 == Bus(z, k, g, r, a, d, FALSE)
           u1 == Bus(z, k, g, r, Place(h), d, FALSE)
           u2 == Bus(z, k, g, r, Place(h), d, FALSE)
<1>1. /\ Off \in Held /\ Free \in Data /\ 0 \in {0, 1} /\ 1 \in {0, 1} /\ FALSE \in BOOLEAN
      /\ TRUE \in BOOLEAN /\ Off[1] = 0 /\ Off[2] = 0 /\ ~Free[2] /\ Place(h) \in Places
      /\ Calm(k, g, r)
  BY Numbers, Halves, MonitorAssumption DEF Free, Held, Ways, Places, Data, READ, WRITE, Off, Place, Calm
<1>2. Safe(k, g, r, a, d)
  BY <1>1 DEF Safe, Calm, Off, Place, READ, WRITE
<1>3. Run(h, u0, drive_address_bus(h), u1) /\ drive_address_bus(h) \in Seq(Writes)
  BY <1>1, <1>2, AddressOut
<1>4. Safe(k, g, r, Place(h), d) /\ Calm(k, g, r)
  BY <1>1, <1>2 DEF Safe, Calm, Off, Place, READ, WRITE
<1>5. Run(h, u1, Take, u2) /\ Take \in Seq(Writes)
  BY <1>1, <1>4, TakeThere
<1> DEFINE t2 == drive_address_bus(h) \o Take
<1> HIDE DEF u0, u1, u2, t2
<1>6. Run(h, u0, t2, u2) /\ t2 \in Seq(Writes)
  BY <1>3, <1>5, RunThen DEF t2
<1> QED  BY <1>6 DEF u0, u2, t2, download_byte

\* The bus is given back.
LEMMA Releases ==
    ASSUME NEW h, NEW z \in {0, 1}, NEW k \in Held, NEW g \in {0, 1}, NEW r \in Ways,
           NEW a \in Places, NEW d \in Data,
           Safe(k, g, r, a, d)
    PROVE  /\ Run(h, Bus(z, k, g, r, a, d, FALSE), release_buses,
                  Bus(z, <<1, 1>>, 0, <<r[1], FALSE>>, Away, Free, FALSE))
           /\ release_buses \in Seq(Writes)
<1> DEFINE u0 == Bus(z, k, g, r, a, d, FALSE)
           u1 == Bus(z, k, 0, r, a, d, FALSE)
           u2 == Bus(z, k, 0, r, a, Free, FALSE)
           u3 == Bus(z, k, 0, <<r[1], FALSE>>, a, Free, FALSE)
           u4 == Bus(z, k, 0, <<r[1], FALSE>>, Away, Free, FALSE)
           u5 == Bus(z, <<1, 1>>, 0, <<r[1], FALSE>>, Away, Free, FALSE)
<1>1. /\ Off \in Held /\ Free \in Data /\ 0 \in {0, 1} /\ 1 \in {0, 1} /\ FALSE \in BOOLEAN
      /\ TRUE \in BOOLEAN /\ Off[1] = 0 /\ Off[2] = 0 /\ ~Free[2] /\ <<r[1], FALSE>> \in Ways
      /\ Away \in Places /\ <<1, 1>> \in Held /\ ~Away[3]
  BY Numbers, Halves, MonitorAssumption DEF Free, Away, Held, Ways, Places, Data, READ, WRITE, Off
<1>2. Safe(k, g, r, a, d)
  BY <1>1 DEF Safe, Calm, Free, Away, READ, WRITE
<1>3. Run(h, u0, PHI2_low, u1) /\ PHI2_low \in Seq(Writes)
  BY <1>1, <1>2, Lower
<1>4. Safe(k, 0, r, a, d) /\ Calm(k, 0, r)
  BY <1>1, <1>2 DEF Safe, Calm, Free, Away, READ, WRITE
<1>5. Run(h, u1, release_data_bus, u2) /\ release_data_bus \in Seq(Writes)
  BY <1>1, <1>4, DataGone
<1>6. Safe(k, 0, r, a, Free) /\ Calm(k, 0, r)
  BY <1>1, <1>4 DEF Safe, Calm, Free, Away, READ, WRITE
<1>7. Run(h, u2, release_RWB, u3) /\ release_RWB \in Seq(Writes)
  BY <1>1, <1>6, ReleasedRWB
<1>8. Safe(k, 0, <<r[1], FALSE>>, a, Free) /\ Calm(k, 0, <<r[1], FALSE>>)
  BY <1>1, <1>6 DEF Safe, Calm, Free, Away, READ, WRITE
<1>9. Run(h, u3, release_address_bus, u4) /\ release_address_bus \in Seq(Writes)
  BY <1>1, <1>8, AddressGone
<1>10. Safe(k, 0, <<r[1], FALSE>>, Away, Free) /\ Calm(k, 0, <<r[1], FALSE>>)
  BY <1>1, <1>8 DEF Safe, Calm, Free, Away, READ, WRITE
<1>11. Run(h, u4, reconnect_6502_to_bus, u5) /\ reconnect_6502_to_bus \in Seq(Writes)
  BY <1>1, <1>10, Reconnect
<1> DEFINE t2 == PHI2_low \o release_data_bus
           t3 == t2 \o release_RWB
           t4 == t3 \o release_address_bus
           t5 == t4 \o reconnect_6502_to_bus
<1> HIDE DEF u0, u1, u2, u3, u4, u5, t2, t3, t4, t5
<1>12. Run(h, u0, t2, u2) /\ t2 \in Seq(Writes)
  BY <1>3, <1>5, RunThen DEF t2
<1>13. Run(h, u0, t3, u3) /\ t3 \in Seq(Writes)
  BY <1>12, <1>7, RunThen DEF t3
<1>14. Run(h, u0, t4, u4) /\ t4 \in Seq(Writes)
  BY <1>13, <1>9, RunThen DEF t4
<1>15. Run(h, u0, t5, u5) /\ t5 \in Seq(Writes)
  BY <1>14, <1>11, RunThen DEF t5
<1> QED  BY <1>15 DEF u0, u5, t2, t3, t4, t5, release_buses

--------------------------------------------------------------------------------
(* The invariant: what is left of the script is fine, and leads to pins that the *)
(* loop can go on from.                                                          *)

\* What the loop relies on between two scripts: the bus is held in a loop over addresses,
\* the AVR writes only between two bytes of an upload, and where it drives data it drives
\* RWB as well, as it does in the loops that write.  At rest and off the bus, RWB reads.
Fit(m, k, g, r, a, d) ==
    /\ Safe(k, g, r, a, d)
    /\ d[2] => r[2] /\ r[1] = WRITE
    /\ Calm(k, g, r) \/ m = "upload"
    /\ m = "idle" /\ k[1] = 0 /\ ~a[3] => r[1] = READ /\ ~r[2]
    /\ m # "idle" => k[2] = 0
    /\ m \in {"fill", "test", "upload", "download"} => r[2]
    /\ m = "download" => r[1] = READ /\ g = 1

Ready(m, u) ==
    \E z \in {0, 1}, k \in Held, g \in {0, 1}, r \in Ways, a \in Places, d \in Data :
       u = Bus(z, k, g, r, a, d, FALSE) /\ Fit(m, k, g, r, a, d)

\* The script s about address h takes u to a state that m can go on from.
Leads(h, u, s, m) == s \in Seq(Writes) /\ \E v : Run(h, u, s, v) /\ Ready(m, v)

Modes == {"idle", "fill", "test", "verify", "dump", "download", "upload"}

TypeInv ==
    /\ pin \in Pins /\ script \in Seq(Writes) /\ mode \in Modes /\ head \in Address
    /\ latched_address \in Latchable /\ iphi2 \in {0, 1} /\ cpu \in Cycle
    /\ sram \in [SRAM -> Byte] /\ meant \in [SRAM -> Byte]

\* Memory is as it was meant, but for the byte that is on the data bus.
Memory(dirty) ==
    IF dirty THEN /\ pin.BE = 0
                  /\ \A a \in SRAM \ {head} : sram[a] = meant[a]
                  /\ head \in SRAM => meant[head] = pin.PORTC
    ELSE sram = meant

\* Every write that is left of the script is fine when its turn comes.
Inv ==
    /\ TypeInv
    /\ Sound(pin)
    /\ \E dirty \in BOOLEAN :
          Memory(dirty) /\ Leads(head, [pin |-> pin, dirty |-> dirty], script, mode)

\* What the test writes is a byte.
LEMMA Expected == ASSUME NEW x \in Address PROVE expected(x) \in Byte
<1>1. low(x) \in Nat /\ high(x) \in Nat
  BY Halves
<1>2. \A n \in Nat : n % Values \in Byte
  BY MonitorAssumption DEF Byte
<1> QED  BY <1>1, <1>2 DEF expected

\* The write of a byte, from any mode.
LEMMA Rewrites ==
    ASSUME NEW m \in {"idle", "fill", "test"}, NEW u, Ready(m, u), NEW h \in Address, NEW x \in Byte,
           h \in SRAM \/ m # "idle"
    PROVE  Leads(h, u, write_to_address(h, x), m)
<1>1. PICK z \in {0, 1}, k \in Held, g \in {0, 1}, r \in Ways, a \in Places, d \in Data :
         u = Bus(z, k, g, r, a, d, FALSE) /\ Fit(m, k, g, r, a, d)
  BY DEF Ready
<1>2. Safe(k, g, r, a, d) /\ (d[2] => r[2] /\ r[1] = WRITE) /\ (r[2] \/ h \in SRAM)
  BY <1>1 DEF Fit
<1>3. g = 0 \/ r[1] = READ \/ k[2] = 0
  BY <1>1 DEF Fit, Safe, Held, Ways, READ, WRITE
<1> DEFINE v == Bus(z, Off, 0, <<WRITE, TRUE>>, Place(h), <<x, TRUE>>, FALSE)
<1>4. Run(h, u, write_to_address(h, x), v) /\ write_to_address(h, x) \in Seq(Writes)
  BY <1>1, <1>2, <1>3, WritesCell, ZenonT(60)
<1>5. Off \in Held /\ <<WRITE, TRUE>> \in Ways /\ Place(h) \in Places /\ <<x, TRUE>> \in Data
  BY Halves DEF Off, Held, Ways, Place, Places, Data, WRITE
<1>6. Fit(m, Off, 0, <<WRITE, TRUE>>, Place(h), <<x, TRUE>>)
  BY DEF Fit, Safe, Calm, Off, Place
<1>7. Ready(m, v)
  BY <1>5, <1>6 DEF Ready
<1> QED  BY <1>4, <1>7 DEF Leads

\* What the groups of such a state have in common.
LEMMA Common ==
    ASSUME NEW m, NEW k \in Held, NEW g \in {0, 1}, NEW r \in Ways,
           NEW a \in Places, NEW d \in Data,
           Fit(m, k, g, r, a, d)
    PROVE  /\ Safe(k, g, r, a, d)
           /\ m # "idle" => k = Off
           /\ m # "upload" => Calm(k, g, r)
           /\ m = "idle" => g = 0 \/ r[1] = READ
<1>1. m # "idle" => k = Off
  BY DEF Fit, Safe, Held, Off
<1>2. m = "idle" => g = 0 \/ r[1] = READ
  BY DEF Fit, Safe, Calm, Held, Ways, READ, WRITE
<1> QED  BY <1>1, <1>2 DEF Fit

\* A round of a loop.
LEMMA Rounds ==
    ASSUME NEW m \in Modes \ {"idle"}, NEW u, Ready(m, u), NEW h \in Address, NEW s \in Round(m, h)
    PROVE  Leads(h, u, s, m)
<1>1. PICK z \in {0, 1}, k \in Held, g \in {0, 1}, r \in Ways, a \in Places, d \in Data :
         u = Bus(z, k, g, r, a, d, FALSE) /\ Fit(m, k, g, r, a, d)
  BY DEF Ready
<1>safe. /\ Safe(k, g, r, a, d)
         /\ k = Off
         /\ (m # "upload" => Calm(k, g, r))
  BY <1>1, Common
<1>2. /\ Off \in Held /\ <<READ, TRUE>> \in Ways /\ <<WRITE, TRUE>> \in Ways /\ Place(h) \in Places
      /\ Free \in Data /\ 0 \in {0, 1} /\ 1 \in {0, 1}
  BY Halves, Numbers DEF Off, Held, Ways, Place, Places, Data, Free, READ, WRITE
<1>3. CASE m \in {"fill", "test"}
  <2>1. s = write_to_address(h, NOP) \/ s = write_to_address(h, expected(h))
    BY <1>3 DEF Round
  <2>2. NOP \in Byte /\ expected(h) \in Byte
    BY Expected, MonitorAssumption
  <2> QED  BY <1>3, <2>1, <2>2, Rewrites
<1>4. CASE m \in {"verify", "dump"}
  <2>1. s = read_from_address(h)
    BY <1>4 DEF Round
  <2> DEFINE v == Bus(z, Off, 0, <<READ, TRUE>>, Place(h), Free, FALSE)
  <2>2. Run(h, u, s, v) /\ s \in Seq(Writes)
    BY <1>1, <1>safe, <2>1, ReadsCell
  <2>3. Fit(m, Off, 0, <<READ, TRUE>>, Place(h), Free)
    BY <1>4 DEF Fit, Safe, Calm, Off, Place, Free
  <2> QED  BY <1>2, <2>2, <2>3 DEF Ready, Leads
<1>5. CASE m = "download"
  <2>1. s = download_byte(h)
    BY <1>5 DEF Round
  <2> DEFINE v == Bus(z, k, g, r, Place(h), d, FALSE)
  <2>2. r[1] = READ /\ ~d[2] /\ g = 1 /\ r = <<READ, TRUE>>
    <3>1. r[1] = READ /\ r[2] /\ ~d[2] /\ g = 1
      BY <1>1, <1>safe, <1>5 DEF Fit, READ, WRITE
    <3>2. r = <<r[1], r[2]>> /\ r[2] \in BOOLEAN
      BY <1>1 DEF Ways
    <3> QED  BY <3>1, <3>2
  <2>3. Run(h, u, s, v) /\ s \in Seq(Writes)
    BY <1>1, <1>safe, <2>1, <2>2, Downloads
  <2>4. Fit(m, k, g, r, Place(h), d)
    BY <1>1, <1>safe, <1>5, <2>2 DEF Fit, Safe, Calm, Off
  <2> QED  BY <1>2, <2>3, <2>4, ZenonT(60) DEF Ready, Leads
<1>6. CASE m = "upload"
  <2>1. PICK x \in Byte : s = upload_byte(h, x)
    BY <1>6 DEF Round
  <2> DEFINE v == Bus(z, Off, 1, <<WRITE, TRUE>>, Place(h), <<x, TRUE>>, FALSE)
  <2>2. r[2] /\ (d[2] => r[1] = WRITE)
    BY <1>1, <1>safe, <1>6 DEF Fit
  <2>3. Run(h, u, s, v) /\ s \in Seq(Writes)
    BY <1>1, <1>safe, <2>1, <2>2, Uploads
  <2>4. Fit(m, Off, 1, <<WRITE, TRUE>>, Place(h), <<x, TRUE>>) /\ <<x, TRUE>> \in Data
    BY <1>6 DEF Fit, Safe, Calm, Off, Data
  <2> QED  BY <1>2, <2>3, <2>4 DEF Ready, Leads
<1> QED  BY <1>3, <1>4, <1>5, <1>6 DEF Modes

\* The end of a loop, and 'r'.
LEMMA Ends ==
    ASSUME NEW m \in Modes, NEW u, Ready(m, u), NEW h
    PROVE  Leads(h, u, release_buses, "idle")
<1>1. PICK z \in {0, 1}, k \in Held, g \in {0, 1}, r \in Ways, a \in Places, d \in Data :
         u = Bus(z, k, g, r, a, d, FALSE) /\ Fit(m, k, g, r, a, d)
  BY DEF Ready
<1>safe. Safe(k, g, r, a, d)
  BY <1>1, Common
<1> DEFINE v == Bus(z, <<1, 1>>, 0, <<r[1], FALSE>>, Away, Free, FALSE)
<1>2. Run(h, u, release_buses, v) /\ release_buses \in Seq(Writes)
  BY <1>1, <1>safe, Releases
<1>3. /\ <<1, 1>> \in Held /\ <<r[1], FALSE>> \in Ways /\ Away \in Places /\ Free \in Data
      /\ 0 \in {0, 1}
  BY Numbers DEF Held, Ways, Places, Data, Away, Free
<1>4. Fit("idle", <<1, 1>>, 0, <<r[1], FALSE>>, Away, Free)
  BY DEF Fit, Safe, Calm, Away, Free
<1> QED  BY <1>2, <1>3, <1>4 DEF Ready, Leads

\* The beginning of a loop over memory: the 6502 is taken off the bus.
LEMMA Takes ==
    ASSUME NEW u, Ready("idle", u), NEW h
    PROVE  Leads(h, u, disconnect_6502_from_bus, "dump")
<1>1. PICK z \in {0, 1}, k \in Held, g \in {0, 1}, r \in Ways, a \in Places, d \in Data :
         u = Bus(z, k, g, r, a, d, FALSE) /\ Fit("idle", k, g, r, a, d)
  BY DEF Ready
<1>safe. /\ Safe(k, g, r, a, d)
         /\ g = 0 \/ r[1] = READ
  BY <1>1, Common
<1>2. /\ Run(h, u, disconnect_6502_from_bus, Bus(z, Off, g, r, a, d, FALSE))
      /\ disconnect_6502_from_bus \in Seq(Writes)
  BY <1>1, <1>safe, Disconnect
<1>3. Fit("dump", Off, g, r, a, d) /\ Off \in Held
  BY <1>1, <1>safe DEF Fit, Safe, Calm, Off, Held, READ, WRITE
<1> QED  BY <1>2, <1>3 DEF Ready, Leads

\* A fill or a test begins with that, and with a write at 0.
LEMMA FirstRound ==
    ASSUME NEW u, Ready("idle", u), NEW m \in {"fill", "test"}, NEW x \in Byte, NEW h \in SRAM
    PROVE  Leads(h, u, disconnect_6502_from_bus \o write_to_address(h, x), m)
<1>1. PICK z \in {0, 1}, k \in Held, g \in {0, 1}, r \in Ways, a \in Places, d \in Data :
         u = Bus(z, k, g, r, a, d, FALSE) /\ Fit("idle", k, g, r, a, d)
  BY DEF Ready
<1>safe. /\ Safe(k, g, r, a, d)
         /\ g = 0 \/ r[1] = READ
  BY <1>1, Common
<1> DEFINE v == Bus(z, Off, g, r, a, d, FALSE)
           w == Bus(z, Off, 0, <<WRITE, TRUE>>, Place(h), <<x, TRUE>>, FALSE)
<1>2. Run(h, u, disconnect_6502_from_bus, v) /\ disconnect_6502_from_bus \in Seq(Writes)
  BY <1>1, <1>safe, Disconnect
<1>3. h \in Address
  BY DEF SRAM
<1>4. /\ Off \in Held /\ <<WRITE, TRUE>> \in Ways /\ Place(h) \in Places /\ <<x, TRUE>> \in Data
      /\ Off[2] = 0 /\ 0 \in {0, 1}
  BY <1>3, Halves DEF Off, Held, Ways, Place, Places, Data, WRITE
<1>5. Safe(Off, g, r, a, d) /\ (d[2] => r[2] /\ r[1] = WRITE)
  BY <1>1, <1>safe DEF Fit, Safe, Off
<1>a. (g = 0 \/ r[1] = READ \/ Off[2] = 0) /\ (r[2] \/ h \in SRAM)
  BY <1>4
<1>6. Run(h, v, write_to_address(h, x), w) /\ write_to_address(h, x) \in Seq(Writes)
  BY <1>3, <1>4, <1>5, <1>a, WritesCell, ZenonT(60)
<1>7. Fit(m, Off, 0, <<WRITE, TRUE>>, Place(h), <<x, TRUE>>)
  BY DEF Fit, Safe, Calm, Off, Place
<1>8. Ready(m, w)
  BY <1>4, <1>7 DEF Ready
<1> HIDE DEF v, w
<1>9. Run(h, u, disconnect_6502_from_bus \o write_to_address(h, x), w)
      /\ disconnect_6502_from_bus \o write_to_address(h, x) \in Seq(Writes)
  BY <1>2, <1>6, RunThen
<1> QED  BY <1>8, <1>9 DEF Leads

\* The beginnings of transfers.
LEMMA Transfers ==
    ASSUME NEW u, Ready("idle", u), NEW h
    PROVE  Leads(h, u, begin_read_from_RAM, "download") /\ Leads(h, u, begin_write_to_RAM, "upload")
<1>1. PICK z \in {0, 1}, k \in Held, g \in {0, 1}, r \in Ways, a \in Places, d \in Data :
         u = Bus(z, k, g, r, a, d, FALSE) /\ Fit("idle", k, g, r, a, d)
  BY DEF Ready
<1>safe. /\ Safe(k, g, r, a, d)
         /\ Calm(k, g, r)
  BY <1>1, Common
<1> DEFINE v == Bus(z, Off, 1, <<READ, TRUE>>, Place(VECTOR), Free, FALSE)
<1>2. /\ Run(h, u, begin_read_from_RAM, v) /\ begin_read_from_RAM \in Seq(Writes)
      /\ Run(h, u, begin_write_to_RAM, v) /\ begin_write_to_RAM \in Seq(Writes)
  BY <1>1, <1>safe, BeginsReading, BeginsWriting
<1>3. VECTOR \in Address
  BY MonitorAssumption DEF SRAM
<1>4. /\ Off \in Held /\ <<READ, TRUE>> \in Ways /\ Place(VECTOR) \in Places /\ Free \in Data
      /\ 1 \in {0, 1}
  BY <1>3, Halves, Numbers DEF Off, Held, Ways, Place, Places, Data, Free, READ
<1>5. /\ Fit("download", Off, 1, <<READ, TRUE>>, Place(VECTOR), Free)
      /\ Fit("upload", Off, 1, <<READ, TRUE>>, Place(VECTOR), Free)
  BY DEF Fit, Safe, Calm, Off, Place, Free
<1> QED  BY <1>2, <1>4, <1>5 DEF Ready, Leads

\* 'R' strobes RESB.
LEMMA Strobes ==
    ASSUME NEW u, Ready("idle", u), NEW h
    PROVE  Leads(h, u, << <<"RESB", 0>>, <<"RESB", 1>> >>, "idle")
<1>1. PICK z \in {0, 1}, k \in Held, g \in {0, 1}, r \in Ways, a \in Places, d \in Data :
         u = Bus(z, k, g, r, a, d, FALSE) /\ Fit("idle", k, g, r, a, d)
  BY DEF Ready
<1>safe. /\ Safe(k, g, r, a, d)
         /\ Calm(k, g, r)
  BY <1>1, Common
<1> DEFINE v == <<"RESB", 0>>
           w == <<"RESB", 1>>
           x == Bus(0, k, g, r, a, d, FALSE)
           y == Bus(1, k, g, r, a, d, FALSE)
<1>2. 0 \in {0, 1} /\ 1 \in {0, 1} /\ v \in Writes /\ w \in Writes
  BY DEF Writes
<1>3. Run(h, u, <<v>>, x) /\ Run(h, x, <<w>>, y)
  BY <1>1, <1>safe, <1>2, StrobeRESB
<1>4. Ready("idle", y)
  BY <1>1, <1>2 DEF Ready
<1> HIDE DEF v, w, x, y
<1>5. Run(h, u, <<v, w>>, y) /\ <<v, w>> \in Seq(Writes)
  BY <1>2, <1>3, RunTwo
<1>6. Leads(h, u, <<v, w>>, "idle")
  BY <1>4, <1>5 DEF Leads
<1> QED  BY <1>6 DEF v, w

\* 'B' and 'C', while the 6502 is stopped and the AVR drives no address.
LEMMA Toggles ==
    ASSUME NEW u, Ready("idle", u), NEW h, u.pin.STOP = 0, ~u.pin.driveAddress
    PROVE  /\ Leads(h, u, << <<"BE", 1 - u.pin.BE>> >>, "idle")
           /\ Leads(h, u, << <<"GO", 1 - u.pin.GO>> >>, "idle")
<1>1. PICK z \in {0, 1}, k \in Held, g \in {0, 1}, r \in Ways, a \in Places, d \in Data :
         u = Bus(z, k, g, r, a, d, FALSE) /\ Fit("idle", k, g, r, a, d)
  BY DEF Ready
<1>safe. Safe(k, g, r, a, d)
  BY <1>1, Common
<1>2. k[1] = 0 /\ ~a[3] /\ u.pin.BE = k[2] /\ u.pin.GO = g
  BY <1>1, <1>safe DEF Bus
<1>3. r[1] = READ /\ ~r[2] /\ ~d[2]
  BY <1>1, <1>safe, <1>2 DEF Fit
<1>4. /\ k[2] \in {0, 1} /\ 1 - k[2] \in {0, 1} /\ 1 - g \in {0, 1} /\ <<k[1], 0>> \in Held
      /\ <<k[1], 1>> \in Held
  BY DEF Held
<1>5. ASSUME NEW x \in {0, 1} PROVE Leads(h, u, << <<"GO", x>> >>, "idle")
  <2> DEFINE s == << <<"GO", x>> >>
             v == Bus(z, k, x, r, a, d, FALSE)
  <2>1. Run(h, u, s, v) /\ s \in Seq(Writes)
    <3>1. Run(h, Bus(z, k, g, r, a, d, FALSE), << <<"GO", x>> >>, Bus(z, k, x, r, a, d, FALSE))
          /\ << <<"GO", x>> >> \in Seq(Writes)
      BY <1>safe, <1>2, <1>3, ToggleGO, ZenonT(60)
    <3> QED  BY <1>1, <3>1
  <2>2. Fit("idle", k, x, r, a, d)
    BY <1>1, <1>safe, <1>2, <1>3 DEF Fit, Safe, Calm
  <2>3. Ready("idle", v)
    BY <2>2, ZenonT(60) DEF Ready
  <2> HIDE DEF s, v
  <2>4. Leads(h, u, s, "idle")
    BY <2>1, <2>3 DEF Leads
  <2> QED  BY <2>4 DEF s
<1>7. Leads(h, u, << <<"GO", 1 - g>> >>, "idle")
  BY <1>4, <1>5
<1>8. ASSUME NEW x \in {0, 1} PROVE Leads(h, u, << <<"BE", x>> >>, "idle")
  <2> DEFINE s == << <<"BE", x>> >>
             v == Bus(z, <<k[1], x>>, g, r, a, d, FALSE)
  <2>1. Run(h, u, s, v) /\ s \in Seq(Writes)
    <3>1. CASE x = 0
      <4>1. Run(h, Bus(z, k, g, r, a, d, FALSE), << <<"BE", 0>> >>, Bus(z, <<k[1], 0>>, g, r, a, d, FALSE))
            /\ << <<"BE", 0>> >> \in Seq(Writes)
        BY <1>safe, <1>2, <1>3, BELow, ZenonT(60)
      <4> QED  BY <1>1, <3>1, <4>1
    <3>2. CASE x = 1
      <4>1. Run(h, Bus(z, k, g, r, a, d, FALSE), << <<"BE", 1>> >>, Bus(z, <<k[1], 1>>, g, r, a, d, FALSE))
            /\ << <<"BE", 1>> >> \in Seq(Writes)
        BY <1>safe, <1>2, <1>3, BEHigh, ZenonT(60)
      <4> QED  BY <1>1, <3>2, <4>1
    <3> QED  BY <3>1, <3>2
  <2>2. Fit("idle", <<k[1], x>>, g, r, a, d) /\ <<k[1], x>> \in Held
    BY <1>1, <1>safe, <1>2, <1>3 DEF Fit, Safe, Calm, Held
  <2>3. Ready("idle", v)
    BY <2>2, ZenonT(60) DEF Ready
  <2> HIDE DEF s, v
  <2>4. Leads(h, u, s, "idle")
    BY <2>1, <2>3 DEF Leads
  <2> QED  BY <2>4 DEF s
<1>9. Leads(h, u, << <<"BE", 1 - k[2]>> >>, "idle")
  BY <1>4, <1>8
<1> QED  BY <1>2, <1>7, <1>9

--------------------------------------------------------------------------------
(* What the bus makes of the pins.                                              *)

\* While the 6502 has the bus, memory gets what it writes, and nothing else.
LEMMA Connected ==
    ASSUME NEW p \in Pins, NEW c \in Cycle, NEW osc \in {0, 1}, Sound(p), p.BE = 1,
           sram = meant, sram \in [SRAM -> Byte], Capture(p, c, osc, FALSE)
    PROVE  sram' = meant' /\ sram' \in [SRAM -> Byte]
<1>1. ~p.driveAddress /\ ~p.driveRWB /\ ~p.driveData
  BY DEF Sound
<1>2. AddressLines(p, c) = {c.address} /\ RWBLine(p, c) = {c.rwb}
  BY <1>1 DEF AddressLines, RWBLine
<1>3. c.rwb \in {READ, WRITE} /\ c.data \in Byte /\ READ # WRITE
  BY DEF Cycle, READ, WRITE
<1>4. [x \in SRAM |-> IF x = head /\ FALSE THEN p.PORTC ELSE meant[x]] = meant
  OBVIOUS
<1>5. CASE c.rwb = READ
  <2>1. sram' = sram
    BY <1>2, <1>3, <1>5 DEF Capture
  <2>2. meant' = meant
    BY <1>3, <1>4, <1>5 DEF Capture, CpuDrivesData
  <2> QED  BY <2>1, <2>2
<1>6. CASE c.rwb = WRITE
  <2>1. Written(p, c) = {c.data} /\ CpuDrivesData(p, c)
    BY <1>1, <1>6 DEF Written, CpuDrivesData
  <2>2. sram' = IF Phi2(p, osc) = 1 /\ c.address \in SRAM THEN [sram EXCEPT ![c.address] = c.data] ELSE sram
    BY <1>2, <1>6, <2>1 DEF Capture
  <2>3. meant' = IF Phi2(p, osc) = 1 /\ c.address \in SRAM THEN [meant EXCEPT ![c.address] = c.data] ELSE meant
    BY <1>4, <2>1 DEF Capture
  <2> QED  BY <1>3, <2>2, <2>3
<1> QED  BY <1>3, <1>5, <1>6

\* While it has not, memory gets what the AVR writes, and what is meant is what it puts
\* on the data bus.
LEMMA Disconnected ==
    ASSUME NEW p \in Pins, NEW c \in Cycle, NEW osc \in {0, 1}, Sound(p), p.BE = 0,
           sram \in [SRAM -> Byte], meant \in [SRAM -> Byte], NEW commanded \in BOOLEAN,
           Capture(p, c, osc, commanded)
    PROVE  /\ meant' = [x \in SRAM |-> IF x = head /\ commanded THEN p.PORTC ELSE meant[x]]
           /\ meant' \in [SRAM -> Byte] /\ sram' \in [SRAM -> Byte]
           /\ ~Writing(p) => sram' = sram
           /\ Writing(p) /\ p.driveAddress /\ p.driveRWB /\ p.driveData =>
                 sram' = IF At(p) \in SRAM THEN [sram EXCEPT ![At(p)] = p.PORTC] ELSE sram
<1>1. /\ p.STOP = 0 /\ Phi2(p, osc) = p.GO /\ p.GO \in {0, 1} /\ p.PORTC \in Byte
      /\ p.RWB \in {READ, WRITE}
  BY DEF Sound, Phi2, Pins, READ, WRITE
<1>2. ~CpuDrivesData(p, c)
  BY DEF CpuDrivesData
<1>3. meant' = [x \in SRAM |-> IF x = head /\ commanded THEN p.PORTC ELSE meant[x]]
  BY <1>2 DEF Capture
<1>4. meant' \in [SRAM -> Byte]
  BY <1>1, <1>3
<1>5. Written(p, c) \subseteq Byte
  BY <1>1, <1>2 DEF Written
<1>6. sram' \in [SRAM -> Byte]
  <2>1. PICK x \in AddressLines(p, c), w \in RWBLine(p, c), b \in Written(p, c) :
          sram' = IF Phi2(p, osc) = 1 /\ w = WRITE /\ x \in SRAM THEN [sram EXCEPT ![x] = b] ELSE sram
    BY DEF Capture
  <2> QED  BY <1>5, <2>1
<1>7. ASSUME ~Writing(p) PROVE sram' = sram
  <2>1. CASE p.GO = 0
    BY <1>1, <2>1 DEF Capture
  <2>2. CASE p.RWB = READ
    <3>1. RWBLine(p, c) = {READ}
      BY <2>2 DEF RWBLine, READ
    <3> QED  BY <3>1 DEF Capture, READ, WRITE
  <2> QED  BY <1>1, <1>7, <2>1, <2>2 DEF Writing, READ, WRITE
<1>8. ASSUME Writing(p), p.driveAddress, p.driveRWB, p.driveData
      PROVE  sram' = IF At(p) \in SRAM THEN [sram EXCEPT ![At(p)] = p.PORTC] ELSE sram
  <2>1. AddressLines(p, c) = {At(p)} /\ RWBLine(p, c) = {WRITE} /\ Written(p, c) = {p.PORTC}
    BY <1>8 DEF AddressLines, RWBLine, Written, Writing, At
  <2>2. Phi2(p, osc) = 1
    BY <1>1, <1>8 DEF Writing
  <2> QED  BY <2>1, <2>2 DEF Capture
<1> QED  BY <1>3, <1>4, <1>6, <1>7, <1>8

--------------------------------------------------------------------------------
(* Steps                                                                        *)

\* At the end of a script the loop can go on, and memory is as it was meant.
LEMMA Finished ==
    ASSUME Inv, script = <<>>
    PROVE  Ready(mode, [pin |-> pin, dirty |-> FALSE]) /\ sram = meant
<1>1. PICK dirty \in BOOLEAN :
         Memory(dirty) /\ \E v : Run(head, [pin |-> pin, dirty |-> dirty], <<>>, v) /\ Ready(mode, v)
  BY DEF Inv, Leads
<1>2. Ready(mode, [pin |-> pin, dirty |-> dirty])
  BY <1>1, RunEnd
<1>3. ~dirty
  <2>1. PICK z, k, g, r, a, d : [pin |-> pin, dirty |-> dirty] = Bus(z, k, g, r, a, d, FALSE)
    BY <1>2 DEF Ready
  <2>2. [pin |-> pin, dirty |-> dirty].dirty = Bus(z, k, g, r, a, d, FALSE).dirty
    BY <2>1
  <2> QED  BY <2>2 DEF Bus
<1> QED  BY <1>1, <1>2, <1>3 DEF Memory

\* Another script may follow if it leads somewhere.
LEMMA Begun ==
    ASSUME Inv, script = <<>>, UNCHANGED <<pin, iphi2, cpuVars, sram, meant>>,
           mode' \in Modes, head' \in Address, latched_address' \in Latchable,
           Leads(head', [pin |-> pin, dirty |-> FALSE], script', mode')
    PROVE  Inv'
<1>1. TypeInv' /\ Sound(pin)'
  BY DEF Inv, TypeInv, Leads, cpuVars
<1>2. Memory(FALSE)'
  BY Finished DEF Memory
<1> QED  BY <1>1, <1>2 DEF Inv

\* A pin is written.
LEMMA InvPinWrite == ASSUME Inv, PinWrite PROVE Inv'
<1> DEFINE w == Head(script)
<1>0. PICK dirty \in BOOLEAN :
         Memory(dirty) /\ Leads(head, [pin |-> pin, dirty |-> dirty], script, mode)
  BY DEF Inv
<1>1. PICK v :
         Memory(dirty) /\ Run(head, [pin |-> pin, dirty |-> dirty], script, v) /\ Ready(mode, v)
  BY <1>0 DEF Leads
<1> DEFINE u == [pin |-> pin, dirty |-> dirty]
           x == After(u, w)
<1>2. /\ u \in States /\ Fine(head, u, w) /\ x \in States /\ Run(head, x, Tail(script), v)
      /\ w \in Writes /\ Tail(script) \in Seq(Writes)
  BY <1>1, RunHead DEF PinWrite, Inv, TypeInv
<1>3. w[1] # "take" /\ script' = Tail(script) /\ UNCHANGED <<mode, head, latched_address, cpu>>
  BY DEF PinWrite
<1>4. pin' = [pin EXCEPT ![w[1]] = w[2]]
  BY DEF PinWrite
<1>5. PICK e : x = [pin |-> pin', dirty |-> e] /\ x.pin = pin' /\ x.dirty = e
  BY <1>3, <1>4 DEF After
<1>6. e = IF w[1] = "driveData" THEN w[2] ELSE IF w = <<"GO", 1>> THEN FALSE ELSE dirty
  BY <1>3, <1>5 DEF After
<1>7. pin' \in Pins /\ e \in BOOLEAN
  BY <1>2, <1>5 DEF States
<1>8. iphi2' \in {0, 1}
  BY DEF PinWrite, Inv, TypeInv
<1>9. PICK commanded \in BOOLEAN :
         (commanded <=> w[1] = "driveData" /\ pin'.driveData) /\ Capture(pin', cpu, iphi2', commanded)
  <2> DEFINE c == w[1] = "driveData" /\ pin'.driveData
  <2>1. c \in BOOLEAN /\ Capture(pin', cpu, iphi2', c)
    BY DEF PinWrite
  <2> QED  BY <2>1
<1>10. /\ Sound(pin')
       /\ Writing(pin') => w = <<"GO", 1>> /\ dirty /\ At(pin') = head
                           /\ pin'.driveAddress /\ pin'.driveRWB /\ pin'.driveData
       /\ dirty => pin'.BE = 0 /\ w[1] \notin {"PORTC", "driveData"} /\ (w = <<"GO", 1>> => Writing(pin'))
  BY <1>2, <1>3, <1>5 DEF Fine
<1>11. cpu \in Cycle /\ pin \in Pins /\ sram \in [SRAM -> Byte] /\ meant \in [SRAM -> Byte]
  BY DEF Inv, TypeInv
<1>12. w[1] = "driveData" => (pin'.driveData <=> w[2])
  <2>1. w[1] = "driveData" => pin'.driveData = w[2]
    BY <1>4, <1>11 DEF Pins
  <2> QED  BY <2>1
<1>13. w[1] # "PORTC" => pin'.PORTC = pin.PORTC
  BY <1>4, <1>11 DEF Pins
<1> HIDE DEF w, u, x
<1>14. Memory(e)' /\ sram' \in [SRAM -> Byte] /\ meant' \in [SRAM -> Byte]
  <2>1. CASE pin'.BE = 1
    <3>1. ~dirty /\ ~pin'.driveData
      BY <1>10, <2>1 DEF Sound
    <3>2. ~e /\ ~commanded
      BY <1>6, <1>9, <1>12, <3>1
    <3>3. sram = meant
      BY <1>1, <3>1 DEF Memory
    <3>4. Capture(pin', cpu, iphi2', FALSE)
      BY <1>9, <3>2 DEF Capture
    <3>5. sram' = meant' /\ sram' \in [SRAM -> Byte]
      BY <1>7, <1>8, <1>10, <1>11, <2>1, <3>3, <3>4, Connected
    <3> QED  BY <3>2, <3>5 DEF Memory
  <2>2. CASE pin'.BE = 0
    <3>2. /\ meant' = [y \in SRAM |-> IF y = head /\ commanded THEN pin'.PORTC ELSE meant[y]]
          /\ meant' \in [SRAM -> Byte] /\ sram' \in [SRAM -> Byte]
          /\ ~Writing(pin') => sram' = sram
          /\ Writing(pin') /\ pin'.driveAddress /\ pin'.driveRWB /\ pin'.driveData =>
                sram' = IF At(pin') \in SRAM THEN [sram EXCEPT ![At(pin')] = pin'.PORTC] ELSE sram
      BY <1>7, <1>8, <1>9, <1>10, <1>11, <2>2, Disconnected
    <3>3. ~commanded => meant' = meant
      BY <1>11, <3>2
    <3>4. CASE Writing(pin')
      <4>1. dirty /\ w = <<"GO", 1>> /\ At(pin') = head
        BY <1>10, <3>4
      <4>2. ~e /\ ~commanded /\ pin'.PORTC = pin.PORTC
        BY <1>6, <1>9, <1>13, <4>1
      <4>3. sram' = IF head \in SRAM THEN [sram EXCEPT ![head] = pin.PORTC] ELSE sram
        BY <1>10, <3>2, <3>4, <4>1, <4>2
      <4>4. (\A y \in SRAM \ {head} : sram[y] = meant[y]) /\ (head \in SRAM => meant[head] = pin.PORTC)
        BY <1>1, <4>1 DEF Memory
      <4>5. \A y \in SRAM : sram'[y] = meant[y]
        BY <1>11, <4>3, <4>4
      <4>6. sram' = meant'
        BY <1>11, <3>2, <3>3, <4>2, <4>5
      <4> QED  BY <3>2, <4>2, <4>6 DEF Memory
    <3>5. CASE ~Writing(pin') /\ w[1] = "driveData" /\ w[2]
      <4>1. ~dirty /\ commanded /\ e
        BY <1>6, <1>9, <1>10, <1>12, <3>5
      <4>2. sram' = sram /\ sram = meant
        BY <1>1, <3>2, <3>5, <4>1 DEF Memory
      <4>3. \A y \in SRAM \ {head} : sram'[y] = meant'[y]
        BY <3>2, <4>2
      <4>4. head \in SRAM => meant'[head] = pin'.PORTC
        BY <3>2, <4>1
      <4> QED  BY <1>3, <2>2, <3>2, <4>1, <4>3, <4>4 DEF Memory
    <3>6. CASE ~Writing(pin') /\ ~(w[1] = "driveData" /\ w[2])
      <4>1. ~commanded
        BY <1>9, <1>12, <3>6
      <4>2. sram' = sram /\ meant' = meant
        BY <3>2, <3>3, <3>6, <4>1
      <4>3. CASE dirty
        <5>1. e /\ pin'.PORTC = pin.PORTC
          BY <1>6, <1>10, <1>13, <3>6, <4>3
        <5> QED  BY <1>1, <1>3, <2>2, <3>2, <4>2, <4>3, <5>1 DEF Memory
      <4>4. CASE ~dirty
        <5>1. ~e
          BY <1>6, <3>6, <4>4
        <5> QED  BY <1>1, <3>2, <4>2, <4>4, <5>1 DEF Memory
      <4> QED  BY <4>3, <4>4
    <3> QED  BY <3>4, <3>5, <3>6
  <2> QED  BY <1>7, <2>1, <2>2 DEF Pins
<1>15. TypeInv'
  BY <1>2, <1>3, <1>7, <1>8, <1>14 DEF Inv, TypeInv
<1>16. Leads(head, [pin |-> pin', dirty |-> e], script', mode)
  BY <1>1, <1>2, <1>3, <1>5 DEF Leads
<1> QED  BY <1>3, <1>7, <1>10, <1>14, <1>15, <1>16 DEF Inv

\* A byte is taken.
LEMMA InvTakeByte == ASSUME Inv, TakeByte PROVE Inv'
<1> DEFINE w == Head(script)
<1>0. PICK dirty \in BOOLEAN :
         Memory(dirty) /\ Leads(head, [pin |-> pin, dirty |-> dirty], script, mode)
  BY DEF Inv
<1>1. PICK v :
         Memory(dirty) /\ Run(head, [pin |-> pin, dirty |-> dirty], script, v) /\ Ready(mode, v)
  BY <1>0 DEF Leads
<1> DEFINE u == [pin |-> pin, dirty |-> dirty]
<1>2. Run(head, After(u, w), Tail(script), v) /\ Tail(script) \in Seq(Writes)
  BY <1>1, RunHead DEF TakeByte, Inv, TypeInv
<1>3. After(u, w) = u
  BY DEF TakeByte, After
<1>4. /\ script' = Tail(script)
      /\ UNCHANGED <<pin, mode, head, latched_address, iphi2, cpuVars, sram, meant>>
  BY DEF TakeByte
<1>5. TypeInv' /\ Sound(pin)' /\ Memory(dirty)'
  BY <1>1, <1>2, <1>4 DEF Inv, TypeInv, Memory, cpuVars, Sound
<1> HIDE DEF u, w
<1>6. Leads(head', u, script', mode')
  BY <1>1, <1>2, <1>3, <1>4 DEF Leads
<1> QED  BY <1>4, <1>5, <1>6 DEF Inv, u

\* The clock of the FPGA and the 6502.
LEMMA InvClockTick == ASSUME Inv, ClockTick PROVE Inv'
<1>1. PICK dirty \in BOOLEAN :
         Memory(dirty) /\ Leads(head, [pin |-> pin, dirty |-> dirty], script, mode)
  BY DEF Inv
<1>2. pin.BE = 1 /\ Sound(pin) /\ ~dirty /\ sram = meant
  <2>1. pin.STOP = 1 /\ Sound(pin)
    BY DEF ClockTick, Inv
  <2>2. pin.BE = 1
    BY <2>1 DEF Sound
  <2> QED  BY <1>1, <2>1, <2>2 DEF Memory
<1>3. iphi2' \in {0, 1} /\ cpu' \in Cycle
  <2>1. iphi2 \in {0, 1} /\ cpu \in Cycle
    BY DEF Inv, TypeInv
  <2>2. iphi2' = 1 - iphi2 /\ (cpu' \in Cycle \/ cpu' = cpu)
    BY DEF ClockTick, cpuVars
  <2> QED  BY <2>1, <2>2
<1>4. UNCHANGED <<pin, script, mode, head, latched_address>> /\ Capture(pin, cpu', iphi2', FALSE)
  BY DEF ClockTick, avrVars
<1>5. sram' = meant' /\ sram' \in [SRAM -> Byte]
  BY <1>2, <1>3, <1>4, Connected DEF Inv, TypeInv
<1>6. TypeInv' /\ Sound(pin')
  BY <1>2, <1>3, <1>4, <1>5 DEF Inv, TypeInv
<1>7. Memory(FALSE)'
  BY <1>5 DEF Memory
<1>8. Leads(head', [pin |-> pin', dirty |-> FALSE], script', mode')
  BY <1>1, <1>2, <1>4
<1> QED  BY <1>6, <1>7, <1>8 DEF Inv

\* Addresses in 16 bits.
LEMMA InWord == ASSUME NEW x \in Nat, NEW n \in Nat PROVE Plus(x, n) \in Address
<1>1. Word \in Nat \ {0}
  BY MonitorAssumption DEF Word
<1> QED  BY <1>1 DEF Plus, Address

\* A loop goes on or ends.
LEMMA InvLoop == ASSUME Inv, Loop PROVE Inv'
<1> DEFINE u == [pin |-> pin, dirty |-> FALSE]
<1>1. script = <<>> /\ mode \in Modes \ {"idle"} /\ head \in Nat /\ latched_address \in Latchable
  BY DEF Loop, Inv, TypeInv, Address
<1>2. Ready(mode, u)
  BY <1>1, Finished
<1>3. UNCHANGED <<pin, latched_address, iphi2, cpuVars, sram, meant>>
  BY DEF Loop
<1>4. 0 \in Address
  BY MonitorAssumption DEF SRAM
<1> HIDE DEF u
<1>5. CASE mode' = "idle" /\ script' = release_buses /\ head' = 0
  <2>1. Leads(head', u, script', mode')
    BY <1>1, <1>2, <1>5, Ends
  <2> QED  BY <1>1, <1>3, <1>4, <1>5, <2>1, Begun DEF Modes, u
<1>6. CASE script' \in Round(mode, Plus(head, 1)) /\ head' = Plus(head, 1) /\ mode' = mode
  <2>1. head' \in Address
    BY <1>1, <1>6, InWord
  <2>2. Leads(head', u, script', mode')
    BY <1>1, <1>2, <1>6, <2>1, Rounds
  <2> QED  BY <1>1, <1>3, <1>6, <2>1, <2>2, Begun DEF Modes, u
<1>7. CASE mode = "test" /\ mode' = "verify" /\ head' = 0 /\ script' \in Round("verify", 0)
  <2>1. Ready("verify", u)
    <3>1. PICK z \in {0, 1}, k \in Held, g \in {0, 1}, r \in Ways, a \in Places, d \in Data :
             u = Bus(z, k, g, r, a, d, FALSE) /\ Fit("test", k, g, r, a, d)
      BY <1>2, <1>7 DEF Ready
    <3>2. Fit("verify", k, g, r, a, d)
      BY <3>1 DEF Fit
    <3> QED  BY <3>1, <3>2 DEF Ready
  <2>2. Leads(head', u, script', mode')
    BY <1>4, <1>7, <2>1, Rounds DEF Modes
  <2> QED  BY <1>1, <1>3, <1>4, <1>7, <2>2, Begun DEF Modes, u
<1> QED  BY <1>5, <1>6, <1>7 DEF Loop

\* A command begins.
LEMMA InvCommand == ASSUME FreeToggles = {}, Inv, Command PROVE Inv'
<1> DEFINE u == [pin |-> pin, dirty |-> FALSE]
<1>1. /\ mode = "idle" /\ script = <<>> /\ UNCHANGED <<pin, iphi2, cpuVars, sram, meant>>
      /\ latched_address \in Latchable
  BY DEF Command, LatchAddress, WriteLatched, Fill, TestRAM, DumpRAM, Download, Upload, ResetRequest,
         ReleaseBuses, Toggle, Begin, Inv, TypeInv
<1>2. Ready("idle", u)
  BY <1>1, Finished
<1>3. /\ 0 \in SRAM /\ SRAM \subseteq Address /\ Latchable \subseteq SRAM /\ Word \in Nat \ {0}
      /\ MaxTransfer \in Nat
  BY MonitorAssumption DEF SRAM, Word
<1>4. Address \subseteq Nat
  BY DEF Address
<1>5. ASSUME NEW m \in Modes, NEW h \in Address, NEW n, NEW s, Begin(m, h, n, s), latched_address' \in Latchable,
             Leads(h, u, s, m)
      PROVE  Inv'
  BY <1>1, <1>5, Begun DEF Begin
<1>6. \A x \in {"idle", "fill", "test", "dump", "download", "upload"} : x \in Modes
  BY DEF Modes
<1>7. ASSUME NEW x \in Latchable, LatchAddress(x) PROVE Inv'
  <2>1. Leads(0, u, <<>>, "idle")
    <3>1. u \in States
      <4>1. PICK z \in {0, 1}, k \in Held, g \in {0, 1}, r \in Ways, a \in Places, d \in Data :
               u = Bus(z, k, g, r, a, d, FALSE)
        BY <1>2 DEF Ready
      <4>2. Bus(z, k, g, r, a, d, FALSE) \in States
        BY BusStates
      <4> QED  BY <4>1, <4>2
    <3> QED  BY <1>2, <3>1, RunNil DEF Leads
  <2> HIDE DEF u
  <2> QED  BY <1>3, <1>5, <1>6, <1>7, <2>1 DEF LatchAddress
<1> HIDE DEF u
<1>8. ASSUME NEW d \in Byte, WriteLatched(d) PROVE Inv'
  <2>1. Leads(latched_address, u, write_to_address(latched_address, d), "idle")
    BY <1>1, <1>2, <1>3, Rewrites
  <2> QED  BY <1>1, <1>3, <1>5, <1>6, <1>8, <2>1 DEF WriteLatched
<1>9. CASE Fill
  <2>1. Leads(0, u, disconnect_6502_from_bus \o write_to_address(0, NOP), "fill")
    BY <1>2, <1>3, FirstRound, MonitorAssumption
  <2> QED  BY <1>1, <1>3, <1>5, <1>6, <1>9, <2>1 DEF Fill
<1>10. CASE TestRAM
  <2>1. Leads(0, u, disconnect_6502_from_bus \o write_to_address(0, expected(0)), "test")
    BY <1>2, <1>3, FirstRound, Expected
  <2> QED  BY <1>1, <1>3, <1>5, <1>6, <1>10, <2>1 DEF TestRAM
<1>11. ASSUME NEW p \in 0 .. Pages - 1, DumpRAM(p) PROVE Inv'
  <2> DEFINE h == Plus(p * Page, Word - 1)
  <2>1. p * Page \in Nat /\ Word - 1 \in Nat
    <3>1. p \in Nat /\ Page \in Nat
      BY MonitorAssumption
    <3> QED  BY <1>3, <3>1
  <2>2. h \in Address
    BY <2>1, InWord
  <2>3. Leads(h, u, disconnect_6502_from_bus, "dump")
    BY <1>2, Takes
  <2> QED  BY <1>1, <1>5, <1>6, <1>11, <2>2, <2>3 DEF DumpRAM
<1>12. ASSUME NEW x \in Starts, NEW n \in 0 .. MaxTransfer, Download(x, n) \/ Upload(x, n) PROVE Inv'
  <2>1. x \in Nat /\ Word - 1 \in Nat
    BY <1>3, <1>4, MonitorAssumption
  <2>2. Plus(x, Word - 1) \in Address
    BY <2>1, InWord
  <2>3. /\ Leads(Plus(x, Word - 1), u, begin_read_from_RAM, "download")
        /\ Leads(Plus(x, Word - 1), u, begin_write_to_RAM, "upload")
    BY <1>2, Transfers
  <2> QED  BY <1>1, <1>5, <1>6, <1>12, <2>2, <2>3 DEF Download, Upload
<1>13. CASE ResetRequest
  <2>1. Leads(0, u, << <<"RESB", 0>>, <<"RESB", 1>> >>, "idle")
    BY <1>2, Strobes
  <2> QED  BY <1>1, <1>3, <1>5, <1>6, <1>13, <2>1 DEF ResetRequest
<1>14. CASE ReleaseBuses
  <2>1. Leads(0, u, release_buses, "idle")
    BY <1>2, <1>6, Ends
  <2> QED  BY <1>1, <1>3, <1>5, <1>6, <1>14, <2>1 DEF ReleaseBuses
<1>15. ASSUME NEW p \in {"BE", "GO"}, Toggle(p) PROVE Inv'
  <2>1. pin.STOP = 0 /\ ~pin.driveAddress
    BY <1>15 DEF Toggle
  <2>2. Leads(0, u, << <<"BE", 1 - pin.BE>> >>, "idle") /\ Leads(0, u, << <<"GO", 1 - pin.GO>> >>, "idle")
    BY <1>2, <2>1, Toggles DEF u
  <2>3. Leads(0, u, << <<p, 1 - pin[p]>> >>, "idle")
    BY <2>2
  <2>4. Begin("idle", 0, 0, << <<p, 1 - pin[p]>> >>) /\ latched_address' = latched_address
    BY <1>15 DEF Toggle
  <2> QED  BY <1>1, <1>3, <1>5, <1>6, <2>3, <2>4
<1> QED  BY <1>7, <1>8, <1>9, <1>10, <1>11, <1>12, <1>13, <1>14, <1>15 DEF Command

\* It holds at first: nothing drives the bus, PHI2 is high, RWB reads.
LEMMA InvInit == ASSUME Init PROVE Inv
<1> DEFINE k == <<0, 0>>
           r == <<READ, FALSE>>
           a == <<Pages - 1, Page - 1, FALSE>>
           d == <<Values - 1, FALSE>>
<1>1. [pin |-> pin, dirty |-> FALSE] = Bus(0, k, 1, r, a, d, FALSE)
  BY DEF Init, Bus
<1>2. /\ k \in Held /\ r \in Ways /\ a \in Places /\ d \in Data /\ 0 \in {0, 1} /\ 1 \in {0, 1}
      /\ FALSE \in BOOLEAN
  BY Numbers DEF Held, Ways, Places, Data, READ
<1>3. Fit("idle", k, 1, r, a, d) /\ Safe(k, 1, r, a, d)
  BY DEF Fit, Safe, Calm
<1> HIDE DEF k, r, a, d
<1>4. Ready("idle", [pin |-> pin, dirty |-> FALSE])
  BY <1>1, <1>2, <1>3 DEF Ready
<1>5. [pin |-> pin, dirty |-> FALSE] \in States
  <2>1. Bus(0, k, 1, r, a, d, FALSE) \in States
    BY <1>2, BusStates
  <2> QED  BY <1>1, <2>1
<1>6. pin \in Pins
  <2>1. [pin |-> pin, dirty |-> FALSE].pin \in Pins
    BY <1>5 DEF States
  <2> QED  BY <2>1
<1>7. Leads(head, [pin |-> pin, dirty |-> FALSE], script, mode)
  BY <1>4, <1>5, RunNil DEF Leads, Init
<1>8. Sound(pin)
  BY DEF Init, Sound
<1>9. TypeInv
  <2>1. 0 \in Byte /\ 0 \in Address /\ 0 \in Latchable
    BY MonitorAssumption DEF Byte, SRAM
  <2>2. sram \in [SRAM -> Byte] /\ meant \in [SRAM -> Byte]
    BY <2>1 DEF Init
  <2> QED  BY <1>6, <2>1, <2>2 DEF TypeInv, Init, Modes
<1>10. Memory(FALSE)
  BY DEF Memory, Init
<1> QED  BY <1>7, <1>8, <1>9, <1>10 DEF Inv

\* The invariant holds in every state that is reached, unless 'B' or 'C' are used while
\* the AVR or the 6502 is on the bus.
THEOREM Invariance == ASSUME FreeToggles = {} PROVE Spec => []Inv
<1>1. Inv /\ [Next]_vars => Inv'
  <2> SUFFICES ASSUME Inv, [Next]_vars PROVE Inv'
    OBVIOUS
  <2>1. CASE UNCHANGED vars
    <3>1. TypeInv' /\ Sound(pin)'
      BY <2>1 DEF Inv, TypeInv, Sound, vars, avrVars, cpuVars
    <3>2. ASSUME NEW dirty \in BOOLEAN, Memory(dirty) PROVE Memory(dirty)'
      BY <2>1, <3>2 DEF Memory, vars, avrVars, cpuVars
    <3>3. UNCHANGED <<head, pin, script, mode>>
      BY <2>1 DEF vars, avrVars
    <3> QED  BY <3>1, <3>2, <3>3 DEF Inv
  <2> QED  BY <2>1, InvPinWrite, InvTakeByte, InvLoop, InvCommand, InvClockTick DEF Next, Firmware
<1> QED  BY <1>1, InvInit, PTL DEF Spec

\* AVR, 6502, SRAM and devices never drive a line together (main.c, top.v).
THEOREM BusIsShared == ASSUME FreeToggles = {} PROVE Spec => []NoContention
<1>1. Inv => NoContention
  <2> SUFFICES ASSUME Inv PROVE NoContention
    OBVIOUS
  <2>1. Sound(pin) /\ pin \in Pins
    BY DEF Inv, TypeInv
  <2>2. ASSUME pin.driveData, NEW x \in AddressLines(pin, cpu), READ \in RWBLine(pin, cpu)
        PROVE  x \in SRAM /\ PHI2 = 0
    <3>1. pin.BE = 0 /\ pin.STOP = 0
      BY <2>1, <2>2 DEF Sound, Pins
    <3>2. ~(pin.driveRWB /\ pin.RWB = WRITE)
      BY <2>2 DEF RWBLine, READ, WRITE
    <3>3. pin.driveAddress /\ At(pin) \in SRAM /\ pin.GO = 0
      BY <2>1, <2>2, <3>2 DEF Sound
    <3>4. x = At(pin)
      BY <2>2, <3>3 DEF AddressLines, At
    <3> QED  BY <3>1, <3>3, <3>4 DEF PHI2, Phi2
  <2> QED  BY <2>1, <2>2 DEF NoContention, Sound
<1> QED  BY <1>1, Invariance, PTL

\* Between two scripts memory holds what the 6502 and the commands wrote, each byte at
\* its address (write_to_address(), receive_prg() of main.c).
THEOREM MemoryIsAsMeant == ASSUME FreeToggles = {} PROVE Spec => []MemoryAsMeant
<1>1. Inv => MemoryAsMeant
  BY Finished DEF MemoryAsMeant
<1> QED  BY <1>1, Invariance, PTL

\* The 6502 finishes a cycle only when it is connected and has the bus to itself.
THEOREM CyclesAreSeen == ASSUME FreeToggles = {} PROVE Spec => FinishesConnected
<1>1. Inv => (pin.STOP = 1 => pin.BE = 1 /\ ~pin.driveAddress /\ ~pin.driveRWB)
  BY DEF Inv, Sound
<1>2. Inv /\ [Next]_vars =>
        [PHI2 = 1 /\ PHI2' = 0 /\ pin.STOP = 1 /\ pin'.STOP = 1
           => pin.BE = 1 /\ ~pin.driveAddress /\ ~pin.driveRWB]_vars
  BY <1>1
<1> QED  BY <1>2, Invariance, PTL DEF Spec, FinishesConnected

\* What is taken for an address of the SRAM is what that cell holds: whenever the AVR
\* looks at the data bus the address is out, RWB reads and PHI2 is high.
THEOREM TakesFromMemory == ASSUME FreeToggles = {} PROVE Spec => TakesTheCell
<1>1. Inv /\ [Next]_vars =>
        [script # <<>> /\ script' = Tail(script) /\ Head(script)[1] = "take" /\ head \in SRAM
           => got' = sram[head]]_vars
  <2> SUFFICES ASSUME Inv, Next, script # <<>>, script' = Tail(script), Head(script)[1] = "take", head \in SRAM
               PROVE  got' = sram[head]
    OBVIOUS
  <2>1. script' # script
    BY DEF Inv, TypeInv
  <2>2. TakeByte
    BY <2>1 DEF Next, Firmware, PinWrite, Loop, Command, LatchAddress, WriteLatched, Fill, TestRAM, DumpRAM,
                Download, Upload, ResetRequest, ReleaseBuses, Toggle, Begin, ClockTick, avrVars
  <2>3. PICK dirty, v : Run(head, [pin |-> pin, dirty |-> dirty], script, v)
    BY DEF Inv, Leads
  <2>4. Fine(head, [pin |-> pin, dirty |-> dirty], Head(script))
    BY <2>3, RunHead DEF Inv, TypeInv
  <2>5. /\ pin.driveAddress /\ At(pin) = head /\ pin.driveRWB /\ pin.RWB = READ
        /\ pin.STOP = 0 /\ pin.GO = 1
    BY <2>4 DEF Fine, After
  <2>6. AddressLines(pin, cpu) = {head} /\ RWBLine(pin, cpu) = {READ} /\ PHI2 = 1
    BY <2>5 DEF AddressLines, RWBLine, At, PHI2, Phi2
  <2> QED  BY <2>2, <2>6 DEF TakeByte, OnDataBus
<1> QED  BY <1>1, Invariance, PTL DEF Spec, TakesTheCell

================================================================================
