----------------------------- MODULE UploadProofs ------------------------------
(* Proofs about uploads and downloads, for all files, sizes and command letters, *)
(* whatever dude is started for, whenever it is stopped and the file is saved.   *)
(* Nothing is said once dude is astray.                                          *)
(*                                                                               *)
(* dude speaks and the AVR listens, with bytes on the line between the two.  The *)
(* invariant walks through these bytes: from what the AVR is now (Avr), each of  *)
(* them finds it waiting for a byte of that kind (Fine) and takes it on (After), *)
(* to some state v at the end (Walk).  When the AVR takes a byte the walk loses  *)
(* its first step and v stays; when dude sends one the walk gains a step at its  *)
(* end.  What dude is up to is therefore said of v alone (Leads), and it comes   *)
(* true of the AVR when the line is empty.                                       *)
EXTENDS Upload, SequenceTheorems, TLAPS

CellsOf(b)   == IF b = "R1" THEN 0 .. RomSize - 1 ELSE Address
CellOf(b, a) == IF b = "R1" THEN a % RomSize ELSE a
ShownOf(b)   == IF b = "R1" THEN Word - RomSize .. Word - 1 ELSE Address

\* The AVR between two bytes.
States(b) == [pc : Kinds, command : Byte, parameters : Seq(Byte), head : Address, bytes : Nat,
              rom : [CellsOf(b) -> Byte], fresh : BOOLEAN, back : Seq(Nat)]

State(pc, c, ps, h, n, r, f, s) ==
    [pc |-> pc, command |-> c, parameters |-> ps, head |-> h, bytes |-> n,
     rom |-> r, fresh |-> f, back |-> s]

Avr == State(a_pc, command, parameters, write_head, bytes, rom, fresh, back)

\* What R1 answers to a command without parameters.
RomOf(r)    == [i \in 1 .. RomSize |-> r[i - 1]]
Reply(r, c) == CASE c = DOWNLOAD_ROM -> Answer(Word - RomSize, RomOf(r))
                 [] c = DOWNLOAD_RAM -> Answer(0, Ram)
                 [] OTHER -> <<>>

\* The AVR once it has had byte c.
AfterCommand(b, u, c) ==
    IF c = UPLOAD
       THEN State("parameters", c, <<>>, u.head, u.bytes, u.rom, u.fresh, u.back)
       ELSE State("command", u.command, u.parameters, u.head, u.bytes, u.rom, u.fresh \/ c = RESET,
                  IF b = "R1" THEN Reply(u.rom, c) ELSE u.back)
AfterParameter(u, c) ==
    IF Len(u.parameters) < 3
       THEN State("parameters", u.command, Append(u.parameters, c), u.head, u.bytes, u.rom, u.fresh, u.back)
       ELSE LET n == Int16(u.parameters[3], c)
            IN State(IF n = 0 THEN "command" ELSE "data", u.command, <<>>,
                     Int16(u.parameters[1], u.parameters[2]), n, u.rom, u.fresh, u.back)
AfterData(b, u, c) ==
    State(IF u.bytes = 1 THEN "command" ELSE "data", u.command, u.parameters, following(u.head),
          u.bytes - 1, [u.rom EXCEPT ![CellOf(b, u.head)] = c], FALSE, u.back)
After(b, u, c) ==
    IF u.pc = "command" THEN AfterCommand(b, u, c)
    ELSE IF u.pc = "parameters" THEN AfterParameter(u, c)
    ELSE AfterData(b, u, c)

\* Byte m finds the AVR in state u waiting for it, and no answer on its way back.
Fine(b, u, m) ==
    /\ m.kind = u.pc /\ u.back = <<>>
    /\ u.pc = "command" => m.byte \in {UPLOAD, RESET} \/ (b = "R1" /\ m.byte \in Letters)
    /\ u.pc = "parameters" => u.command = UPLOAD /\ Len(u.parameters) <= 3
    /\ u.pc = "data" => u.bytes > 0

\* The bytes s take the AVR from u to v, and each is Fine.
Walk(b, u, s, v) ==
    \E q \in [0 .. Len(s) -> States(b)] :
       /\ q[0] = u /\ q[Len(s)] = v
       /\ \A i \in 1 .. Len(s) : Fine(b, q[i - 1], s[i]) /\ q[i] = After(b, q[i - 1], s[i].byte)

\* The first k bytes of the image in file f are where they belong.
Loaded(b, f, r, k) ==
    \A a \in ShownOf(b) :
       a - base_address(f) \in 0 .. k - 1 => r[CellOf(b, a)] = f[a - base_address(f) + 3]

\* Of file f, which may have been refused, n bytes are in the memory.
Kept(b, f, n, r) == Refused(f, n) \/ (2 + n <= Len(f) /\ Loaded(b, f, r, n))

Messages == [byte : Byte, kind : Kinds]
Pcs      == {"off", "stat", "rest", "sleep", "open", "copy", "reset", "request", "header", "receive"}

TypeInv ==
    /\ board \in {"R1", "R2"} /\ d_pc \in Pcs /\ use \in {"upload", "rom", "ram", "range"}
    /\ content \in Files /\ mtime \in Nat /\ young \in BOOLEAN
    /\ st \in [mtime : Nat, size : Nat] /\ loaded_file_version \in Nat
    /\ bytes_left \in Nat /\ got \in Seq(Nat)
    /\ line \in Seq(Messages) /\ told \in Nat

\* What dude may think of the file.
Watching ==
    /\ 1 <= mtime /\ loaded_file_version <= mtime
    /\ d_pc = "off" => loaded_file_version = 0
    /\ d_pc \in {"sleep", "open", "copy", "reset"} => st.mtime <= mtime
    /\ d_pc \in {"copy", "reset"} => told = st.size
    /\ d_pc \in {"open", "copy", "reset"} /\ st.mtime = mtime => ~young
    /\ d_pc \in {"rest", "stat"} /\ loaded_file_version = mtime => ~young

\* What dude asked for, and what has come of it.
Awaited(v) ==
    /\ d_pc = "request" => use \in {"rom", "ram", "range"}
    /\ d_pc \in {"header", "receive"} => board = "R1" /\ use \in {"rom", "ram"}
    /\ d_pc \notin {"header", "receive"} => v.back = <<>>
    /\ d_pc = "header" => v.back = Reply(v.rom, request)
    /\ d_pc = "receive" => /\ line = <<>> /\ Len(v.back) = bytes_left
                           /\ got \o v.back = IF use = "rom" THEN word(Word - RomSize) \o RomOf(v.rom)
                                              ELSE word(0) \o Contents(Ram)

\* What the AVR waits for when it has had everything.
Expecting(v) ==
    /\ d_pc # "copy" => v.pc = "command"
    /\ d_pc = "copy" => /\ v.pc = IF bytes_left = 0 THEN "command" ELSE "data"
                        /\ bytes_left <= bytes_to_load(st.size)
                        /\ bytes_left > 0 => v.bytes = bytes_left

\* What of the file it has then, if the file is still the one that dude saw: as many
\* bytes as dude asked for, or nothing that was refused.
Installing(v) ==
    /\ d_pc = "copy" /\ st.mtime = mtime =>
          LET n == bytes_to_load(st.size)
          IN /\ ~Refused(content, n) /\ 2 + (n - bytes_left) <= Len(content)
             /\ bytes_left > 0 => v.head = base_address(content) + (n - bytes_left)
             /\ Loaded(board, content, v.rom, n - bytes_left)
    /\ d_pc = "reset" /\ st.mtime = mtime => Kept(board, content, bytes_to_load(st.size), v.rom)
    /\ d_pc \in {"rest", "stat"} /\ loaded_file_version = mtime =>
          Kept(board, content, bytes_to_load(told), v.rom) /\ v.fresh

Leads(v) == Awaited(v) /\ Expecting(v) /\ Installing(v)

\* dude and the AVR are in step.
UInv == TypeInv /\ Watching /\ \E v \in States(board) : Walk(board, Avr, line, v) /\ Leads(v)

\* They are in step until dude is astray.
Inv == astray \/ UInv

--------------------------------------------------------------------------------
(* Bytes, addresses and states *)

\* What the assumptions say of the constants.
LEMMA Constants ==
    /\ Base \in Nat \ {0} /\ Word \in Nat \ {0} /\ 0 \in Byte /\ 0 \in Address
    /\ RomSize \in Nat \ {0} /\ RomSize <= Word /\ Word % RomSize = 0
    /\ Letters \subseteq Byte /\ Ram \in Seq(Byte) /\ Files \subseteq Seq(Byte)
    /\ Byte \subseteq Nat /\ Address \subseteq Nat
<1>1. Word \in Nat \ {0}
  <2>1. Base \in Nat /\ Base > 0
    BY BaseAssumption
  <2>2. Base * Base \in Nat /\ Base * Base > 0
    BY <2>1
  <2> QED  BY <2>2 DEF Word
<1>2. 0 \in Byte /\ 0 \in Address
  BY <1>1, BaseAssumption DEF Byte, Address
<1>3. RomSize \in Nat \ {0} /\ RomSize <= Word
  BY <1>1, UploadAssumption
<1> QED  BY <1>1, <1>2, <1>3, UploadAssumption, BaseAssumption, FilesAssumption DEF Byte, Address

\* Division with remainder.
LEMMA DivMod ==
    ASSUME NEW m \in Nat, NEW w \in Nat \ {0}
    PROVE  m \div w \in Nat /\ m % w \in 0 .. w - 1 /\ m = w * (m \div w) + (m % w)
OBVIOUS

\* Two bytes make an address.
LEMMA Int16Type == ASSUME NEW lo \in Byte, NEW hi \in Byte PROVE Int16(lo, hi) \in Address
<1> DEFINE k == Base - 1 - hi
<1>1. Base \in Nat /\ lo \in Nat /\ hi \in Nat /\ k \in Nat /\ lo < Base /\ Base = hi + 1 + k
  BY BaseAssumption DEF Byte
<1> HIDE DEF k
<1>2. Base * Base = Base * hi + Base + Base * k /\ Base * k \in Nat /\ Base * hi \in Nat
  <2>1. Base * Base = Base * (hi + 1 + k)
    BY <1>1
  <2>2. Base * (hi + 1 + k) = Base * hi + Base + Base * k
    BY <1>1
  <2> QED  BY <1>1, <2>1, <2>2
<1>3. lo + Base * hi \in Nat /\ lo + Base * hi < Base * Base
  BY <1>1, <1>2
<1> QED  BY <1>2, <1>3, <1>1 DEF Int16, Address, Word

\* word() takes a number apart that Int16() puts together.
LEMMA WordOf ==
    ASSUME NEW n \in Nat
    PROVE  /\ low(n) \in Byte /\ high(n) \in Nat /\ Int16(low(n), high(n)) = n
           /\ n < Word => high(n) \in Byte
           /\ word(n) \in Seq(Nat) /\ Len(word(n)) = 2 /\ word(n)[1] = low(n) /\ word(n)[2] = high(n)
<1>1. Base \in Nat \ {0}
  BY BaseAssumption
<1>2. low(n) \in Byte /\ high(n) \in Nat /\ n = Base * high(n) + low(n)
  BY <1>1 DEF low, high, Byte
<1>3. Int16(low(n), high(n)) = n
  <2>1. low(n) \in Nat /\ Base * high(n) \in Nat
    BY <1>1, <1>2 DEF Byte
  <2> QED  BY <1>2, <2>1 DEF Int16
<1>4. ASSUME n < Word, ~(high(n) < Base) PROVE FALSE
  <2> DEFINE h == high(n)
             k == h - Base
  <2>1. h \in Nat /\ k \in Nat /\ h = Base + k
    BY <1>1, <1>2, <1>4
  <2>2. low(n) \in Nat /\ n = Base * h + low(n)
    BY <1>2 DEF Byte
  <2> HIDE DEF h, k
  <2>3. Base * h = Base * Base + Base * k /\ Base * k \in Nat /\ Base * Base \in Nat
    BY <1>1, <2>1
  <2>4. n < Base * Base
    BY <1>4 DEF Word
  <2> QED  BY <1>1, <2>1, <2>2, <2>3, <2>4
<1>5. n < Word => high(n) \in Byte
  BY <1>1, <1>2, <1>4 DEF Byte
<1>6. word(n) \in Seq(Nat) /\ Len(word(n)) = 2 /\ word(n)[1] = low(n) /\ word(n)[2] = high(n)
  BY <1>2 DEF word, Byte
<1> QED  BY <1>2, <1>3, <1>5, <1>6

\* The number of bytes to load has 16 bits, whatever the size of the file.
LEMMA ToLoad ==
    ASSUME NEW n \in Nat
    PROVE  bytes_to_load(n) \in Nat /\ bytes_to_load(n) < Word
<1>1. n - 2 \in Int /\ Word \in Nat /\ Word > 0
  BY Constants
<1>2. (n - 2) % Word \in 0 .. Word - 1
  BY <1>1
<1> QED  BY <1>1, <1>2 DEF bytes_to_load

\* Each address of the memory that a board shows has a cell, and no two have the same.
LEMMA CellsDiffer ==
    ASSUME NEW b, NEW a \in ShownOf(b), NEW h \in ShownOf(b)
    PROVE  /\ CellOf(b, a) \in CellsOf(b) /\ a \in Address
           /\ CellOf(b, a) = CellOf(b, h) => a = h
<1>1. Word \in Nat /\ RomSize \in Nat \ {0} /\ RomSize <= Word
  BY Constants
<1>2. CASE b = "R1"
  <2>1. a \in Nat /\ h \in Nat /\ Word - RomSize <= a /\ a < Word /\ Word - RomSize <= h /\ h < Word
    BY <1>1, <1>2 DEF ShownOf
  <2>2. a % RomSize \in 0 .. RomSize - 1
    BY <1>1, <2>1
  <2>3. ASSUME a % RomSize = h % RomSize PROVE a = h
    <3> DEFINE p == a \div RomSize
               q == h \div RomSize
               r == a % RomSize
    <3>1. p \in Nat /\ q \in Nat /\ r \in Nat /\ a = RomSize * p + r /\ h = RomSize * q + r
      BY <1>1, <2>1, <2>3
    <3> HIDE DEF p, q, r
    <3>2. CASE p = q
      BY <3>1, <3>2
    <3>3. CASE p < q
      <4>1. PICK d \in Nat : q = p + 1 + d
        <5>1. q - p - 1 \in Nat /\ q = p + 1 + (q - p - 1)
          BY <3>1, <3>3
        <5> QED  BY <5>1
      <4>2. RomSize * q = RomSize * p + RomSize + RomSize * d /\ RomSize * d \in Nat /\ RomSize * p \in Nat
        BY <1>1, <3>1, <4>1
      <4> QED  BY <1>1, <2>1, <3>1, <4>2
    <3>4. CASE q < p
      <4>1. PICK d \in Nat : p = q + 1 + d
        <5>1. p - q - 1 \in Nat /\ p = q + 1 + (p - q - 1)
          BY <3>1, <3>4
        <5> QED  BY <5>1
      <4>2. RomSize * p = RomSize * q + RomSize + RomSize * d /\ RomSize * d \in Nat /\ RomSize * q \in Nat
        BY <1>1, <3>1, <4>1
      <4> QED  BY <1>1, <2>1, <3>1, <4>2
    <3> QED  BY <3>1, <3>2, <3>3, <3>4
  <2>4. a \in Address
    BY <1>1, <2>1 DEF Address
  <2> QED  BY <1>2, <2>2, <2>3, <2>4 DEF CellOf, CellsOf
<1>3. CASE b # "R1"
  BY <1>3 DEF CellOf, CellsOf, ShownOf
<1> QED  BY <1>2, <1>3

\* The fields of a state.
LEMMA Fields ==
    ASSUME NEW pc, NEW c, NEW ps, NEW h, NEW n, NEW r, NEW f, NEW s
    PROVE  LET u == State(pc, c, ps, h, n, r, f, s)
           IN /\ u.pc = pc /\ u.command = c /\ u.parameters = ps /\ u.head = h /\ u.bytes = n
              /\ u.rom = r /\ u.fresh = f /\ u.back = s
BY DEF State

\* What a state is made of, and what makes a state.
LEMMA StateType ==
    ASSUME NEW b, NEW u \in States(b)
    PROVE  /\ u.pc \in Kinds /\ u.command \in Byte /\ u.parameters \in Seq(Byte) /\ u.head \in Address
           /\ u.bytes \in Nat /\ u.rom \in [CellsOf(b) -> Byte] /\ u.fresh \in BOOLEAN
           /\ u.back \in Seq(Nat)
BY DEF States
\* A state of the AVR, field by field.
LEMMA TypeState ==
    ASSUME NEW b, NEW pc \in Kinds, NEW c \in Byte, NEW ps \in Seq(Byte), NEW h \in Address,
           NEW n \in Nat, NEW r \in [CellsOf(b) -> Byte], NEW f \in BOOLEAN, NEW s \in Seq(Nat)
    PROVE  State(pc, c, ps, h, n, r, f, s) \in States(b)
BY DEF State, States

\* Two sequences in a row.
LEMMA Joined ==
    ASSUME NEW x \in Seq(Nat), NEW y \in Seq(Nat)
    PROVE  /\ x \o y \in Seq(Nat) /\ Len(x \o y) = Len(x) + Len(y)
           /\ \A i \in 1 .. Len(x) : (x \o y)[i] = x[i]
           /\ \A i \in 1 .. Len(y) : (x \o y)[Len(x) + i] = y[i]
OBVIOUS

\* Three sequences in a row, the first two being two numbers each.
LEMMA JoinedThree ==
    ASSUME NEW x \in Seq(Nat), NEW y \in Seq(Nat), NEW m \in Seq(Nat), Len(x) = 2, Len(y) = 2
    PROVE  LET s == (x \o y) \o m
           IN /\ s \in Seq(Nat) /\ Len(s) = 4 + Len(m)
              /\ s[1] = x[1] /\ s[2] = x[2] /\ s[3] = y[1] /\ s[4] = y[2]
              /\ \A i \in 1 .. Len(m) : s[4 + i] = m[i]
<1> DEFINE z == x \o y
           s == z \o m
<1>1. /\ z \in Seq(Nat) /\ Len(z) = Len(x) + Len(y)
      /\ \A i \in 1 .. Len(x) : z[i] = x[i]
      /\ \A i \in 1 .. Len(y) : z[Len(x) + i] = y[i]
  BY Joined, Zenon
<1> HIDE DEF z
<1>2. /\ s \in Seq(Nat) /\ Len(s) = Len(z) + Len(m)
      /\ \A i \in 1 .. Len(z) : s[i] = z[i]
      /\ \A i \in 1 .. Len(m) : s[Len(z) + i] = m[i]
  BY <1>1, Joined, Zenon
<1> HIDE DEF s
<1>3. Len(z) = 4 /\ Len(m) \in Nat
  BY <1>1
<1>4. Len(s) = 4 + Len(m) /\ \A i \in 1 .. Len(m) : s[4 + i] = m[i]
  BY <1>2, <1>3
<1>5. z[1] = x[1] /\ z[2] = x[2] /\ z[2 + 1] = y[1] /\ z[2 + 2] = y[2]
  BY <1>1
<1>6. s[1] = z[1] /\ s[2] = z[2] /\ s[3] = z[3] /\ s[4] = z[4]
  BY <1>2, <1>3
<1>7. /\ s \in Seq(Nat) /\ Len(s) = 4 + Len(m)
      /\ s[1] = x[1] /\ s[2] = x[2] /\ s[3] = y[1] /\ s[4] = y[2]
      /\ \A i \in 1 .. Len(m) : s[4 + i] = m[i]
  <2>1. z[2 + 1] = z[3] /\ z[2 + 2] = z[4]
    OBVIOUS
  <2> QED  BY <1>2, <1>4, <1>5, <1>6, <2>1, Zenon
<1> QED  BY <1>7, Zenon DEF s, z

\* The rest of a sequence, from a place on.
LEMMA FromThere ==
    ASSUME NEW s \in Seq(Nat), NEW a \in 1 .. Len(s) + 1
    PROVE  /\ SubSeq(s, a, Len(s)) \in Seq(Nat) /\ Len(SubSeq(s, a, Len(s))) = Len(s) - a + 1
           /\ \A i \in 1 .. Len(s) - a + 1 : SubSeq(s, a, Len(s))[i] = s[a + i - 1]
OBVIOUS

\* The first two, and what follows four.
LEMMA PartsOf ==
    ASSUME NEW s \in Seq(Nat), NEW x \in Seq(Nat), NEW m \in Seq(Nat), Len(x) = 2,
           Len(s) = 4 + Len(m), s[1] = x[1], s[2] = x[2], \A i \in 1 .. Len(m) : s[4 + i] = m[i]
    PROVE  SubSeq(s, 1, 2) = x /\ SubSeq(s, 5, Len(s)) = m
<1>1. SubSeq(s, 1, 2) = x
  <2>1. SubSeq(s, 1, 2) \in Seq(Nat) /\ Len(SubSeq(s, 1, 2)) = 2
    OBVIOUS
  <2>2. \A i \in 1 .. 2 : SubSeq(s, 1, 2)[i] = s[i]
    OBVIOUS
  <2>3. \A i \in 1 .. 2 : SubSeq(s, 1, 2)[i] = x[i]
    <3> TAKE i \in 1 .. 2
    <3>1. i = 1 \/ i = 2
      OBVIOUS
    <3> QED  BY <2>2, <3>1, Zenon
  <2> QED  BY <2>1, <2>3, SeqEqual
<1>2. SubSeq(s, 5, Len(s)) = m
  <2> DEFINE t == SubSeq(s, 5, Len(s))
  <2>1. Len(m) \in Nat /\ 5 \in 1 .. Len(s) + 1 /\ Len(s) - 5 + 1 = Len(m)
    OBVIOUS
  <2>2. /\ t \in Seq(Nat) /\ Len(t) = Len(s) - 5 + 1
        /\ \A i \in 1 .. Len(s) - 5 + 1 : t[i] = s[5 + i - 1]
    BY <2>1, FromThere, Zenon
  <2> HIDE DEF t
  <2>3. \A i \in 1 .. Len(t) : t[i] = m[i]
    <3> TAKE i \in 1 .. Len(t)
    <3>1. i \in 1 .. Len(m) /\ 5 + i - 1 = 4 + i
      BY <2>1, <2>2
    <3>2. t[i] = s[4 + i]
      BY <2>1, <2>2, <3>1
    <3> QED  BY <3>1, <3>2
  <2>4. Len(t) = Len(m)
    BY <2>1, <2>2
  <2>5. t = m
    BY <2>2, <2>3, <2>4, SeqEqual, Zenon
  <2> QED  BY <2>5 DEF t
<1> QED  BY <1>1, <1>2

\* An answer is a sequence: where the memory begins, its length, what it contains.
LEMMA AnswerIs ==
    ASSUME NEW from \in Nat, NEW m \in Seq(Nat)
    PROVE  LET s == Answer(from, m)
           IN /\ s \in Seq(Nat) /\ Len(s) = 4 + Len(m)
              /\ SubSeq(s, 1, 2) = word(from) /\ Int16(s[3], s[4]) = Len(m)
              /\ SubSeq(s, 5, Len(s)) = m /\ Contents(m) = m
<1>1. Contents(m) = m
  BY DEF Contents
<1> DEFINE x == word(from)
           y == word(Len(m))
           s == Answer(from, m)
<1>2. Len(m) \in Nat
  OBVIOUS
<1>3. x \in Seq(Nat) /\ Len(x) = 2 /\ y \in Seq(Nat) /\ Len(y) = 2
  BY <1>2, WordOf
<1>4. Int16(y[1], y[2]) = Len(m)
  BY <1>2, WordOf
<1>5. s = (x \o y) \o m
  BY <1>1, <1>2, <1>3 DEF Answer
<1> HIDE DEF s
<1> HIDE DEF x, y
<1>6. s \in Seq(Nat) /\ Len(s) = 4 + Len(m)
  BY <1>3, <1>5, JoinedThree, ZenonT(60)
<1>7. s[1] = x[1] /\ s[2] = x[2] /\ s[3] = y[1] /\ s[4] = y[2]
  BY <1>3, <1>5, JoinedThree, ZenonT(60)
<1>8. \A i \in 1 .. Len(m) : s[4 + i] = m[i]
  <2>1. \A i \in 1 .. Len(m) : ((x \o y) \o m)[4 + i] = m[i]
    BY <1>3, JoinedThree, ZenonT(60)
  <2> QED  BY <1>5, <2>1
<1>9. SubSeq(s, 1, 2) = x
  BY <1>3, <1>6, <1>7, <1>8, PartsOf, Zenon
<1>10. SubSeq(s, 5, Len(s)) = m
  BY <1>3, <1>6, <1>7, <1>8, PartsOf, Zenon
<1> QED  BY <1>1, <1>4, <1>6, <1>7, <1>9, <1>10 DEF x, y, s

--------------------------------------------------------------------------------
(* The AVR and the bytes on the line *)

\* What R1 answers is a sequence of numbers.
LEMMA ReplyType ==
    ASSUME NEW r \in [CellsOf("R1") -> Byte], NEW c
    PROVE  Reply(r, c) \in Seq(Nat) /\ RomOf(r) \in Seq(Nat) /\ Len(RomOf(r)) = RomSize
<1>1. RomSize \in Nat /\ RomSize <= Word /\ Word \in Nat /\ Byte \subseteq Nat
  BY Constants
<1>2. \A i \in 1 .. RomSize : r[i - 1] \in Nat
  <2> TAKE i \in 1 .. RomSize
  <2>1. i - 1 \in CellsOf("R1")
    BY <1>1 DEF CellsOf
  <2> QED  BY <1>1, <2>1
<1>3. RomOf(r) \in Seq(Nat) /\ Len(RomOf(r)) = RomSize
  BY <1>1, <1>2 DEF RomOf
<1>4. Word - RomSize \in Nat /\ 0 \in Nat /\ Ram \in Seq(Nat)
  <2>1. Word - RomSize \in Nat /\ 0 \in Nat
    BY <1>1
  <2>2. Ram \in Seq(Byte)
    BY Constants
  <2>3. Len(Ram) \in Nat /\ \A i \in 1 .. Len(Ram) : Ram[i] \in Nat
    <3>1. Len(Ram) \in Nat /\ \A i \in 1 .. Len(Ram) : Ram[i] \in Byte
      BY <2>2
    <3>2. \A x \in Byte : x \in Nat
      BY <1>1
    <3> QED  BY <3>1, <3>2, Zenon
  <2>4. Ram = [i \in 1 .. Len(Ram) |-> Ram[i]]
    BY <2>2
  <2>5. [i \in 1 .. Len(Ram) |-> Ram[i]] \in Seq(Nat)
    BY <2>3
  <2> QED  BY <2>1, <2>4, <2>5
<1>5. Answer(Word - RomSize, RomOf(r)) \in Seq(Nat) /\ Answer(0, Ram) \in Seq(Nat)
  BY <1>3, <1>4, AnswerIs
<1>6. <<>> \in Seq(Nat)
  OBVIOUS
<1> QED  BY <1>3, <1>5, <1>6, Zenon DEF Reply

\* A command that is not a download is not answered.
LEMMA NoReply == ASSUME NEW r PROVE Reply(r, RESET) = <<>>
BY UploadAssumption DEF Reply

\* A byte that is waited for makes a state of a state.
LEMMA AfterType ==
    ASSUME NEW b, NEW u \in States(b), NEW m \in Messages, Fine(b, u, m)
    PROVE  After(b, u, m.byte) \in States(b)
<1> DEFINE c == m.byte
<1>1. /\ u.pc \in Kinds /\ u.command \in Byte /\ u.parameters \in Seq(Byte) /\ u.head \in Address
      /\ u.bytes \in Nat /\ u.rom \in [CellsOf(b) -> Byte] /\ u.fresh \in BOOLEAN
      /\ u.back \in Seq(Nat)
  BY StateType
<1>2. c \in Byte
  BY DEF Messages
<1> HIDE DEF c
<1>3. <<>> \in Seq(Byte) /\ "command" \in Kinds /\ "parameters" \in Kinds /\ "data" \in Kinds
  BY DEF Kinds
<1>4. AfterCommand(b, u, c) \in States(b)
  <2>1. (IF b = "R1" THEN Reply(u.rom, c) ELSE u.back) \in Seq(Nat)
    BY <1>1, ReplyType, Zenon
  <2>2. (u.fresh \/ c = RESET) \in BOOLEAN
    OBVIOUS
  <2>3. CASE c = UPLOAD
    BY <1>1, <1>2, <1>3, <2>3, TypeState, Zenon DEF AfterCommand
  <2>4. CASE c # UPLOAD
    BY <1>1, <1>3, <2>1, <2>2, <2>4, TypeState, Zenon DEF AfterCommand
  <2> QED  BY <2>3, <2>4
<1>5. CASE u.pc = "parameters"
  <2>1. CASE Len(u.parameters) < 3
    <3>1. Append(u.parameters, c) \in Seq(Byte)
      BY <1>1, <1>2
    <3>2. After(b, u, c) = State("parameters", u.command, Append(u.parameters, c), u.head, u.bytes,
                                 u.rom, u.fresh, u.back)
      BY <1>5, <2>1 DEF After, AfterParameter
    <3>3. State("parameters", u.command, Append(u.parameters, c), u.head, u.bytes, u.rom, u.fresh,
                u.back) \in States(b)
      BY <1>1, <1>3, <3>1, TypeState, Zenon
    <3> QED  BY <3>2, <3>3 DEF c
  <2>2. CASE ~(Len(u.parameters) < 3)
    <3>1. Len(u.parameters) = 3
      <4>1. Len(u.parameters) <= 3
        BY <1>5 DEF Fine
      <4> DEFINE k == Len(u.parameters)
      <4>2. k \in Nat /\ ~(k < 3)
        BY <1>1, <2>2
      <4> HIDE DEF k
      <4>3. k <= 3
        BY <4>1 DEF k
      <4>4. k = 3
        BY <4>2, <4>3
      <4> QED  BY <4>4 DEF k
    <3>2. u.parameters[1] \in Byte /\ u.parameters[2] \in Byte /\ u.parameters[3] \in Byte
      BY <1>1, <3>1
    <3> DEFINE n == Int16(u.parameters[3], c)
               h == Int16(u.parameters[1], u.parameters[2])
    <3>3. n \in Nat /\ h \in Address
      BY <1>2, <3>2, Int16Type, Constants
    <3>4. After(b, u, c) = State(IF n = 0 THEN "command" ELSE "data", u.command, <<>>, h, n,
                                 u.rom, u.fresh, u.back)
      BY <1>5, <2>2 DEF After, AfterParameter
    <3> HIDE DEF n, h
    <3>5. (IF n = 0 THEN "command" ELSE "data") \in Kinds
      BY DEF Kinds
    <3>6. State(IF n = 0 THEN "command" ELSE "data", u.command, <<>>, h, n, u.rom, u.fresh, u.back)
            \in States(b)
      BY <1>1, <1>3, <3>3, <3>5, TypeState, Zenon
    <3> QED  BY <3>4, <3>6 DEF c
  <2> QED  BY <2>1, <2>2 DEF c
<1>6. CASE u.pc = "data"
  <2> DEFINE r == [u.rom EXCEPT ![CellOf(b, u.head)] = c]
  <2>1. r \in [CellsOf(b) -> Byte]
    BY <1>1, <1>2
  <2>2. u.bytes - 1 \in Nat
    BY <1>1, <1>6 DEF Fine
  <2>3. following(u.head) \in Address
    BY <1>1, Constants DEF following, Address
  <2>4. After(b, u, c) = State(IF u.bytes = 1 THEN "command" ELSE "data", u.command, u.parameters,
                               following(u.head), u.bytes - 1, r, FALSE, u.back)
    BY <1>6 DEF After, AfterData
  <2>5. (IF u.bytes = 1 THEN "command" ELSE "data") \in Kinds /\ FALSE \in BOOLEAN
    BY DEF Kinds
  <2> HIDE DEF r
  <2>6. State(IF u.bytes = 1 THEN "command" ELSE "data", u.command, u.parameters,
              following(u.head), u.bytes - 1, r, FALSE, u.back) \in States(b)
    BY <1>1, <2>1, <2>2, <2>3, <2>5, TypeState, Zenon
  <2> QED  BY <2>4, <2>6 DEF c
<1>7. CASE u.pc = "command"
  BY <1>4, <1>7 DEF After, c
<1> QED  BY <1>1, <1>5, <1>6, <1>7 DEF Kinds

\* No bytes.
LEMMA WalkNil == ASSUME NEW b, NEW u \in States(b) PROVE Walk(b, u, <<>>, u)
<1> DEFINE q == [i \in 0 .. 0 |-> u]
<1>1. Len(<<>>) = 0
  OBVIOUS
<1>2. q \in [0 .. 0 -> States(b)] /\ q[0] = u
  OBVIOUS
<1> HIDE DEF q
<1> QED  BY <1>1, <1>2 DEF Walk

\* The end of the line.
LEMMA WalkEnd == ASSUME NEW b, NEW u, NEW v, Walk(b, u, <<>>, v) PROVE u = v /\ u \in States(b)
BY DEF Walk

\* Where a walk begins and ends.
LEMMA WalkStates ==
    ASSUME NEW b, NEW u, NEW v, NEW s \in Seq(Messages), Walk(b, u, s, v)
    PROVE  u \in States(b) /\ v \in States(b)
<1>1. Len(s) \in Nat
  OBVIOUS
<1>2. 0 \in 0 .. Len(s) /\ Len(s) \in 0 .. Len(s)
  BY <1>1
<1> QED  BY <1>2 DEF Walk

\* One byte more on the line.
LEMMA WalkOn ==
    ASSUME NEW b, NEW u, NEW v, NEW s \in Seq(Messages), NEW m \in Messages,
           Walk(b, u, s, v), Fine(b, v, m)
    PROVE  /\ Append(s, m) \in Seq(Messages) /\ After(b, v, m.byte) \in States(b)
           /\ Walk(b, u, Append(s, m), After(b, v, m.byte))
<1>1. PICK q \in [0 .. Len(s) -> States(b)] :
         /\ q[0] = u /\ q[Len(s)] = v
         /\ \A i \in 1 .. Len(s) : Fine(b, q[i - 1], s[i]) /\ q[i] = After(b, q[i - 1], s[i].byte)
  BY DEF Walk
<1> DEFINE n == Len(s)
           x == After(b, v, m.byte)
           t == Append(s, m)
           e == [i \in 0 .. n + 1 |-> IF i <= n THEN q[i] ELSE x]
<1>2. v \in States(b)
  BY WalkStates, Zenon
<1>3. x \in States(b)
  BY <1>2, AfterType, Zenon
<1>4. n \in Nat /\ t \in Seq(Messages) /\ Len(t) = n + 1 /\ t[n + 1] = m
  OBVIOUS
<1>5. \A i \in 1 .. n : t[i] = s[i]
  OBVIOUS
<1> HIDE DEF x, t, n
<1>6. \A i \in 0 .. n + 1 : i <= n => i \in 0 .. n
  BY <1>4
<1>7. e \in [0 .. n + 1 -> States(b)]
  BY <1>1, <1>3, <1>6 DEF n
<1>8. (\A i \in 0 .. n : e[i] = q[i]) /\ e[n + 1] = x
  BY <1>4
<1> HIDE DEF e
<1>9. \A i \in 1 .. n + 1 : Fine(b, e[i - 1], t[i]) /\ e[i] = After(b, e[i - 1], t[i].byte)
  <2> TAKE i \in 1 .. n + 1
  <2>1. CASE i <= n
    <3>1. i \in 1 .. n /\ i \in 0 .. n /\ i - 1 \in 0 .. n
      BY <1>4, <2>1
    <3>2. e[i] = q[i] /\ e[i - 1] = q[i - 1] /\ t[i] = s[i]
      BY <1>5, <1>8, <3>1
    <3>3. Fine(b, q[i - 1], s[i]) /\ q[i] = After(b, q[i - 1], s[i].byte)
      BY <1>1, <3>1 DEF n
    <3> QED  BY <3>2, <3>3
  <2>2. CASE ~(i <= n)
    <3>1. i = n + 1 /\ i - 1 = n /\ n \in 0 .. n
      BY <1>4, <2>2
    <3>2. e[i] = x /\ e[i - 1] = v /\ t[i] = m
      BY <1>1, <1>4, <1>8, <3>1 DEF n
    <3> QED  BY <3>2 DEF x
  <2> QED  BY <2>1, <2>2
<1>10. e[0] = u /\ e[n + 1] = x
  BY <1>1, <1>4, <1>8
<1>11. Walk(b, u, t, x)
  BY <1>4, <1>7, <1>9, <1>10 DEF Walk
<1> QED  BY <1>3, <1>4, <1>11 DEF t, x

\* The first byte of the line, and the rest.
LEMMA WalkHead ==
    ASSUME NEW b, NEW u, NEW v, NEW s \in Seq(Messages), s # <<>>, Walk(b, u, s, v)
    PROVE  /\ u \in States(b) /\ Fine(b, u, Head(s)) /\ Walk(b, After(b, u, Head(s).byte), Tail(s), v)
           /\ Head(s) \in Messages /\ Tail(s) \in Seq(Messages)
<1>1. PICK q \in [0 .. Len(s) -> States(b)] :
         /\ q[0] = u /\ q[Len(s)] = v
         /\ \A i \in 1 .. Len(s) : Fine(b, q[i - 1], s[i]) /\ q[i] = After(b, q[i - 1], s[i].byte)
  BY DEF Walk
<1> DEFINE n == Len(s)
           e == [i \in 0 .. n - 1 |-> q[i + 1]]
<1>2. n \in Nat \ {0} /\ Len(Tail(s)) = n - 1 /\ Tail(s) \in Seq(Messages) /\ Head(s) = s[1]
  OBVIOUS
<1>3. \A i \in 1 .. n - 1 : Tail(s)[i] = s[i + 1]
  OBVIOUS
<1>4. Head(s) \in Messages
  BY <1>2
<1> HIDE DEF n
<1>5. /\ Fine(b, u, Head(s)) /\ q[1] = After(b, u, Head(s).byte) /\ 1 \in 0 .. n /\ q[1] \in States(b)
      /\ u \in States(b)
  BY <1>1, <1>2 DEF n
<1>6. e \in [0 .. n - 1 -> States(b)] /\ e[0] = q[1] /\ e[n - 1] = q[n]
  BY <1>1, <1>2 DEF n
<1>7. \A i \in 1 .. n - 1 :
         Fine(b, e[i - 1], Tail(s)[i]) /\ e[i] = After(b, e[i - 1], Tail(s)[i].byte)
  <2> TAKE i \in 1 .. n - 1
  <2>1. e[i - 1] = q[i] /\ e[i] = q[i + 1] /\ i + 1 \in 1 .. n /\ (i + 1) - 1 = i
    BY <1>2
  <2>2. Fine(b, q[(i + 1) - 1], s[i + 1]) /\ q[i + 1] = After(b, q[(i + 1) - 1], s[i + 1].byte)
    BY <1>1, <2>1 DEF n
  <2> QED  BY <1>3, <2>1, <2>2
<1> HIDE DEF e
<1>8. Walk(b, q[1], Tail(s), v)
  BY <1>1, <1>2, <1>6, <1>7 DEF Walk, n
<1> QED  BY <1>2, <1>4, <1>5, <1>8

--------------------------------------------------------------------------------
(* The AVR takes a byte *)

\* The AVR in terms of the variables.
LEMMA AvrFields ==
    /\ Avr.pc = a_pc /\ Avr.command = command /\ Avr.parameters = parameters
    /\ Avr.head = write_head /\ Avr.bytes = bytes /\ Avr.rom = rom /\ Avr.fresh = fresh
    /\ Avr.back = back
BY Fields DEF Avr

\* Whatever the AVR does with a byte that it waits for, it is what After says.
LEMMA AvrTakes ==
    ASSUME NEW v, TypeInv, Walk(board, Avr, line, v), AVR
    PROVE  /\ UNCHANGED <<board, fileVars, dudeVars, told>> /\ line # <<>> /\ line' = Tail(line)
           /\ Fine(board, Avr, Head(line)) /\ Avr' = After(board, Avr, Head(line).byte)
<1>1. Take
  BY DEF AVR, Obey, Await, Parameter, LastParameter, Store
<1>2. UNCHANGED <<board, fileVars, dudeVars, told>> /\ line # <<>> /\ line' = Tail(line)
  BY <1>1 DEF Take, histVars
<1>3. line \in Seq(Messages)
  BY DEF TypeInv
<1>4. /\ Avr \in States(board) /\ Fine(board, Avr, Head(line)) /\ Head(line) \in Messages
  BY <1>2, <1>3, WalkHead, Zenon
<1> DEFINE c == Head(line).byte
<1>5. /\ Head(line).kind = a_pc /\ back = <<>>
      /\ a_pc = "command" => c \in {UPLOAD, RESET} \/ (board = "R1" /\ c \in Letters)
      /\ a_pc = "parameters" => command = UPLOAD /\ Len(parameters) <= 3
  BY <1>4, AvrFields DEF Fine
<1>6. Avr' = State(a_pc', command', parameters', write_head', bytes', rom', fresh', back')
  BY DEF Avr
<1>7. CASE Obey
  <2>1. /\ a_pc = "command" /\ ~TakesParameters(c)
        /\ fresh' = (fresh \/ c = RESET)
        /\ back' = CASE board = "R1" /\ c = DOWNLOAD_ROM -> back \o Answer(Word - RomSize, RomContents)
                     [] board = "R1" /\ c = DOWNLOAD_RAM -> back \o Answer(0, Ram)
                     [] OTHER -> back
        /\ UNCHANGED <<a_pc, command, parameters, write_head, bytes, rom>>
    BY <1>7 DEF Obey, Letter
  <2>2. c # UPLOAD
    BY <2>1 DEF TakesParameters
  <2>3. back' = IF board = "R1" THEN Reply(rom, c) ELSE back
    <3>1. CASE board # "R1"
      BY <2>1, <3>1
    <3>2. CASE board = "R1"
      <4>1. rom \in [CellsOf("R1") -> Byte]
        BY <1>4, <3>2, StateType, AvrFields
      <4>2. RomContents = RomOf(rom)
        BY DEF RomContents, RomOf
      <4>3. Answer(Word - RomSize, RomOf(rom)) \in Seq(Nat) /\ Answer(0, Ram) \in Seq(Nat)
        <5>1. Reply(rom, DOWNLOAD_ROM) \in Seq(Nat) /\ Reply(rom, DOWNLOAD_RAM) \in Seq(Nat)
          BY <4>1, ReplyType, Zenon
        <5>2. /\ Reply(rom, DOWNLOAD_ROM) = Answer(Word - RomSize, RomOf(rom))
              /\ Reply(rom, DOWNLOAD_RAM) = Answer(0, Ram)
          BY UploadAssumption DEF Reply
        <5> QED  BY <5>1, <5>2
      <4>4. \A s \in Seq(Nat) : <<>> \o s = s
        OBVIOUS
      <4>5. /\ back \o Answer(Word - RomSize, RomOf(rom)) = Answer(Word - RomSize, RomOf(rom))
            /\ back \o Answer(0, Ram) = Answer(0, Ram)
        BY <1>5, <4>3, <4>4
      <4>6. CASE c = DOWNLOAD_ROM
        <5>1. DOWNLOAD_RAM # DOWNLOAD_ROM
          BY UploadAssumption
        <5>2. back' = Answer(Word - RomSize, RomOf(rom))
          BY <2>1, <3>2, <4>2, <4>5, <4>6, <5>1
        <5> QED  BY <3>2, <4>6, <5>1, <5>2 DEF Reply
      <4>7. CASE c = DOWNLOAD_RAM
        <5>1. DOWNLOAD_RAM # DOWNLOAD_ROM
          BY UploadAssumption
        <5>2. back' = Answer(0, Ram)
          BY <2>1, <3>2, <4>5, <4>7, <5>1
        <5> QED  BY <3>2, <4>7, <5>1, <5>2 DEF Reply
      <4>8. CASE c # DOWNLOAD_ROM /\ c # DOWNLOAD_RAM
        <5>1. back' = back
          BY <2>1, <4>8
        <5> QED  BY <1>5, <3>2, <4>8, <5>1 DEF Reply
      <4> QED  BY <4>6, <4>7, <4>8
    <3> QED  BY <3>1, <3>2
  <2>4. After(board, Avr, c) = State("command", command, parameters, write_head, bytes, rom,
                                     fresh \/ c = RESET, IF board = "R1" THEN Reply(rom, c) ELSE back)
    BY <2>1, <2>2, AvrFields DEF After, AfterCommand
  <2> QED  BY <1>2, <1>4, <1>6, <2>1, <2>3, <2>4
<1>8. CASE Await
  <2>1. /\ a_pc = "command" /\ TakesParameters(c)
        /\ command' = c /\ parameters' = <<>> /\ a_pc' = "parameters"
        /\ UNCHANGED <<write_head, bytes, rom, fresh, back>>
    BY <1>8 DEF Await, Letter
  <2>2. c = UPLOAD
    BY <1>5, <2>1, UploadAssumption DEF TakesParameters, Letters
  <2>3. After(board, Avr, c) = State("parameters", c, <<>>, write_head, bytes, rom, fresh, back)
    BY <2>1, <2>2, AvrFields DEF After, AfterCommand
  <2> QED  BY <1>2, <1>4, <1>6, <2>1, <2>3
<1>9. CASE Parameter
  <2>1. /\ a_pc = "parameters" /\ Len(parameters) < 3 /\ parameters' = Append(parameters, c)
        /\ UNCHANGED <<a_pc, command, write_head, bytes, rom, fresh, back>>
    BY <1>9 DEF Parameter, Letter
  <2>2. After(board, Avr, c) = State("parameters", command, Append(parameters, c), write_head,
                                     bytes, rom, fresh, back)
    BY <2>1, AvrFields DEF After, AfterParameter
  <2> QED  BY <1>2, <1>4, <1>6, <2>1, <2>2
<1>10. CASE LastParameter
  <2> DEFINE n == Int16(parameters[3], c)
             h == Int16(parameters[1], parameters[2])
  <2>1. /\ a_pc = "parameters" /\ Len(parameters) = 3 /\ parameters' = <<>>
        /\ UNCHANGED <<command, rom, fresh>>
    BY <1>10 DEF LastParameter
  <2>2. ~(command # UPLOAD)
    BY <1>5, <2>1
  <2>3. /\ write_head' = h /\ bytes' = n /\ back' = back
        /\ a_pc' = IF n = 0 THEN "command" ELSE "data"
    BY <1>10, <2>2 DEF LastParameter, Letter, receive_int16
  <2>4. After(board, Avr, c) = State(IF n = 0 THEN "command" ELSE "data", command, <<>>, h, n,
                                     rom, fresh, back)
    <3>1. ~(Len(parameters) < 3)
      BY <2>1
    <3> QED  BY <2>1, <3>1, AvrFields DEF After, AfterParameter
  <2> QED  BY <1>2, <1>4, <1>6, <2>1, <2>3, <2>4
<1>11. CASE Store
  <2>1. /\ a_pc = "data" /\ rom' = [rom EXCEPT ![CellOf(board, write_head)] = c]
        /\ write_head' = following(write_head) /\ bytes' = bytes - 1
        /\ a_pc' = IF bytes = 1 THEN "command" ELSE "data"
        /\ fresh' = FALSE /\ UNCHANGED <<command, parameters, back>>
    BY <1>11 DEF Store, Letter, Cell, CellOf
  <2>2. After(board, Avr, c) = State(IF bytes = 1 THEN "command" ELSE "data", command, parameters,
                                     following(write_head), bytes - 1,
                                     [rom EXCEPT ![CellOf(board, write_head)] = c], FALSE, back)
    BY <2>1, AvrFields DEF After, AfterData
  <2> QED  BY <1>2, <1>4, <1>6, <2>1, <2>2
<1> QED  BY <1>7, <1>8, <1>9, <1>10, <1>11 DEF AVR

\* The AVR takes a byte: what all the bytes lead to is the same as before.
LEMMA AvrStep == ASSUME UInv, AVR PROVE UInv'
<1>1. PICK v \in States(board) : Walk(board, Avr, line, v) /\ Leads(v)
  BY DEF UInv
<1>2. TypeInv /\ Watching
  BY DEF UInv
<1>3. /\ UNCHANGED <<board, fileVars, dudeVars, told>> /\ line # <<>> /\ line' = Tail(line)
      /\ Fine(board, Avr, Head(line)) /\ Avr' = After(board, Avr, Head(line).byte)
  BY <1>1, <1>2, AvrTakes
<1>4. line \in Seq(Messages)
  BY <1>2 DEF TypeInv
<1>5. Walk(board, Avr', line', v) /\ line' \in Seq(Messages)
  BY <1>1, <1>3, <1>4, WalkHead, Zenon
<1>6. TypeInv'
  BY <1>2, <1>3, <1>5 DEF TypeInv, fileVars, dudeVars
<1>7. Watching'
  BY <1>2, <1>3 DEF Watching, fileVars, dudeVars
<1>8. d_pc # "receive"
  BY <1>1, <1>3 DEF Leads, Awaited
<1>9. Leads(v)'
  BY <1>1, <1>3, <1>8 DEF Leads, Awaited, Expecting, Installing, request,
                          fileVars, dudeVars
<1> QED  BY <1>3, <1>5, <1>6, <1>7, <1>9 DEF UInv

--------------------------------------------------------------------------------
(* dude looks at the file, sleeps, or is started or stopped *)

\* The line and the AVR stay: so does what they lead to.
LEMMA LineStays ==
    ASSUME NEW v \in States(board), Walk(board, Avr, line, v), UNCHANGED <<board, line, back, avrVars>>,
           TypeInv', Watching', Leads(v)'
    PROVE  UInv'
<1>1. Avr' = Avr /\ line' = line /\ board' = board
  BY DEF Avr, avrVars
<1> QED  BY <1>1 DEF UInv

\* A file is a sequence of bytes.
LEMMA ContentType == ASSUME TypeInv PROVE content \in Seq(Byte) /\ Len(content) \in Nat
BY Constants DEF TypeInv

\* Nothing is known of a program that ends with the AVR waiting for a command.
LEMMA Ended ==
    ASSUME TypeInv, Watching, NEW v, v.pc = "command", v.back = <<>>,
           d_pc' = "off", st' = [mtime |-> 0, size |-> 0], told' = 0, loaded_file_version' = 0,
           bytes_left' = 0, got' = <<>>, UNCHANGED <<board, fileVars, use, line>>
    PROVE  TypeInv' /\ Watching' /\ Leads(v)'
<1>1. st' \in [mtime : Nat, size : Nat] /\ got' \in Seq(Nat) /\ 0 \in Nat
  OBVIOUS
<1>2. TypeInv'
  BY <1>1 DEF TypeInv, Pcs, fileVars
<1>3. Watching'
  <2>1. 1 <= mtime /\ mtime \in Nat
    BY DEF Watching, TypeInv
  <2> QED  BY <2>1 DEF Watching, fileVars
<1>4. Leads(v)'
  BY DEF Leads, Awaited, Expecting, Installing
<1> QED  BY <1>2, <1>3, <1>4

\* The program is started.
LEMMA StartStep == ASSUME UInv, NEW u, Start(u) PROVE UInv'
<1>1. PICK v \in States(board) : Walk(board, Avr, line, v) /\ Leads(v)
  BY DEF UInv
<1>2. TypeInv /\ Watching
  BY DEF UInv
<1>3. /\ d_pc = "off" /\ use' = u
      /\ d_pc' = IF u = "upload" THEN "stat" ELSE "request"
      /\ back' = <<>>
      /\ UNCHANGED <<board, fileVars, st, loaded_file_version, bytes_left, got, line, avrVars, told>>
  BY DEF Start, histVars
<1>4. u \in {"upload", "rom", "ram", "range"} /\ board \in {"R1", "R2"}
  <2>1. Uses[board] \subseteq {"upload", "rom", "ram", "range"} /\ u \in Uses[board]
    BY <1>2, UploadAssumption DEF Start, TypeInv
  <2> QED  BY <1>2, <2>1 DEF TypeInv
<1>5. back = <<>>
  <2>1. v.back = <<>>
    BY <1>1, <1>3 DEF Leads, Awaited
  <2>2. line \in Seq(Messages)
    BY <1>2 DEF TypeInv
  <2>3. CASE line = <<>>
    <3>1. Avr = v
      BY <1>1, <2>3, WalkEnd, Zenon
    <3> QED  BY <2>1, <3>1, AvrFields
  <2>4. CASE line # <<>>
    <3>1. Fine(board, Avr, Head(line))
      BY <1>1, <2>2, <2>4, WalkHead, Zenon
    <3> QED  BY <3>1, AvrFields DEF Fine
  <2> QED  BY <2>3, <2>4
<1>6. TypeInv'
  BY <1>2, <1>3, <1>4 DEF TypeInv, fileVars, Pcs
<1>7. Watching'
  BY <1>2, <1>3 DEF Watching, fileVars, TypeInv
<1>8. Leads(v)'
  <2>1. v.back = <<>> /\ v.pc = "command"
    BY <1>1, <1>3 DEF Leads, Awaited, Expecting
  <2>2. Awaited(v)'
    BY <1>3, <1>4, <2>1 DEF Awaited
  <2>3. Expecting(v)'
    BY <1>3, <2>1 DEF Expecting
  <2>4. Installing(v)'
    BY <1>2, <1>3 DEF Installing, Watching, fileVars
  <2> QED  BY <2>2, <2>3, <2>4 DEF Leads
<1> QED  BY <1>1, <1>3, <1>5, <1>6, <1>7, <1>8, LineStays

\* The program is stopped, and nothing was under way.
LEMMA QuitStep == ASSUME UInv, Quit, ~astray' PROVE UInv'
<1>1. PICK v \in States(board) : Walk(board, Avr, line, v) /\ Leads(v)
  BY DEF UInv
<1>2. TypeInv /\ Watching
  BY DEF UInv
<1>3. /\ d_pc # "off" /\ d_pc \notin {"header", "receive"} /\ ~(d_pc = "copy" /\ bytes_left > 0)
      /\ d_pc' = "off" /\ st' = [mtime |-> 0, size |-> 0] /\ told' = 0 /\ loaded_file_version' = 0
      /\ bytes_left' = 0 /\ got' = <<>>
      /\ UNCHANGED <<board, fileVars, use, line, back, avrVars>>
  BY DEF Quit, Gone
<1>4. v.pc = "command" /\ v.back = <<>>
  <2>1. d_pc = "copy" => bytes_left = 0
    BY <1>2, <1>3 DEF TypeInv
  <2> QED  BY <1>1, <1>3, <2>1 DEF Leads, Awaited, Expecting
<1>5. TypeInv' /\ Watching' /\ Leads(v)'
  BY <1>2, <1>3, <1>4, Ended
<1> QED  BY <1>1, <1>3, <1>5, LineStays

\* The watcher looks at the file.
LEMMA StatStep == ASSUME UInv, stat PROVE UInv'
<1>1. PICK v \in States(board) : Walk(board, Avr, line, v) /\ Leads(v)
  BY DEF UInv
<1>2. TypeInv /\ Watching
  BY DEF UInv
<1>3. /\ d_pc = "stat" /\ st' = [mtime |-> mtime, size |-> Len(content)]
      /\ d_pc' = IF mtime # loaded_file_version THEN "sleep" ELSE "rest"
      /\ UNCHANGED <<board, fileVars, use, loaded_file_version, bytes_left, got, line, back, avrVars, told>>
  BY DEF stat, histVars
<1>4. st'.mtime = mtime /\ st'.size = Len(content) /\ content' = content /\ mtime' = mtime
  BY <1>3 DEF fileVars
<1>5. TypeInv'
  <2>1. Len(content) \in Nat /\ mtime \in Nat
    BY <1>2, ContentType DEF TypeInv
  <2>2. st' \in [mtime : Nat, size : Nat]
    BY <1>3, <2>1
  <2> QED  BY <1>2, <1>3, <2>2 DEF TypeInv, fileVars, Pcs
<1>6. Watching'
  <2>1. mtime \in Nat
    BY <1>2 DEF TypeInv
  <2> QED  BY <1>2, <1>3, <1>4, <2>1 DEF Watching, fileVars
<1>7. Leads(v)'
  BY <1>1, <1>3, <1>4 DEF Leads, Awaited, Expecting, Installing
<1> QED  BY <1>1, <1>3, <1>5, <1>6, <1>7, LineStays

\* A second passes.
LEMMA SecondStep == ASSUME UInv, Second PROVE UInv'
<1>1. PICK v \in States(board) : Walk(board, Avr, line, v) /\ Leads(v)
  BY DEF UInv
<1>2. TypeInv /\ Watching
  BY DEF UInv
<1>3. /\ (d_pc = "rest" /\ d_pc' = "stat") \/ (d_pc = "sleep" /\ d_pc' = "open")
      /\ young' = FALSE
      /\ UNCHANGED <<board, content, mtime, use, st, loaded_file_version, bytes_left, got, line, back, avrVars, told>>
  <2>1. DOMAIN Awake = {"rest", "sleep"} /\ Awake["rest"] = "stat" /\ Awake["sleep"] = "open"
    BY DEF Awake
  <2> QED  BY <2>1 DEF Second, histVars
<1>4. TypeInv'
  BY <1>2, <1>3 DEF TypeInv, Pcs
<1>5. Watching'
  BY <1>2, <1>3 DEF Watching
<1>6. Leads(v)'
  BY <1>1, <1>3 DEF Leads, Awaited, Expecting, Installing
<1> QED  BY <1>1, <1>3, <1>4, <1>5, <1>6, LineStays

\* The clock of the file system ticks.
LEMMA ClockStep == ASSUME UInv, Clock PROVE UInv'
<1>1. PICK v \in States(board) : Walk(board, Avr, line, v) /\ Leads(v)
  BY DEF UInv
<1>2. TypeInv /\ Watching
  BY DEF UInv
<1>3. young' = FALSE /\ UNCHANGED <<board, content, mtime, dudeVars, line, back, avrVars, told>>
  BY DEF Clock, SecondOver, histVars
<1>4. TypeInv'
  BY <1>2, <1>3 DEF TypeInv, dudeVars
<1>5. Watching'
  BY <1>2, <1>3 DEF Watching, dudeVars
<1>6. Leads(v)'
  <2>1. UNCHANGED <<d_pc, use, st, loaded_file_version, bytes_left, got>>
    BY <1>3 DEF dudeVars
  <2>2. Awaited(v)' /\ Expecting(v)'
    BY <1>1, <1>3, <2>1 DEF Leads, Awaited, Expecting, request
  <2>3. Installing(v) => Installing(v)'
    BY <1>3, <2>1 DEF Installing
  <2> QED  BY <1>1, <2>2, <2>3 DEF Leads
<1> QED  BY <1>1, <1>3, <1>4, <1>5, <1>6, LineStays

\* A file that is saved has another time than what dude knows, unless that second is not
\* over; and then dude does not go by it.
LEMMA EditStep == ASSUME UInv, Edit PROVE UInv'
<1>1. PICK v \in States(board) : Walk(board, Avr, line, v) /\ Leads(v)
  BY DEF UInv
<1>2. TypeInv /\ Watching
  BY DEF UInv
<1>3. PICK f \in Files : Save(f)
  BY DEF Edit
<1>4. UNCHANGED <<board, dudeVars, line, back, avrVars, told>>
  BY DEF Edit, histVars
<1>5. /\ content' = f /\ young' = TRUE /\ f \in Files
      /\ IF young THEN mtime' = mtime ELSE mtime' = mtime + 1
  BY <1>3 DEF Save
<1>6. mtime \in Nat /\ mtime' \in Nat /\ mtime <= mtime' /\ loaded_file_version \in Nat /\ st.mtime \in Nat
  BY <1>2, <1>5 DEF TypeInv
<1>7. TypeInv'
  BY <1>2, <1>4, <1>5, <1>6 DEF TypeInv, dudeVars
<1>8. UNCHANGED <<d_pc, use, st, loaded_file_version, bytes_left, got>>
  BY <1>4 DEF dudeVars
<1>9. d_pc \in {"open", "copy", "reset"} => st.mtime # mtime'
  <2> SUFFICES ASSUME d_pc \in {"open", "copy", "reset"}, st.mtime = mtime' PROVE FALSE
    OBVIOUS
  <2>1. st.mtime <= mtime /\ (st.mtime = mtime => ~young)
    BY <1>2 DEF Watching
  <2> QED  BY <1>5, <1>6, <2>1
<1>10. d_pc \in {"rest", "stat"} => loaded_file_version # mtime'
  <2> SUFFICES ASSUME d_pc \in {"rest", "stat"}, loaded_file_version = mtime' PROVE FALSE
    OBVIOUS
  <2>1. loaded_file_version <= mtime /\ (loaded_file_version = mtime => ~young)
    BY <1>2 DEF Watching
  <2> QED  BY <1>5, <1>6, <2>1
<1>11. Watching'
  <2>1. 1 <= mtime' /\ loaded_file_version' <= mtime' /\ (d_pc' = "off" => loaded_file_version' = 0)
    BY <1>2, <1>6, <1>8 DEF Watching
  <2>2. d_pc' \in {"sleep", "open", "copy", "reset"} => st'.mtime <= mtime'
    BY <1>2, <1>6, <1>8 DEF Watching
  <2>3. d_pc' \in {"copy", "reset"} => told' = st'.size
    BY <1>2, <1>4, <1>8 DEF Watching
  <2> QED  BY <1>8, <1>9, <1>10, <2>1, <2>2, <2>3 DEF Watching
<1>12. Leads(v)'
  <2>1. Awaited(v)' /\ Expecting(v)'
    BY <1>1, <1>4, <1>8 DEF Leads, Awaited, Expecting, request
  <2>2. Installing(v)'
    BY <1>8, <1>9, <1>10 DEF Installing
  <2> QED  BY <2>1, <2>2 DEF Leads
<1> QED  BY <1>1, <1>4, <1>7, <1>11, <1>12, LineStays

--------------------------------------------------------------------------------
(* dude sends *)

Message(k, c) == [byte |-> c, kind |-> k]

\* A byte sent for one purpose is a message.
LEMMA MessageType ==
    ASSUME NEW k \in Kinds, NEW c \in Byte
    PROVE  Message(k, c) \in Messages /\ Message(k, c).byte = c /\ Message(k, c).kind = k
BY DEF Message, Messages

\* One byte is sent.
LEMMA SendOne ==
    ASSUME NEW k \in Kinds, NEW c \in Byte, line \in Seq(Messages), send(Meant(k, <<c>>))
    PROVE  line' = Append(line, Message(k, c))
<1>1. Meant(k, <<c>>) = <<Message(k, c)>>
  BY DEF Meant, Message
<1>2. line' = line \o <<Message(k, c)>>
  BY <1>1 DEF send
<1>3. Message(k, c) \in Messages
  BY MessageType
<1> HIDE DEF Message
<1> QED  BY <1>2, <1>3, AppendIsConcat

\* Four bytes, written out.
LEMMA AsTuple == ASSUME NEW s \in Seq(Nat), Len(s) = 4 PROVE s = <<s[1], s[2], s[3], s[4]>>
OBVIOUS

\* Two pairs.
LEMMA Pairs ==
    ASSUME NEW a \in Nat, NEW b \in Nat, NEW c \in Nat, NEW d \in Nat
    PROVE  <<a, b>> \o <<c, d>> = <<a, b, c, d>>
<1> DEFINE x == <<a, b>>
           y == <<c, d>>
           z == x \o y
<1>1. x \in Seq(Nat) /\ Len(x) = 2 /\ x[1] = a /\ x[2] = b
  OBVIOUS
<1>2. y \in Seq(Nat) /\ Len(y) = 2 /\ y[1] = c /\ y[2] = d
  OBVIOUS
<1> HIDE DEF x, y
<1>3. x \in Seq(Nat) /\ y \in Seq(Nat)
  BY <1>1, <1>2
<1>4. z \in Seq(Nat) /\ Len(z) = Len(x) + Len(y)
  BY <1>3
<1>5. \A i \in 1 .. Len(x) : z[i] = x[i]
  BY <1>3
<1>6. \A i \in 1 .. Len(y) : z[Len(x) + i] = y[i]
  BY <1>3
<1> HIDE DEF z
<1>7. z[1] = a /\ z[2] = b /\ z[2 + 1] = c /\ z[2 + 2] = d
  BY <1>1, <1>2, <1>5, <1>6
<1>8. Len(z) = 4
  BY <1>1, <1>2, <1>4
<1>9. z = <<z[1], z[2], z[3], z[4]>>
  BY <1>4, <1>8, AsTuple
<1>10. z = <<a, b, c, d>>
  BY <1>7, <1>9
<1> QED  BY <1>10 DEF x, y, z

\* The four bytes that follow the command of an upload.
LEMMA Header ==
    ASSUME NEW f \in Seq(Byte), 2 <= Len(f), NEW n \in Nat, n < Word
    PROVE  /\ f[1] \in Byte /\ f[2] \in Byte /\ low(n) \in Byte /\ high(n) \in Byte
           /\ SubSeq(f, 1, 2) \o word(n) = <<f[1], f[2], low(n), high(n)>>
<1>1. f[1] \in Byte /\ f[2] \in Byte
  OBVIOUS
<1>2. low(n) \in Byte /\ high(n) \in Byte
  BY WordOf
<1>3. SubSeq(f, 1, 2) = <<f[1], f[2]>>
  <2>1. SubSeq(f, 1, 2) \in Seq(Byte) /\ Len(SubSeq(f, 1, 2)) = 2
    OBVIOUS
  <2>2. SubSeq(f, 1, 2)[1] = f[1] /\ SubSeq(f, 1, 2)[2] = f[2]
    OBVIOUS
  <2>3. \A s \in Seq(Byte) : Len(s) = 2 => s = <<s[1], s[2]>>
    OBVIOUS
  <2> QED  BY <2>1, <2>2, <2>3
<1>4. \A x \in Byte : x \in Nat
  BY Constants
<1>5. <<f[1], f[2]>> \o word(n) = <<f[1], f[2], low(n), high(n)>>
  <2>1. f[1] \in Nat /\ f[2] \in Nat /\ low(n) \in Nat /\ high(n) \in Nat
    BY <1>1, <1>2, <1>4, Zenon
  <2> HIDE DEF low, high
  <2> QED  BY <2>1, Pairs, ZenonT(60) DEF word
<1> QED  BY <1>1, <1>2, <1>3, <1>5

\* The command and these four.
LEMMA SendHeader ==
    ASSUME NEW a \in Byte, NEW b \in Byte, NEW c \in Byte, NEW d \in Byte, line \in Seq(Messages),
           send(Meant("command", <<UPLOAD>>) \o Meant("parameters", <<a, b, c, d>>))
    PROVE  line' = Append(Append(Append(Append(Append(line, Message("command", UPLOAD)),
                                               Message("parameters", a)), Message("parameters", b)),
                                 Message("parameters", c)), Message("parameters", d))
<1> DEFINE k == "parameters"
           m == Message("command", UPLOAD)
           t == <<Message(k, a), Message(k, b), Message(k, c), Message(k, d)>>
<1>1. Meant("command", <<UPLOAD>>) = <<m>>
  BY DEF Meant, Message
<1>2. Meant("parameters", <<a, b, c, d>>) = t
  BY DEF Meant, Message
<1>3. UPLOAD \in Byte /\ "command" \in Kinds /\ "parameters" \in Kinds
  BY Constants DEF Letters, Kinds
<1>4. /\ m \in Messages /\ Message(k, a) \in Messages /\ Message(k, b) \in Messages
      /\ Message(k, c) \in Messages /\ Message(k, d) \in Messages
  BY <1>3, MessageType, Zenon
<1>5. line' = line \o (<<m>> \o t)
  BY <1>1, <1>2 DEF send
<1>6. <<m>> \in Seq(Messages) /\ t \in Seq(Messages)
  BY <1>4
<1>7. line' = (line \o <<m>>) \o t
  BY <1>5, <1>6, ConcatAssociative
<1>8. line \o <<m>> = Append(line, m) /\ Append(line, m) \in Seq(Messages)
  BY <1>4
<1>9. \A s \in Seq(Messages), x \in Messages, y \in Messages, z \in Messages, w \in Messages :
         s \o <<x, y, z, w>> = Append(Append(Append(Append(s, x), y), z), w)
  OBVIOUS
<1> QED  BY <1>4, <1>7, <1>8, <1>9

\* The state of an AVR that waits for a command, and what it makes of a header.
LEMMA TakesHeader ==
    ASSUME NEW b, NEW u, NEW v, NEW s \in Seq(Messages), Walk(b, u, s, v),
           v.pc = "command", v.back = <<>>,
           NEW c1 \in Byte, NEW c2 \in Byte, NEW c3 \in Byte, NEW c4 \in Byte
    PROVE  LET k == "parameters"
               t == Append(Append(Append(Append(Append(s, Message("command", UPLOAD)), Message(k, c1)),
                                         Message(k, c2)), Message(k, c3)), Message(k, c4))
               n == Int16(c3, c4)
               x == State(IF n = 0 THEN "command" ELSE "data", UPLOAD, <<>>, Int16(c1, c2), n, v.rom,
                          v.fresh, <<>>)
           IN t \in Seq(Messages) /\ Walk(b, u, t, x) /\ x \in States(b)
<1> DEFINE k == "parameters"
           m0 == Message("command", UPLOAD)
           m1 == Message(k, c1)
           m2 == Message(k, c2)
           m3 == Message(k, c3)
           m4 == Message(k, c4)
           At(ps) == State("parameters", UPLOAD, ps, v.head, v.bytes, v.rom, v.fresh, <<>>)
<1>1. UPLOAD \in Byte /\ "command" \in Kinds /\ k \in Kinds
  BY Constants DEF Letters, Kinds
<1>2. /\ m0 \in Messages /\ m0.byte = UPLOAD /\ m0.kind = "command"
      /\ m1 \in Messages /\ m1.byte = c1 /\ m1.kind = k
      /\ m2 \in Messages /\ m2.byte = c2 /\ m2.kind = k
      /\ m3 \in Messages /\ m3.byte = c3 /\ m3.kind = k
      /\ m4 \in Messages /\ m4.byte = c4 /\ m4.kind = k
  BY <1>1, MessageType, Zenon
<1>3. \A ps : /\ At(ps).pc = k /\ At(ps).back = <<>> /\ At(ps).command = UPLOAD
              /\ At(ps).parameters = ps /\ At(ps).head = v.head /\ At(ps).bytes = v.bytes
              /\ At(ps).rom = v.rom /\ At(ps).fresh = v.fresh
  BY DEF State
<1> HIDE DEF m0, m1, m2, m3, m4, At
<1>4. After(b, v, m0.byte) = At(<<>>)
  BY <1>2 DEF After, AfterCommand, At
<1>5. ASSUME NEW ps, NEW m, m.kind = k, Len(ps) < 3, Len(ps) <= 3
      PROVE  Fine(b, At(ps), m) /\ After(b, At(ps), m.byte) = At(Append(ps, m.byte))
  <2>1. Fine(b, At(ps), m)
    BY <1>3, <1>5 DEF Fine
  <2>2. After(b, At(ps), m.byte) = AfterParameter(At(ps), m.byte)
    BY <1>3 DEF After
  <2>3. AfterParameter(At(ps), m.byte) = State("parameters", UPLOAD, Append(ps, m.byte), v.head,
                                               v.bytes, v.rom, v.fresh, <<>>)
    BY <1>3, <1>5 DEF AfterParameter
  <2> QED  BY <2>1, <2>2, <2>3 DEF At
<1> DEFINE p1 == Append(<<>>, c1)
           p2 == Append(p1, c2)
           p3 == Append(p2, c3)
<1>6. <<>> \in Seq(Byte) /\ Len(<<>>) = 0 /\ Len(<<>>) < 3 /\ Len(<<>>) <= 3
  OBVIOUS
<1>7. p1 \in Seq(Byte) /\ Len(p1) = 1 /\ p1[1] = c1 /\ Len(p1) < 3 /\ Len(p1) <= 3
  BY <1>6
<1> HIDE DEF p1
<1>8. p2 \in Seq(Byte) /\ Len(p2) = 2 /\ p2[1] = c1 /\ p2[2] = c2 /\ Len(p2) < 3 /\ Len(p2) <= 3
  <2>1. p1 \in Seq(Byte)
    BY <1>7
  <2>2. /\ p2 \in Seq(Byte) /\ Len(p2) = Len(p1) + 1 /\ p2[Len(p1) + 1] = c2
        /\ \A i \in 1 .. Len(p1) : p2[i] = p1[i]
    BY <2>1, AppendProperties
  <2> HIDE DEF p2
  <2> QED  BY <1>7, <2>2
<1> HIDE DEF p2
<1>9. p3 \in Seq(Byte) /\ Len(p3) = 3 /\ p3[1] = c1 /\ p3[2] = c2 /\ p3[3] = c3 /\ Len(p3) <= 3
  <2>1. p2 \in Seq(Byte)
    BY <1>8
  <2>2. /\ p3 \in Seq(Byte) /\ Len(p3) = Len(p2) + 1 /\ p3[Len(p2) + 1] = c3
        /\ \A i \in 1 .. Len(p2) : p3[i] = p2[i]
    BY <2>1, AppendProperties
  <2> HIDE DEF p3
  <2> QED  BY <1>8, <2>2
<1> HIDE DEF p3
<1> DEFINE s0 == Append(s, m0)
           s1 == Append(s0, m1)
           s2 == Append(s1, m2)
           s3 == Append(s2, m3)
           s4 == Append(s3, m4)
<1>10. s0 \in Seq(Messages) /\ Walk(b, u, s0, At(<<>>))
  <2>1. Fine(b, v, m0)
    BY <1>2 DEF Fine
  <2> QED  BY <1>2, <1>4, <2>1, WalkOn
<1> HIDE DEF s0
<1>11. s1 \in Seq(Messages) /\ Walk(b, u, s1, At(p1))
  <2>1. Fine(b, At(<<>>), m1) /\ After(b, At(<<>>), m1.byte) = At(p1)
    BY <1>2, <1>5, <1>6, Zenon DEF p1
  <2> QED  BY <1>2, <1>10, <2>1, WalkOn
<1> HIDE DEF s1
<1>12. s2 \in Seq(Messages) /\ Walk(b, u, s2, At(p2))
  <2>1. Fine(b, At(p1), m2) /\ After(b, At(p1), m2.byte) = At(p2)
    BY <1>2, <1>5, <1>7, Zenon DEF p2
  <2> QED  BY <1>2, <1>11, <2>1, WalkOn
<1> HIDE DEF s2
<1>13. s3 \in Seq(Messages) /\ Walk(b, u, s3, At(p3))
  <2>1. Fine(b, At(p2), m3) /\ After(b, At(p2), m3.byte) = At(p3)
    BY <1>2, <1>5, <1>8, Zenon DEF p3
  <2> QED  BY <1>2, <1>12, <2>1, WalkOn
<1> HIDE DEF s3
<1> DEFINE n == Int16(c3, c4)
           x == State(IF n = 0 THEN "command" ELSE "data", UPLOAD, <<>>, Int16(c1, c2), n, v.rom,
                      v.fresh, <<>>)
<1>14. Fine(b, At(p3), m4)
  <2>1. Len(At(p3).parameters) <= 3
    BY <1>3, <1>9, Zenon
  <2> QED  BY <1>2, <1>3, <2>1 DEF Fine
<1>15. After(b, At(p3), m4.byte) = x
  <2>1. ~(Len(p3) < 3)
    BY <1>9
  <2>2. After(b, At(p3), m4.byte) = AfterParameter(At(p3), c4)
    BY <1>2, <1>3 DEF After
  <2> QED  BY <1>3, <1>9, <2>1, <2>2 DEF AfterParameter
<1>16. s4 \in Seq(Messages) /\ Walk(b, u, s4, x) /\ x \in States(b)
  BY <1>2, <1>13, <1>14, <1>15, WalkOn
<1> QED  BY <1>16 DEF s0, s1, s2, s3, m0, m1, m2, m3, m4

\* More bytes on the line, that lead to state x.
LEMMA LineGrows ==
    ASSUME NEW x \in States(board), Walk(board, Avr, line', x), UNCHANGED <<board, back, avrVars>>,
           TypeInv', Watching', Leads(x)'
    PROVE  UInv'
<1>1. Avr' = Avr /\ board' = board
  BY DEF Avr, avrVars
<1> QED  BY <1>1 DEF UInv

\* The header of an upload, unless the file is refused.
LEMMA OpenStep == ASSUME UInv, OpenFile PROVE UInv'
<1>1. PICK v \in States(board) : Walk(board, Avr, line, v) /\ Leads(v)
  BY DEF UInv
<1>2. TypeInv /\ Watching /\ line \in Seq(Messages) /\ Word \in Nat
  BY Constants DEF UInv, TypeInv
<1> DEFINE wanted == bytes_to_load(st.size)
<1>3. /\ d_pc = "open" /\ told' = st.size
      /\ UNCHANGED <<board, fileVars, use, st, loaded_file_version, got, back, avrVars>>
  BY DEF OpenFile
<1>4. UNCHANGED <<content, mtime, young>>
  BY <1>3 DEF fileVars
<1>5. content \in Seq(Byte) /\ Len(content) \in Nat
  BY <1>2, ContentType
<1>6. st.size \in Nat /\ wanted \in Nat /\ wanted < Word
  BY <1>2, ToLoad DEF TypeInv
<1>7. v.pc = "command" /\ v.back = <<>>
  BY <1>1, <1>3 DEF Leads, Awaited, Expecting
<1>8. bytes_to_load(st.size)' = wanted /\ bytes_to_load(told)' = wanted
  BY <1>3
<1>9. CASE Refused(content, wanted)
  <2>1. d_pc' = "reset" /\ UNCHANGED <<bytes_left, line>>
    BY <1>9 DEF OpenFile
  <2>2. TypeInv'
    BY <1>2, <1>3, <1>4, <2>1 DEF TypeInv, Pcs
  <2>3. Watching'
    BY <1>2, <1>3, <1>4, <2>1 DEF Watching
  <2>4. Kept(board, content, wanted, v.rom)
    BY <1>9 DEF Kept
  <2>5. Leads(v)'
    <3>1. Awaited(v)' /\ Expecting(v)'
      BY <1>3, <1>7, <2>1 DEF Awaited, Expecting
    <3>2. Installing(v)'
      BY <1>3, <1>4, <1>8, <2>1, <2>4 DEF Installing
    <3> QED  BY <3>1, <3>2 DEF Leads
  <2> QED  BY <1>1, <1>3, <2>1, <2>2, <2>3, <2>5, LineStays
<1>10. CASE ~Refused(content, wanted)
  <2>1. /\ send(Meant("command", <<UPLOAD>>) \o Meant("parameters", SubSeq(content, 1, 2) \o word(wanted)))
        /\ bytes_left' = wanted /\ d_pc' = "copy"
    BY <1>10 DEF OpenFile
  <2>2. 2 <= Len(content) /\ wanted \in Nat /\ wanted < Word
    BY <1>5, <1>6, <1>10 DEF Refused, TooShort
  <2> DEFINE c1 == content[1]
             c2 == content[2]
             c3 == low(wanted)
             c4 == high(wanted)
             k == "parameters"
             t == Append(Append(Append(Append(Append(line, Message("command", UPLOAD)), Message(k, c1)),
                                       Message(k, c2)), Message(k, c3)), Message(k, c4))
  <2> HIDE DEF wanted
  <2>3. /\ c1 \in Byte /\ c2 \in Byte /\ c3 \in Byte /\ c4 \in Byte
        /\ SubSeq(content, 1, 2) \o word(wanted) = <<c1, c2, c3, c4>>
    BY <1>5, <2>2, Header
  <2>4. Int16(c3, c4) = wanted /\ Int16(c1, c2) = base_address(content)
    BY <2>2, WordOf DEF base_address
  <2> HIDE DEF c1, c2, c3, c4
  <2>5. line' = t
    <3>1. send(Meant("command", <<UPLOAD>>) \o Meant("parameters", <<c1, c2, c3, c4>>))
      BY <2>1, <2>3
    <3> QED  BY <1>2, <2>3, <3>1, SendHeader
  <2>6. t \in Seq(Messages)
    BY <1>1, <1>2, <1>7, <2>3, TakesHeader
  <2>7. PICK x \in States(board) :
           /\ Walk(board, Avr, t, x)
           /\ x.pc = (IF wanted = 0 THEN "command" ELSE "data") /\ x.bytes = wanted /\ x.rom = v.rom
           /\ x.head = base_address(content) /\ x.back = <<>>
    <3> DEFINE z == State(IF wanted = 0 THEN "command" ELSE "data", UPLOAD, <<>>, base_address(content),
                          wanted, v.rom, v.fresh, <<>>)
    <3>1. Walk(board, Avr, t, z) /\ z \in States(board)
      BY <1>1, <1>2, <1>7, <2>3, <2>4, TakesHeader
    <3>2. /\ z.pc = (IF wanted = 0 THEN "command" ELSE "data") /\ z.bytes = wanted /\ z.rom = v.rom
          /\ z.head = base_address(content) /\ z.back = <<>>
      BY DEF State
    <3> HIDE DEF z
    <3> QED  BY <3>1, <3>2
  <2> HIDE DEF t
  <2>8. TypeInv'
    BY <1>2, <1>3, <1>4, <2>1, <2>2, <2>5, <2>6 DEF TypeInv, Pcs
  <2>9. Watching'
    BY <1>2, <1>3, <1>4, <2>1 DEF Watching
  <2>10. Awaited(x)'
    BY <2>1, <2>7 DEF Awaited
  <2>11. Expecting(x)'
    <3>1. wanted > 0 \/ wanted = 0
      BY <2>2
    <3> QED  BY <1>3, <1>8, <2>1, <2>2, <2>7, <3>1 DEF Expecting
  <2>12. Installing(x)'
    <3>1. wanted - wanted = 0 /\ 2 + (wanted - wanted) <= Len(content)
      BY <1>5, <2>2
    <3>2. Loaded(board, content, x.rom, 0)
      BY DEF Loaded
    <3>3. base_address(content) + 0 = base_address(content)
      <4>1. base_address(content) \in Nat
        BY <2>3, <2>4, Int16Type, Constants
      <4> QED  BY <4>1
    <3> QED  BY <1>3, <1>4, <1>8, <1>10, <2>1, <2>7, <3>1, <3>2, <3>3 DEF Installing
  <2>13. Leads(x)'
    BY <2>10, <2>11, <2>12 DEF Leads
  <2> QED  BY <1>3, <2>5, <2>7, <2>8, <2>9, <2>13, LineGrows
<1> QED  BY <1>9, <1>10

\* A byte of the image: it goes where it belongs, and does not overwrite another.
LEMMA CopyStep == ASSUME UInv, CopyByte PROVE UInv'
<1>1. PICK v \in States(board) : Walk(board, Avr, line, v) /\ Leads(v)
  BY DEF UInv
<1>2. TypeInv /\ Watching /\ line \in Seq(Messages) /\ Word \in Nat /\ bytes_left \in Nat
  BY Constants DEF UInv, TypeInv
<1>3. /\ d_pc = "copy" /\ bytes_left > 0 /\ offset <= Len(content) /\ send(Meant("data", <<content[offset]>>))
      /\ bytes_left' = bytes_left - 1
      /\ UNCHANGED <<board, fileVars, d_pc, use, st, loaded_file_version, got, back, avrVars, told>>
  BY DEF CopyByte, histVars
<1>4. UNCHANGED <<content, mtime, young>>
  BY <1>3 DEF fileVars
<1>5. content \in Seq(Byte) /\ Len(content) \in Nat
  BY <1>2, ContentType
<1> DEFINE n == bytes_to_load(st.size)
<1>6. /\ v.pc = "data" /\ v.bytes = bytes_left /\ v.back = <<>> /\ bytes_left <= n
  BY <1>1, <1>2, <1>3 DEF Leads, Awaited, Expecting
<1>7. n \in Nat /\ n < Word /\ bytes_to_load(st.size)' = n
  BY <1>2, <1>3, ToLoad DEF TypeInv
<1>8. offset = 3 + n - bytes_left
  BY DEF offset
<1> HIDE DEF n
<1>9. offset \in 1 .. Len(content)
  BY <1>2, <1>3, <1>5, <1>6, <1>7, <1>8
<1>10. PICK c \in Byte : c = content[offset]
  BY <1>5, <1>9
<1>11. PICK m \in Messages : m = Message("data", c) /\ m.byte = c /\ m.kind = "data"
  BY MessageType DEF Kinds
<1>12. line' = Append(line, m)
  <2>1. "data" \in Kinds /\ send(Meant("data", <<c>>))
    BY <1>3, <1>10 DEF Kinds
  <2> QED  BY <1>2, <1>11, <2>1, SendOne
<1>13. Fine(board, v, m)
  BY <1>3, <1>6, <1>11 DEF Fine
<1>14. PICK x \in States(board) : Walk(board, Avr, line', x) /\ x = After(board, v, c)
  BY <1>1, <1>2, <1>11, <1>12, <1>13, WalkOn
<1>15. /\ x.pc = (IF v.bytes = 1 THEN "command" ELSE "data") /\ x.bytes = v.bytes - 1 /\ x.back = <<>>
       /\ x.head = following(v.head) /\ x.rom = [v.rom EXCEPT ![CellOf(board, v.head)] = c]
  BY <1>6, <1>14 DEF After, AfterData, State
<1>16. TypeInv'
  <2>1. line' \in Seq(Messages)
    BY <1>2, <1>12
  <2>2. bytes_left' \in Nat
    BY <1>2, <1>3
  <2> QED  BY <1>2, <1>3, <1>4, <2>1, <2>2 DEF TypeInv
<1>17. Watching'
  BY <1>2, <1>3, <1>4 DEF Watching
<1>18. Awaited(x)' /\ Expecting(x)'
  <2>1. Awaited(x)'
    BY <1>3, <1>15 DEF Awaited
  <2>2. bytes_left' = 0 <=> bytes_left = 1
    BY <1>2, <1>3
  <2>4. bytes_left' <= n
    BY <1>2, <1>3, <1>6, <1>7
  <2>5. x.pc = IF bytes_left' = 0 THEN "command" ELSE "data"
    BY <1>6, <1>15, <2>2
  <2>6. x.bytes = bytes_left'
    BY <1>3, <1>6, <1>15
  <2> QED  BY <1>3, <1>7, <2>1, <2>4, <2>5, <2>6 DEF Expecting
<1>19. Installing(x)'
  <2>1. SUFFICES ASSUME st.mtime = mtime PROVE Installing(x)'
    BY <1>3, <1>4 DEF Installing
  <2> DEFINE base == base_address(content)
             k == n - bytes_left
  <2>2. /\ ~Refused(content, n) /\ 2 + k <= Len(content)
        /\ v.head = base + k /\ Loaded(board, content, v.rom, k)
    BY <1>1, <1>2, <1>3, <2>1 DEF Leads, Installing, n
  <2>3. base \in Nat
    <3>1. 2 <= Len(content)
      BY <1>5, <2>2 DEF Refused, TooShort
    <3>2. content[1] \in Byte /\ content[2] \in Byte
      BY <1>5, <3>1
    <3> QED  BY <3>2, Int16Type, Constants DEF base_address
  <2>4. base + n <= Word
    <3>1. ~(Word < base + n)
      BY <2>2 DEF Refused, Overflows
    <3> HIDE DEF base
    <3> QED  BY <1>2, <1>7, <2>3, <3>1
  <2> HIDE DEF base
  <2>6. k \in Nat /\ k < n /\ n - bytes_left' = k + 1
    BY <1>2, <1>3, <1>6, <1>7
  <2>7. offset = k + 3
    BY <1>2, <1>7, <1>8
  <2> HIDE DEF k
  <2>8. v.head \in Nat /\ v.head < Word
    BY <1>2, <1>7, <2>2, <2>3, <2>4, <2>6
  <2>9. bytes_left' > 0 => x.head = base + (k + 1)
    <3> SUFFICES ASSUME bytes_left' > 0 PROVE x.head = base + (k + 1)
      OBVIOUS
    <3>1. k + 1 < n
      BY <1>2, <1>3, <1>7, <2>6
    <3>2. v.head + 1 = base + (k + 1) /\ v.head + 1 \in Nat /\ v.head + 1 < Word
      BY <1>2, <1>7, <2>2, <2>3, <2>4, <2>6, <3>1
    <3>3. (v.head + 1) % Word = v.head + 1
      BY <1>2, <3>2
    <3> QED  BY <1>15, <3>2, <3>3 DEF following
  <2>10. Loaded(board, content, x.rom, k + 1)
    <3>1. SUFFICES ASSUME NEW a \in ShownOf(board), a - base \in 0 .. (k + 1) - 1
                   PROVE  x.rom[CellOf(board, a)] = content[a - base + 3]
      BY DEF Loaded, base
    <3>2. RomSize \in Nat /\ RomSize <= Word /\ a \in Nat /\ a < Word
      BY <1>2, <3>1, Constants DEF ShownOf, Address
    <3>3. CellOf(board, a) \in CellsOf(board) /\ v.rom \in [CellsOf(board) -> Byte]
      BY CellsDiffer, StateType
    <3>4. CASE a = v.head
      <4>1. a - base = k
        BY <2>2, <2>3, <2>6, <3>4
      <4>2. content[a - base + 3] = c
        BY <1>10, <2>7, <4>1
      <4>3. x.rom[CellOf(board, a)] = c
        BY <1>15, <3>3, <3>4
      <4> QED  BY <4>2, <4>3
    <3>5. CASE a # v.head
      <4>1. a - base \in 0 .. k - 1 /\ a < v.head
        BY <2>2, <2>3, <2>6, <3>1, <3>2, <3>5
      <4>2. v.head \in ShownOf(board)
        BY <1>2, <2>8, <3>1, <3>2, <4>1 DEF ShownOf, Address
      <4>3. CellOf(board, a) # CellOf(board, v.head)
        BY <3>1, <3>5, <4>2, CellsDiffer
      <4>4. x.rom[CellOf(board, a)] = v.rom[CellOf(board, a)]
        BY <1>15, <3>3, <4>3
      <4>5. v.rom[CellOf(board, a)] = content[a - base + 3]
        BY <2>2, <3>1, <4>1 DEF Loaded, base
      <4> QED  BY <4>4, <4>5
    <3> QED  BY <3>4, <3>5
  <2>11. 2 + (k + 1) <= Len(content)
    BY <1>3, <1>5, <2>6, <2>7
  <2> QED  BY <1>3, <1>4, <1>7, <2>2, <2>6, <2>9, <2>10, <2>11 DEF Installing, base
<1>20. Leads(x)'
  BY <1>18, <1>19 DEF Leads
<1> QED  BY <1>3, <1>14, <1>16, <1>17, <1>20, LineGrows

\* The end of the image, unless the file ends before.
LEMMA EndStep == ASSUME UInv, EndCopy, ~astray' PROVE UInv'
<1>1. PICK v \in States(board) : Walk(board, Avr, line, v) /\ Leads(v)
  BY DEF UInv
<1>2. TypeInv /\ Watching /\ bytes_left \in Nat
  BY DEF UInv, TypeInv
<1>3. /\ d_pc = "copy" /\ d_pc' = "reset" /\ ~(bytes_left > 0)
      /\ UNCHANGED <<board, fileVars, use, st, loaded_file_version, bytes_left, got, line, back, avrVars, told>>
  BY DEF EndCopy
<1>4. UNCHANGED <<content, mtime, young>>
  BY <1>3 DEF fileVars
<1>5. bytes_left = 0
  BY <1>2, <1>3
<1>6. v.pc = "command" /\ v.back = <<>>
  BY <1>1, <1>3, <1>5 DEF Leads, Awaited, Expecting
<1>7. TypeInv'
  BY <1>2, <1>3, <1>4 DEF TypeInv, Pcs
<1>8. Watching'
  BY <1>2, <1>3, <1>4 DEF Watching
<1>9. Awaited(v)' /\ Expecting(v)'
  BY <1>3, <1>6 DEF Awaited, Expecting
<1>10. Installing(v)'
  <2>1. SUFFICES ASSUME st.mtime = mtime PROVE Installing(v)'
    BY <1>3, <1>4 DEF Installing
  <2> DEFINE n == bytes_to_load(st.size)
  <2>2. n \in Nat
    BY <1>2, ToLoad DEF TypeInv
  <2>3. 2 + (n - bytes_left) <= Len(content) /\ Loaded(board, content, v.rom, n - bytes_left)
    BY <1>1, <1>3, <2>1 DEF Leads, Installing
  <2> HIDE DEF n
  <2>4. n - bytes_left = n
    BY <1>5, <2>2
  <2>5. Kept(board, content, n, v.rom)
    BY <2>3, <2>4 DEF Kept
  <2> QED  BY <1>3, <1>4, <2>5 DEF Installing, n
<1>11. Leads(v)'
  BY <1>9, <1>10 DEF Leads
<1> QED  BY <1>1, <1>3, <1>7, <1>8, <1>11, LineStays

\* The 6502 is reset; dude remembers the time that the file had when it looked.
LEMMA ResetStep == ASSUME UInv, SendReset PROVE UInv'
<1>1. PICK v \in States(board) : Walk(board, Avr, line, v) /\ Leads(v)
  BY DEF UInv
<1>2. TypeInv /\ Watching /\ line \in Seq(Messages)
  BY DEF UInv, TypeInv
<1>3. /\ d_pc = "reset" /\ send(Meant("command", <<RESET>>))
      /\ loaded_file_version' = st.mtime /\ d_pc' = "rest"
      /\ UNCHANGED <<board, fileVars, use, st, bytes_left, got, back, avrVars, told>>
  BY DEF SendReset, histVars
<1>4. UNCHANGED <<content, mtime, young>>
  BY <1>3 DEF fileVars
<1>5. v.pc = "command" /\ v.back = <<>>
  BY <1>1, <1>3 DEF Leads, Awaited, Expecting
<1>6. RESET \in Byte /\ "command" \in Kinds /\ RESET # UPLOAD
  BY Constants, UploadAssumption DEF Letters, Kinds
<1>7. PICK m \in Messages : m = Message("command", RESET) /\ m.byte = RESET /\ m.kind = "command"
  BY <1>6, MessageType
<1>8. line' = Append(line, m)
  BY <1>2, <1>3, <1>6, <1>7, SendOne
<1>9. Fine(board, v, m)
  BY <1>5, <1>7 DEF Fine
<1>10. PICK x \in States(board) : Walk(board, Avr, line', x) /\ x = After(board, v, RESET)
  BY <1>1, <1>2, <1>7, <1>8, <1>9, WalkOn
<1>11. x.pc = "command" /\ x.rom = v.rom /\ x.fresh = TRUE /\ x.back = <<>>
  <2>1. x = State("command", v.command, v.parameters, v.head, v.bytes, v.rom, v.fresh \/ RESET = RESET,
                  IF board = "R1" THEN Reply(v.rom, RESET) ELSE v.back)
    BY <1>5, <1>6, <1>10 DEF After, AfterCommand
  <2>2. x.back = IF board = "R1" THEN Reply(v.rom, RESET) ELSE v.back
    BY <2>1 DEF State
  <2>3. x.pc = "command" /\ x.rom = v.rom /\ x.fresh = TRUE
    BY <2>1 DEF State
  <2> QED  BY <1>5, <2>2, <2>3, NoReply
<1>12. TypeInv'
  <2>1. line' \in Seq(Messages)
    BY <1>2, <1>8
  <2>2. st.mtime \in Nat
    BY <1>2 DEF TypeInv
  <2> QED  BY <1>2, <1>3, <1>4, <2>1, <2>2 DEF TypeInv, Pcs
<1>13. Watching'
  BY <1>2, <1>3, <1>4 DEF Watching
<1>14. Awaited(x)' /\ Expecting(x)'
  BY <1>3, <1>11 DEF Awaited, Expecting
<1>15. Installing(x)'
  <2>1. SUFFICES ASSUME st.mtime = mtime PROVE Installing(x)'
    BY <1>3, <1>4 DEF Installing
  <2>2. Kept(board, content, bytes_to_load(told), v.rom)
    BY <1>1, <1>2, <1>3, <2>1 DEF Leads, Installing, Watching
  <2> QED  BY <1>3, <1>4, <1>11, <2>2 DEF Installing
<1>16. Leads(x)'
  BY <1>14, <1>15 DEF Leads
<1> QED  BY <1>3, <1>10, <1>12, <1>13, <1>16, LineGrows

\* A download is asked for.
LEMMA DownloadStep == ASSUME UInv, Download, ~astray' PROVE UInv'
<1>1. PICK v \in States(board) : Walk(board, Avr, line, v) /\ Leads(v)
  BY DEF UInv
<1>2. TypeInv /\ Watching /\ line \in Seq(Messages)
  BY DEF UInv, TypeInv
<1>3. d_pc = "request" /\ UNCHANGED <<board, fileVars, use, st, loaded_file_version, back, avrVars, told>>
  BY DEF Download
<1>4. board = "R1" /\ use \in {"rom", "ram"} /\ v.pc = "command" /\ v.back = <<>>
  BY <1>1, <1>3 DEF Leads, Awaited, Expecting, Download, Known
<1>5. send(Meant("command", <<request>>)) /\ got' = <<>> /\ bytes_left' = 0 /\ d_pc' = "header"
  BY <1>4 DEF Download
<1>6. PICK c \in {DOWNLOAD_ROM, DOWNLOAD_RAM} : c = request
  BY DEF request
<1>7. c \in Byte /\ c \in Letters /\ "command" \in Kinds /\ c # UPLOAD /\ c # RESET
  BY Constants, UploadAssumption DEF Letters, Kinds
<1>8. PICK m \in Messages : m = Message("command", c) /\ m.byte = c /\ m.kind = "command"
  BY <1>7, MessageType
<1>9. line' = Append(line, m)
  BY <1>2, <1>5, <1>6, <1>7, <1>8, SendOne
<1>10. Fine(board, v, m)
  BY <1>4, <1>7, <1>8 DEF Fine
<1>11. PICK x \in States(board) : Walk(board, Avr, line', x) /\ x = After(board, v, c)
  BY <1>1, <1>2, <1>8, <1>9, <1>10, WalkOn
<1>12. x.pc = "command" /\ x.rom = v.rom /\ x.back = Reply(v.rom, c)
  <2>1. x = State("command", v.command, v.parameters, v.head, v.bytes, v.rom, v.fresh \/ c = RESET,
                  Reply(v.rom, c))
    BY <1>4, <1>7, <1>11 DEF After, AfterCommand
  <2> QED  BY <2>1 DEF State
<1>13. TypeInv'
  <2>1. line' \in Seq(Messages) /\ got' \in Seq(Nat) /\ bytes_left' \in Nat
    BY <1>2, <1>5, <1>9
  <2> QED  BY <1>2, <1>3, <1>5, <2>1 DEF TypeInv, Pcs, fileVars
<1>14. Watching'
  BY <1>2, <1>3, <1>5 DEF Watching, fileVars
<1>15. Leads(x)'
  <2>1. request' = c
    BY <1>3, <1>6 DEF request
  <2> QED  BY <1>3, <1>4, <1>5, <1>12, <2>1 DEF Leads, Awaited, Expecting, Installing
<1> QED  BY <1>3, <1>11, <1>13, <1>14, <1>15, LineGrows

--------------------------------------------------------------------------------
(* dude receives *)

\* Nothing is on its way to the AVR: what was said of the end of the line is true of the AVR.
LEMMA LineEmpty ==
    ASSUME UInv, line = <<>>
    PROVE  TypeInv /\ Watching /\ Avr \in States(board) /\ Leads(Avr)
<1>1. PICK v \in States(board) : Walk(board, Avr, line, v) /\ Leads(v)
  BY DEF UInv
<1>2. Avr = v
  BY <1>1, WalkEnd, Zenon
<1> QED  BY <1>1, <1>2 DEF UInv

\* With no message on the line, what the AVR is when it has taken them all is what it is now.
LEMMA StillEmpty ==
    ASSUME NEW x \in States(board), x = Avr', UNCHANGED board, line' = <<>>, TypeInv', Watching', Leads(x)'
    PROVE  UInv'
<1>1. Walk(board, x, <<>>, x)
  BY WalkNil
<1> QED  BY <1>1 DEF UInv

\* While something is on its way back nothing is on the line.
LEMMA Answered ==
    ASSUME UInv, back # <<>> PROVE line = <<>>
<1>1. PICK v \in States(board) : Walk(board, Avr, line, v)
  BY DEF UInv
<1>2. line \in Seq(Messages)
  BY DEF UInv, TypeInv
<1>3. ASSUME line # <<>> PROVE FALSE
  <2>1. Fine(board, Avr, Head(line))
    BY <1>1, <1>2, <1>3, WalkHead, Zenon
  <2> QED  BY <2>1, AvrFields DEF Fine
<1> QED  BY <1>3

\* The AVR with something less on its way back.
LEMMA BackType ==
    ASSUME Avr \in States(board), UNCHANGED <<a_pc, command, parameters, write_head, bytes, rom, fresh>>,
           back' \in Seq(Nat)
    PROVE  /\ Avr' \in States(board)
           /\ Avr'.pc = Avr.pc /\ Avr'.rom = Avr.rom /\ Avr'.back = back'
<1>1. Avr' = State(a_pc, command, parameters, write_head, bytes, rom, fresh, back')
  BY DEF Avr
<1>2. /\ a_pc \in Kinds /\ command \in Byte /\ parameters \in Seq(Byte) /\ write_head \in Address
      /\ bytes \in Nat /\ rom \in [CellsOf(board) -> Byte] /\ fresh \in BOOLEAN
  BY StateType, AvrFields
<1>3. Avr' \in States(board)
  BY <1>1, <1>2, TypeState, Zenon
<1>4. Avr'.pc = a_pc /\ Avr'.rom = rom /\ Avr'.back = back'
  BY <1>1 DEF State
<1> QED  BY <1>3, <1>4, AvrFields

\* download: the first two bytes back, the load address.
LEMMA HeaderStep == ASSUME UInv, ReadHeader PROVE UInv'
<1>1. /\ d_pc = "header" /\ Len(back) >= 4 /\ got' = SubSeq(back, 1, 2)
      /\ bytes_left' = Int16(back[3], back[4]) /\ back' = SubSeq(back, 5, Len(back))
      /\ d_pc' = "receive"
      /\ UNCHANGED <<board, fileVars, use, st, loaded_file_version, line, avrVars, told>>
  BY DEF ReadHeader, histVars
<1>2. line = <<>>
  <2>1. back # <<>>
    BY <1>1
  <2> QED  BY <2>1, Answered
<1>3. TypeInv /\ Watching /\ Avr \in States(board) /\ Leads(Avr)
  BY <1>2, LineEmpty
<1>4. board = "R1" /\ use \in {"rom", "ram"} /\ back = Reply(rom, request) /\ a_pc = "command"
  BY <1>1, <1>3, AvrFields DEF Leads, Awaited, Expecting
<1>5. rom \in [CellsOf("R1") -> Byte]
  BY <1>3, <1>4, StateType, AvrFields
<1>6. /\ RomOf(rom) \in Seq(Nat) /\ Ram \in Seq(Byte) /\ RomSize <= Word /\ RomSize \in Nat /\ Word \in Nat
      /\ DOWNLOAD_ROM # DOWNLOAD_RAM
  BY <1>5, ReplyType, Constants, UploadAssumption
<1>7. Ram \in Seq(Nat)
  <2>1. \A x \in Byte : x \in Nat
    BY Constants
  <2>2. Len(Ram) \in Nat /\ \A i \in 1 .. Len(Ram) : Ram[i] \in Byte
    BY <1>6
  <2>3. \A i \in 1 .. Len(Ram) : Ram[i] \in Nat
    BY <2>1, <2>2, Zenon
  <2>4. Ram = [i \in 1 .. Len(Ram) |-> Ram[i]]
    BY <1>6
  <2>5. [i \in 1 .. Len(Ram) |-> Ram[i]] \in Seq(Nat)
    BY <2>2, <2>3
  <2> QED  BY <2>4, <2>5
<1>8. PICK from \in Nat, m \in Seq(Nat) :
         /\ back = Answer(from, m)
         /\ word(from) \o m = IF use = "rom" THEN word(Word - RomSize) \o RomOf(rom)
                              ELSE word(0) \o Contents(Ram)
  <2>1. CASE use = "rom"
    <3>1. back = Answer(Word - RomSize, RomOf(rom)) /\ Word - RomSize \in Nat
      BY <1>4, <1>6, <2>1 DEF Reply, request
    <3> QED  BY <1>6, <2>1, <3>1
  <2>2. CASE use = "ram"
    <3>1. back = Answer(0, Ram)
      BY <1>4, <1>6, <2>2 DEF Reply, request
    <3>2. Contents(Ram) = Ram
      BY <1>7 DEF Contents
    <3>3. word(0) \o Ram = IF use = "rom" THEN word(Word - RomSize) \o RomOf(rom)
                           ELSE word(0) \o Contents(Ram)
      BY <2>2, <3>2
    <3>4. 0 \in Nat
      OBVIOUS
    <3> QED  BY <1>7, <3>1, <3>3, <3>4, Zenon
  <2> QED  BY <1>4, <2>1, <2>2
<1>9. got' = word(from) /\ bytes_left' = Len(m) /\ back' = m
  BY <1>1, <1>8, AnswerIs
<1>10. word(from) \in Seq(Nat) /\ Len(m) \in Nat
  BY <1>8, WordOf
<1>11. UNCHANGED <<a_pc, command, parameters, write_head, bytes, rom, fresh>>
  BY <1>1 DEF avrVars
<1>12. PICK x \in States(board) : x = Avr' /\ x.pc = "command" /\ x.rom = rom /\ x.back = m
  BY <1>3, <1>4, <1>8, <1>9, <1>11, BackType, AvrFields
<1>13. TypeInv'
  BY <1>1, <1>3, <1>9, <1>10 DEF TypeInv, Pcs, fileVars
<1>14. Watching'
  BY <1>1, <1>3 DEF Watching, fileVars
<1>15. Leads(x)'
  <2>1. Awaited(x)'
    BY <1>1, <1>2, <1>4, <1>8, <1>9, <1>12 DEF Awaited
  <2> QED  BY <1>1, <1>12, <2>1 DEF Leads, Expecting, Installing
<1> QED  BY <1>1, <1>2, <1>12, <1>13, <1>14, <1>15, StillEmpty

\* Taking the first byte of one sequence and putting it behind another one
\* changes nothing in what the two hold together.
LEMMA MovesOne ==
    ASSUME NEW a \in Seq(Nat), NEW b \in Seq(Nat), b # <<>>
    PROVE  Append(a, Head(b)) \o Tail(b) = a \o b
<1>1. Append(a, Head(b)) \o Tail(b) \in Seq(Nat) /\ a \o b \in Seq(Nat)
  OBVIOUS
<1>2. Len(Append(a, Head(b)) \o Tail(b)) = Len(a \o b)
  OBVIOUS
<1>3. \A i \in 1 .. Len(Append(a, Head(b)) \o Tail(b)) :
         (Append(a, Head(b)) \o Tail(b))[i] = (a \o b)[i]
  OBVIOUS
<1> QED  BY <1>1, <1>2, <1>3, SeqEqual, Zenon

\* download: one more byte back.
LEMMA ReceiveStep == ASSUME UInv, ReceiveByte PROVE UInv'
<1>1. /\ d_pc = "receive" /\ bytes_left > 0 /\ back # <<>> /\ got' = Append(got, Head(back))
      /\ back' = Tail(back) /\ bytes_left' = bytes_left - 1
      /\ UNCHANGED <<board, fileVars, d_pc, use, st, loaded_file_version, line, avrVars, told>>
  BY DEF ReceiveByte, histVars
<1>2. line = <<>>
  BY <1>1, Answered
<1>3. TypeInv /\ Watching /\ Avr \in States(board) /\ Leads(Avr)
  BY <1>2, LineEmpty
<1>4. /\ board = "R1" /\ use \in {"rom", "ram"} /\ Len(back) = bytes_left /\ a_pc = "command"
      /\ got \o back = IF use = "rom" THEN word(Word - RomSize) \o RomOf(rom) ELSE word(0) \o Contents(Ram)
  BY <1>1, <1>3, AvrFields DEF Leads, Awaited, Expecting
<1>5. got \in Seq(Nat) /\ back \in Seq(Nat) /\ bytes_left \in Nat
  BY <1>3, StateType, AvrFields DEF TypeInv
<1>6. /\ Head(back) \in Nat /\ Tail(back) \in Seq(Nat) /\ Len(Tail(back)) = Len(back) - 1
      /\ Append(got, Head(back)) \in Seq(Nat)
  BY <1>1, <1>5
<1>7. Append(got, Head(back)) \o Tail(back) = got \o back
  BY <1>1, <1>5, MovesOne, Zenon
<1>8. UNCHANGED <<a_pc, command, parameters, write_head, bytes, rom, fresh>>
  BY <1>1 DEF avrVars
<1>9. PICK x \in States(board) : x = Avr' /\ x.pc = "command" /\ x.rom = rom /\ x.back = Tail(back)
  BY <1>1, <1>3, <1>4, <1>6, <1>8, BackType, AvrFields
<1>10. TypeInv'
  <2>1. got' \in Seq(Nat) /\ bytes_left' \in Nat
    BY <1>1, <1>5, <1>6
  <2> QED  BY <1>1, <1>3, <2>1 DEF TypeInv, fileVars
<1>11. Watching'
  BY <1>1, <1>3 DEF Watching, fileVars
<1>12. Leads(x)'
  <2>1. Len(x.back) = bytes_left'
    BY <1>1, <1>4, <1>6, <1>9
  <2>2. got' \o x.back = got \o back
    BY <1>1, <1>7, <1>9
  <2>3. Awaited(x)'
    BY <1>1, <1>2, <1>4, <1>9, <2>1, <2>2 DEF Awaited
  <2> QED  BY <1>1, <1>9, <2>3 DEF Leads, Expecting, Installing
<1> QED  BY <1>1, <1>2, <1>9, <1>10, <1>11, <1>12, StillEmpty

\* download: the program ends with the whole file in hand.
LEMMA ExitStep == ASSUME UInv, Exit PROVE UInv'
<1>1. /\ d_pc = "receive" /\ bytes_left = 0
      /\ d_pc' = "off" /\ st' = [mtime |-> 0, size |-> 0] /\ told' = 0 /\ loaded_file_version' = 0
      /\ bytes_left' = 0 /\ got' = <<>>
      /\ UNCHANGED <<board, fileVars, use, line, back, avrVars>>
  BY DEF Exit, Gone
<1>2. PICK v \in States(board) : Walk(board, Avr, line, v) /\ Leads(v)
  BY DEF UInv
<1>3. TypeInv /\ Watching
  BY DEF UInv
<1>4. v.pc = "command" /\ v.back = <<>>
  <2>1. v.pc = "command" /\ Len(v.back) = 0
    BY <1>1, <1>2 DEF Leads, Awaited, Expecting
  <2>2. v.back \in Seq(Nat)
    BY <1>2, StateType
  <2> QED  BY <2>1, <2>2, EmptySeq
<1>5. TypeInv' /\ Watching' /\ Leads(v)'
  BY <1>1, <1>3, <1>4, Ended
<1> QED  BY <1>1, <1>2, <1>5, LineStays

--------------------------------------------------------------------------------

\* dude and the AVR are in step initially.
LEMMA UploadInit == Init => UInv
<1> SUFFICES ASSUME Init PROVE UInv
  OBVIOUS
<1>1. board \in {"R1", "R2"}
  BY UploadAssumption DEF Init
<1>2. /\ d_pc = "off" /\ use = "upload" /\ st = [mtime |-> 0, size |-> 0] /\ loaded_file_version = 0
      /\ bytes_left = 0 /\ got = <<>> /\ line = <<>> /\ back = <<>> /\ a_pc = "command"
      /\ command = UPLOAD /\ parameters = <<>> /\ write_head = 0 /\ bytes = 0
      /\ rom = [i \in Cells |-> 0] /\ fresh = FALSE /\ told = 0
      /\ content \in Files /\ mtime = 1 /\ young \in BOOLEAN
  BY DEF Init, FileInit
<1>3. Cells = CellsOf(board)
  BY DEF Cells, CellsOf
<1>4. UPLOAD \in Byte /\ 0 \in Address /\ 0 \in Byte
  BY Constants DEF Letters
<1>5. rom \in [CellsOf(board) -> Byte]
  BY <1>2, <1>3, <1>4
<1>6. /\ <<>> \in Seq(Byte) /\ <<>> \in Seq(Nat) /\ <<>> \in Seq(Messages) /\ "command" \in Kinds
      /\ FALSE \in BOOLEAN /\ 0 \in Nat
  BY DEF Kinds
<1>7. Avr \in States(board)
  BY <1>2, <1>4, <1>5, <1>6, TypeState, Zenon DEF Avr
<1>8. TypeInv
  <2>1. st \in [mtime : Nat, size : Nat]
    BY <1>2
  <2> QED  BY <1>1, <1>2, <1>6, <2>1 DEF TypeInv, Pcs
<1>9. Watching
  BY <1>2 DEF Watching
<1>10. PICK x \in States(board) : x = Avr
  BY <1>7
<1>11. x.pc = "command" /\ x.back = <<>>
  BY <1>2, <1>10, AvrFields
<1>12. Leads(x)
  BY <1>2, <1>11 DEF Leads, Awaited, Expecting, Installing
<1>13. Walk(board, Avr, line, x)
  BY <1>2, <1>7, <1>10, WalkNil
<1> QED  BY <1>8, <1>9, <1>12, <1>13 DEF UInv

\* Every step preserves it, but those that leave dude astray.
LEMMA InStepStep == ASSUME UInv, ~astray', [Next]_vars PROVE UInv'
<1>1. CASE \E u \in UNION {Uses[b] : b \in DOMAIN Uses} : Start(u)
  BY <1>1, StartStep
<1>2. CASE Dude
  BY <1>2, StatStep, SecondStep, OpenStep, CopyStep, EndStep, ResetStep, DownloadStep, HeaderStep,
     ReceiveStep, ExitStep DEF Dude
<1>3. CASE UNCHANGED vars
  <2>1. PICK v \in States(board) : Walk(board, Avr, line, v) /\ Leads(v)
    BY DEF UInv
  <2>2. TypeInv /\ Watching
    BY DEF UInv
  <2>3. UNCHANGED <<board, content, mtime, young, dudeVars, line, back, avrVars, told>>
    BY <1>3 DEF vars, fileVars, histVars
  <2>4. TypeInv' /\ Watching'
    BY <2>2, <2>3 DEF TypeInv, Watching, dudeVars
  <2>5. Leads(v)'
    BY <2>1, <2>3 DEF Leads, Awaited, Expecting, Installing, request, dudeVars
  <2> QED  BY <2>1, <2>3, <2>4, <2>5, LineStays
<1> QED  BY <1>1, <1>2, <1>3, QuitStep, EditStep, ClockStep, AvrStep DEF Next

\* Once dude is astray it stays so.
LEMMA StaysAstray == ASSUME astray, [Next]_vars PROVE astray'
<1>1. CASE \E u \in UNION {Uses[b] : b \in DOMAIN Uses} : Start(u)
  BY <1>1 DEF Start, histVars
<1>2. CASE Quit
  BY <1>2 DEF Quit
<1>3. CASE Edit \/ Clock
  BY <1>3 DEF Edit, Clock, histVars
<1>4. CASE Dude
  <2>1. CASE stat \/ Second \/ CopyByte \/ SendReset \/ ReadHeader \/ ReceiveByte
    BY <2>1 DEF stat, Second, CopyByte, SendReset, ReadHeader, ReceiveByte, histVars
  <2>2. CASE OpenFile \/ EndCopy \/ Download \/ Exit
    BY <2>2 DEF OpenFile, EndCopy, Download, Exit
  <2> QED  BY <1>4, <2>1, <2>2 DEF Dude
<1>5. CASE AVR
  BY <1>5 DEF AVR, Obey, Await, Parameter, LastParameter, Store, Take, histVars
<1>6. CASE UNCHANGED vars
  BY <1>6 DEF vars, histVars
<1> QED  BY <1>1, <1>2, <1>3, <1>4, <1>5, <1>6 DEF Next

\* The invariant of every behaviour.
LEMMA UploadStep == ASSUME Inv, [Next]_vars PROVE Inv'
BY InStepStep, StaysAstray DEF Inv

\* The AVR takes each byte for what dude meant it to be, whatever the file, its size and
\* however often it is saved meanwhile, until dude gives up an image half way or asks for
\* what the board does not know (dude main.c:124-150, master main.c:1072-1085).
THEOREM BytesInStep == Spec => []InStep
<1>1. ASSUME Inv, ~astray PROVE UInv
  BY <1>1 DEF Inv
<1>2. ASSUME UInv PROVE InStep
  <2>1. PICK v \in States(board) : Walk(board, Avr, line, v)
    BY <1>2 DEF UInv
  <2>2. line \in Seq(Messages)
    BY <1>2 DEF UInv, TypeInv
  <2>3. line # <<>> => Fine(board, Avr, Head(line))
    BY <2>1, <2>2, WalkHead, Zenon
  <2> QED  BY <2>3, AvrFields DEF Fine, InStep
<1>3. Inv => InStep
  BY <1>1, <1>2 DEF InStep
<1>4. Init => Inv
  BY UploadInit DEF Inv
<1> QED  BY <1>3, <1>4, UploadStep, PTL DEF Spec

\* When dude rests, in step with the AVR, and remembers the time that the file has, the memory
\* of the 6502 holds the bytes in the file now, as many as dude was told of, or the file was
\* refused; and the 6502 was reset since.  No byte overwrites another, on either board, and
\* the file may be saved at any moment (dude main.c:36-38, 157-178).
THEOREM FileInstalled == Spec => []Installed
<1>1. ASSUME Inv, ~astray PROVE UInv
  BY <1>1 DEF Inv
<1>2. ASSUME UInv, Quiet, loaded_file_version = mtime PROVE Stored /\ fresh
  <2> DEFINE n == bytes_to_load(told)
             f == SubSeq(content, 1, 2 + n)
  <2>1. TypeInv /\ Watching /\ Avr \in States(board) /\ Leads(Avr)
    BY <1>2, LineEmpty DEF Quiet
  <2>2. Kept(board, content, n, rom) /\ fresh
    BY <1>2, <2>1, AvrFields DEF Leads, Installing, Quiet
  <2>3. n \in Nat /\ content \in Seq(Byte) /\ Len(content) \in Nat
    BY <2>1, ToLoad, ContentType DEF TypeInv
  <2> HIDE DEF n
  <2>4. CASE Refused(content, n)
    BY <2>2, <2>4 DEF Stored, n
  <2>5. CASE 2 + n <= Len(content) /\ Loaded(board, content, rom, n)
    <3>1. /\ Len(f) = 2 + n /\ f[1] = content[1] /\ f[2] = content[2]
          /\ \A i \in 0 .. n - 1 : f[i + 3] = content[i + 3]
      BY <2>3, <2>5
    <3>2. base_address(f) = base_address(content)
      BY <3>1 DEF base_address
    <3>3. Len(f) - 3 = n - 1
      BY <2>3, <3>1
    <3>4. rom \in [CellsOf(board) -> Byte]
      BY <2>1, StateType, AvrFields
    <3>5. DOMAIN Shown = ShownOf(board) /\ \A a \in ShownOf(board) : Shown[a] = rom[CellOf(board, a)]
      BY <3>4 DEF Shown, ShownOf, CellOf, CellsOf
    <3>6. Shown = [a \in ShownOf(board) |-> Shown[a]]
      BY <3>4 DEF Shown, ShownOf, CellsOf
    <3> DEFINE i(a) == a - base_address(content)
    <3> HIDE DEF f
    <3>7. \A a \in ShownOf(board) : i(a) \in 0 .. n - 1 => Shown[a] = f[i(a) + 3]
      BY <2>5, <3>1, <3>5 DEF Loaded
    <3>8. Image(f, Shown) = [a \in ShownOf(board) |-> IF i(a) \in 0 .. n - 1 THEN f[i(a) + 3] ELSE Shown[a]]
      BY <3>2, <3>3, <3>5 DEF Image
    <3> HIDE DEF i
    <3>9. [a \in ShownOf(board) |-> IF i(a) \in 0 .. n - 1 THEN f[i(a) + 3] ELSE Shown[a]]
            = [a \in ShownOf(board) |-> Shown[a]]
      BY <3>7
    <3>10. Image(f, Shown) = Shown
      BY <3>6, <3>8, <3>9
    <3> QED  BY <2>2, <2>5, <3>10 DEF Stored, n, f
  <2> QED  BY <2>2, <2>4, <2>5 DEF Kept
<1>3. Inv => Installed
  BY <1>1, <1>2 DEF Installed
<1>4. Init => Inv
  BY UploadInit DEF Inv
<1> QED  BY <1>3, <1>4, UploadStep, PTL DEF Spec

\* A download ends with the address and the contents of the memory that was asked for
\* (dude main.c:199-239, master main.c:1088-1101).
THEOREM DownloadIsWhole == Spec => []Downloaded
<1>1. ASSUME Inv, ~astray PROVE UInv
  BY <1>1 DEF Inv
<1>2. ASSUME UInv PROVE Downloaded
  <2>1. SUFFICES ASSUME d_pc = "receive", bytes_left = 0
                 PROVE  /\ use \in {"rom", "ram"}
                        /\ use = "rom" => got = word(Word - RomSize) \o RomContents
                        /\ use = "ram" => got = <<0, 0>> \o Contents(Ram)
    BY DEF Downloaded
  <2>2. line = <<>>
    BY <1>2, <2>1 DEF UInv, Leads, Awaited
  <2>3. TypeInv /\ Avr \in States(board) /\ Leads(Avr)
    BY <1>2, <2>2, LineEmpty
  <2>4. /\ use \in {"rom", "ram"} /\ Len(back) = 0
        /\ got \o back = IF use = "rom" THEN word(Word - RomSize) \o RomOf(rom) ELSE word(0) \o Contents(Ram)
    BY <2>1, <2>3, AvrFields DEF Leads, Awaited
  <2>5. back \in Seq(Nat) /\ got \in Seq(Nat)
    BY <2>3, StateType, AvrFields DEF TypeInv
  <2>6. back = <<>>
    BY <2>4, <2>5, EmptySeq
  <2>7. got \o back = got
    BY <2>5, <2>6
  <2>8. RomContents = RomOf(rom)
    BY DEF RomContents, RomOf
  <2>9. word(0) = <<0, 0>>
    <3>1. low(0) = 0 /\ high(0) = 0
      BY BaseAssumption DEF low, high
    <3> QED  BY <3>1 DEF word
  <2> QED  BY <2>4, <2>7, <2>8, <2>9
<1>3. Inv => Downloaded
  BY <1>1, <1>2 DEF Downloaded
<1>4. Init => Inv
  BY UploadInit DEF Inv
<1> QED  BY <1>3, <1>4, UploadStep, PTL DEF Spec

================================================================================
