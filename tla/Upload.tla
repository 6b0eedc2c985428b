-------------------------------- MODULE Upload ---------------------------------
(* Uploads and downloads: `dude` (ROM/dude/main.c) on the host and the command  *)
(* loop of the AVR that listens (R1's master or R2's Monitor).  The serial line *)
(* loses nothing; the AVR is in its fast mode and takes each byte in time.      *)
(*                                                                              *)
(* A byte on the line carries what its sender meant it to be.  The AVR does not *)
(* see that: it goes by the number of bytes it has had.                         *)
EXTENDS RomFile

CONSTANTS Uses,         \* what dude is started for, on each board
          RomSize,      \* cells of `rom` on R1; R2 has the whole address space
          Ram,          \* what the RAM of R1 holds
          MaxLine,      \* bytes the port of the host holds before write() blocks
          UPLOAD, RESET, DOWNLOAD_ROM, DOWNLOAD_RAM     \* command letters

Letters == {UPLOAD, RESET, DOWNLOAD_ROM, DOWNLOAD_RAM}

ASSUME UploadAssumption ==
    /\ Uses \in [{"R1", "R2"} -> SUBSET {"upload", "rom", "ram", "range"}]
    /\ RomSize \in 1 .. Word /\ Word % RomSize = 0
    /\ Ram \in Seq(Byte)
    /\ Letters \subseteq Byte /\ MaxLine \in Nat
    /\ UPLOAD \notin {RESET, DOWNLOAD_ROM, DOWNLOAD_RAM} /\ RESET \notin {DOWNLOAD_ROM, DOWNLOAD_RAM}
    /\ DOWNLOAD_ROM # DOWNLOAD_RAM

VARIABLES board,        \* "R1" or "R2", never changed
          d_pc,         \* "off", or what dude does next
          use,          \* what it was started for
          st,           \* what stat() said: the file's time and size
          loaded_file_version,
          bytes_left,   \* of load_prg_file()'s loop
          got,          \* what copy_from_SBC_to_file() has written
          line, back,   \* bytes on their way to the AVR and to the host
          a_pc,         \* what the AVR takes the next byte for
          command,      \* the command whose parameters it reads
          parameters, write_head, bytes,
          rom,          \* what the 6502 will find
          fresh,        \* history: was the 6502 reset since rom last changed?
          told,         \* history: the size load_prg_file() was last called with
          astray        \* history: has dude left the AVR waiting for more, or asked for
                        \* what the board does not know?

dudeVars == <<d_pc, use, st, loaded_file_version, bytes_left, got>>
avrVars  == <<a_pc, command, parameters, write_head, bytes, rom, fresh>>
histVars == <<told, astray>>
vars     == <<board, fileVars, dudeVars, line, back, avrVars, histVars>>

\* Does the command loop of the board answer a download of this kind the way dude
\* expects?  R2 ignores 'd' and wants to be told what to send for a 'D'; R1 wants to
\* be told nothing (master main.c:1088-1101, monitor main.c:582-599).
Known(u) == u = "upload" \/ (board = "R1" /\ u \in {"rom", "ram"})

Cells   == IF board = "R1" THEN 0 .. RomSize - 1 ELSE Address
\* rom[write_head & ROM_ADDRESS_MASK] on R1, the SRAM itself on R2
Cell(a) == IF board = "R1" THEN a % RomSize ELSE a

\* Where cell i of rom appears to the 6502, for R1 in the topmost mirror.
Shown   == IF board = "R1" THEN [a \in Word - RomSize .. Word - 1 |-> rom[a % RomSize]] ELSE rom

Meant(kind, s) == [i \in 1 .. Len(s) |-> [byte |-> s[i], kind |-> kind]]
send(s)        == Len(line) + Len(s) <= MaxLine /\ line' = line \o s
low(n)  == n % Base
high(n) == n \div Base
word(n) == <<low(n), high(n)>>

--------------------------------------------------------------------------------
(* dude *)

\* main(): a process of its own each time, which flushes what has come in before
Start(u) ==
    /\ d_pc = "off"
    /\ u \in Uses[board]
    /\ use' = u
    /\ d_pc' = IF u = "upload" THEN "stat" ELSE "request"
    /\ back' = <<>>
    /\ UNCHANGED <<board, fileVars, st, loaded_file_version, bytes_left, got, line, avrVars, histVars>>

\* What a process knew is gone with it.
Gone ==
    /\ d_pc' = "off"
    /\ st' = [mtime |-> 0, size |-> 0] /\ told' = 0
    /\ loaded_file_version' = 0
    /\ bytes_left' = 0 /\ got' = <<>>
    /\ UNCHANGED <<board, fileVars, use, line, back, avrVars>>

\* Ctrl-C at any time: in the middle of an image the AVR waits for the rest of it, in
\* the middle of a download the answer is still to come.
Quit ==
    /\ d_pc # "off"
    /\ Gone
    /\ astray' = (astray \/ d_pc \in {"header", "receive"} \/ (d_pc = "copy" /\ bytes_left > 0))

statNoSleep ==
    /\ d_pc = "stat"
    /\ st' = [mtime |-> mtime, size |-> Len(content)]
    /\ d_pc' = IF mtime # loaded_file_version THEN "open" ELSE "rest"
    /\ UNCHANGED <<board, fileVars, use, loaded_file_version, bytes_left, got, line, back, avrVars, histVars>>
stat ==
    /\ d_pc = "stat"
    /\ st' = [mtime |-> mtime, size |-> Len(content)]
    /\ d_pc' = IF mtime # loaded_file_version THEN "sleep" ELSE "rest"
    /\ UNCHANGED <<board, fileVars, use, loaded_file_version, bytes_left, got, line, back, avrVars, histVars>>

\* sleep(1) before the upload and at the end of loop(): time enough for the
\* second to change
Awake  == [rest |-> "stat", sleep |-> "open"]
Second ==
    /\ d_pc \in DOMAIN Awake
    /\ d_pc' = Awake[d_pc]
    /\ young' = FALSE
    /\ UNCHANGED <<board, content, mtime, use, st, loaded_file_version, bytes_left, got, line, back, avrVars, histVars>>

Refused(f, wanted) == TooShort(f) \/ Overflows(f, wanted)

\* load_prg_file() up to its loop.  The header goes out in one step; a Ctrl-C in the
\* middle of it leaves the AVR waiting, as one in the middle of the image does.
OpenFile ==
    /\ d_pc = "open"
    /\ LET wanted == bytes_to_load(st.size)
           IN IF Refused(content, wanted)
             THEN d_pc' = "reset" /\ UNCHANGED <<bytes_left, line>>
             ELSE /\ send(Meant("command", <<UPLOAD>>)
                           \o Meant("parameters", SubSeq(content, 1, 2) \o word(wanted)))
                  /\ bytes_left' = wanted
                  /\ d_pc' = "copy"
    /\ told' = st.size
    /\ UNCHANGED <<board, fileVars, use, st, loaded_file_version, got, back, avrVars, astray>>

offset == 3 + bytes_to_load(st.size) - bytes_left

\* One byte of the loop.  At the end of the file it is "corrupt" and given up.
CopyByte ==
    /\ d_pc = "copy" /\ bytes_left > 0 /\ offset <= Len(content)
    /\ send(Meant("data", <<content[offset]>>))
    /\ bytes_left' = bytes_left - 1
    /\ UNCHANGED <<board, fileVars, d_pc, use, st, loaded_file_version, got, back, avrVars, histVars>>

EndCopy ==
    /\ d_pc = "copy"
    /\ bytes_left = 0 \/ offset > Len(content)
    /\ d_pc' = "reset"
    /\ astray' = (astray \/ bytes_left > 0)
    /\ UNCHANGED <<board, fileVars, use, st, loaded_file_version, bytes_left, got, line, back, avrVars, told>>

SendResetLatest ==
    /\ d_pc = "reset"
    /\ send(Meant("command", <<RESET>>))
    /\ loaded_file_version' = mtime
    /\ d_pc' = "rest"
    /\ UNCHANGED <<board, fileVars, use, st, bytes_left, got, back, avrVars, histVars>>

\* send ('r'), and what was uploaded is what stat() saw
SendReset ==
    /\ d_pc = "reset"
    /\ send(Meant("command", <<RESET>>))
    /\ loaded_file_version' = st.mtime
    /\ d_pc' = "rest"
    /\ UNCHANGED <<board, fileVars, use, st, bytes_left, got, back, avrVars, histVars>>

\* download(): "rom" and "ram" expect the address and length from the AVR,
\* "range" says which it wants
request == IF use = "ram" THEN DOWNLOAD_RAM ELSE DOWNLOAD_ROM
Asked   == [base |-> 1, length |-> 1]
Download ==
    /\ d_pc = "request"
    /\ IF use = "range"
          THEN /\ send(Meant("command", <<request>>)
                        \o Meant("parameters", word(Asked.base) \o word(Asked.length)))
               /\ got' = word(Asked.base)
               /\ bytes_left' = Asked.length
          ELSE /\ send(Meant("command", <<request>>))
               /\ got' = <<>>
               /\ bytes_left' = 0
    /\ d_pc' = IF use = "range" THEN "receive" ELSE "header"
    /\ astray' = (astray \/ ~Known(use))
    /\ UNCHANGED <<board, fileVars, use, st, loaded_file_version, back, avrVars, told>>

\* base_address = read16(), bytes_to_copy = read16()
ReadHeader ==
    /\ d_pc = "header" /\ Len(back) >= 4
    /\ got' = SubSeq(back, 1, 2)
    /\ bytes_left' = Int16(back[3], back[4])
    /\ back' = SubSeq(back, 5, Len(back))
    /\ d_pc' = "receive"
    /\ UNCHANGED <<board, fileVars, use, st, loaded_file_version, line, avrVars, histVars>>

\* copy_from_SBC_to_file()
ReceiveByte ==
    /\ d_pc = "receive" /\ bytes_left > 0 /\ back # <<>>
    /\ got' = Append(got, Head(back))
    /\ back' = Tail(back)
    /\ bytes_left' = bytes_left - 1
    /\ UNCHANGED <<board, fileVars, d_pc, use, st, loaded_file_version, line, avrVars, histVars>>

Exit ==
    /\ d_pc = "receive" /\ bytes_left = 0
    /\ Gone
    /\ UNCHANGED astray

--------------------------------------------------------------------------------
(* The AVR *)

Letter == Head(line).byte

\* receive_byte() takes the next byte, whatever it is for.
Take == line # <<>> /\ line' = Tail(line) /\ UNCHANGED <<board, fileVars, dudeVars, histVars>>

Contents(m) == [i \in 1 .. Len(m) |-> m[i]]
RomContents == [i \in 1 .. RomSize |-> rom[i - 1]]
AnswerUnmeasured(from, m) == word(from) \o Contents(m)
Answer(from, m) == word(from) \o word(Len(m)) \o Contents(m)

TakesParametersAlways(c) == c \in {UPLOAD, DOWNLOAD_ROM, DOWNLOAD_RAM}
TakesParameters(c) == c = UPLOAD \/ (board = "R2" /\ c = DOWNLOAD_RAM)

receive_int16_swapped(first, second) == Int16(second, first)
\* The two calls of receive_byte() are operands of |, whose order C leaves to the
\* compiler: the low byte first, as in the builds that work.
receive_int16(first, second) == Int16(first, second)

\* A command without parameters: reset, the master's downloads, or nothing
Obey ==
    /\ Take /\ a_pc = "command" /\ ~TakesParameters(Letter)
    /\ fresh' = (fresh \/ Letter = RESET)
    /\ back' = CASE board = "R1" /\ Letter = DOWNLOAD_ROM -> back \o Answer(Word - RomSize, RomContents)
                 [] board = "R1" /\ Letter = DOWNLOAD_RAM -> back \o Answer(0, Ram)
                 [] OTHER -> back
    /\ UNCHANGED <<a_pc, command, parameters, write_head, bytes, rom>>

Await ==
    /\ Take /\ a_pc = "command" /\ TakesParameters(Letter)
    /\ command' = Letter
    /\ parameters' = <<>>
    /\ a_pc' = "parameters"
    /\ UNCHANGED <<write_head, bytes, rom, fresh, back>>

\* receive_int16(), twice
Parameter ==
    /\ Take /\ a_pc = "parameters" /\ Len(parameters) < 3
    /\ parameters' = Append(parameters, Letter)
    /\ UNCHANGED <<a_pc, command, write_head, bytes, rom, fresh, back>>

LastParameter ==
    /\ Take /\ a_pc = "parameters" /\ Len(parameters) = 3
    /\ LET from == receive_int16(parameters[1], parameters[2])
           n == receive_int16(parameters[3], Letter)
           reads == command # UPLOAD
       IN /\ write_head' = from
          /\ bytes' = IF reads THEN 0 ELSE n
          /\ back' = IF reads THEN back \o [i \in 1 .. n |-> rom[(from + i - 1) % Word]] ELSE back
          /\ a_pc' = IF reads \/ n = 0 THEN "command" ELSE "data"
    /\ parameters' = <<>>
    /\ UNCHANGED <<command, rom, fresh>>

following(a) == (a + 1) % Word
Store ==
    /\ Take /\ a_pc = "data"
    /\ rom' = [rom EXCEPT ![Cell(write_head)] = Letter]
    /\ write_head' = following(write_head)
    /\ bytes' = bytes - 1
    /\ a_pc' = IF bytes = 1 THEN "command" ELSE "data"
    /\ fresh' = FALSE
    /\ UNCHANGED <<command, parameters, back>>

--------------------------------------------------------------------------------

Init ==
    /\ FileInit
    /\ board \in DOMAIN Uses
    /\ d_pc = "off" /\ use = "upload" /\ st = [mtime |-> 0, size |-> 0]
    /\ loaded_file_version = 0
    /\ bytes_left = 0 /\ got = <<>>
    /\ line = <<>> /\ back = <<>>
    /\ a_pc = "command" /\ command = UPLOAD /\ parameters = <<>> /\ write_head = 0 /\ bytes = 0
    /\ rom = [i \in Cells |-> 0] /\ fresh = FALSE
    /\ told = 0 /\ astray = FALSE

\* The assembler writes the file, or a part of it, whatever dude is at.
Edit == \E f \in Files : Save(f) /\ UNCHANGED <<board, dudeVars, line, back, avrVars, histVars>>

Clock == SecondOver /\ UNCHANGED <<board, dudeVars, line, back, avrVars, histVars>>

Dude == \/ stat \/ Second \/ OpenFile \/ CopyByte \/ EndCopy \/ SendReset
        \/ Download \/ ReadHeader \/ ReceiveByte \/ Exit
AVR  == Obey \/ Await \/ Parameter \/ LastParameter \/ Store

Next == (\E u \in UNION {Uses[b] : b \in DOMAIN Uses} : Start(u)) \/ Quit \/ Edit \/ Clock \/ Dude \/ AVR

Spec == Init /\ [][Next]_vars
\* The processes run and time passes; nobody must save, start or stop anything.
FairSpec == Spec /\ WF_vars(Dude) /\ WF_vars(AVR) /\ WF_vars(Clock)

--------------------------------------------------------------------------------
Kinds == {"command", "parameters", "data"}

\* The AVR takes each byte for what dude meant it to be: a command, a parameter or a
\* byte of the image (dude main.c:124-150, master main.c:1072-1085), as long as dude
\* has given up no image half way (its "corrupt" exit, 141-145, or Ctrl-C) and asked
\* for no download that the board does not know.
InStep == ~astray /\ line # <<>> => Head(line).kind = a_pc

\* What is left of the file in `content` in the memory of the 6502: the bytes that
\* load_prg_file() was told of, or nothing of a file that it refused.  That is the
\* whole of the image if stat() saw the file at its present size and its length does
\* not wrap to 0; of a file that grew after stat(), in the same second, it is a part.
Stored == LET n == bytes_to_load(told)
          IN \/ Refused(content, n)
             \/ 2 + n <= Len(content) /\ Image(SubSeq(content, 1, 2 + n), Shown) = Shown

\* While dude rests, nothing is under way and the time it remembers is the time of the
\* file, the memory of the 6502 holds the bytes in the file NOW, as many as stat() told
\* of before the upload, and the 6502 was reset since (dude main.c:36-38, 157-178): a
\* save during the upload is missed only in the size it gives the file.
Quiet     == d_pc = "rest" /\ line = <<>> /\ a_pc = "command"
Installed == Quiet /\ ~astray /\ loaded_file_version = mtime => Stored /\ fresh

\* A download that the board knows, with a dude and an AVR that are in step, ends with
\* the address and contents of the memory it asked for (dude main.c:199-239, master
\* main.c:1088-1101).
Downloaded == d_pc = "receive" /\ bytes_left = 0 /\ ~astray =>
    got = IF use = "rom" THEN word(Word - RomSize) \o RomContents ELSE <<0, 0>> \o Contents(Ram)

\* If dude is left to watch the file, it comes to remember the file's last time, and
\* then the 6502 has what the file held at that time, as many bytes as dude was told.
UpToDate == <>[](d_pc # "off" /\ use = "upload") =>
            <>[](loaded_file_version = mtime /\ (astray \/ Stored))

\* A download that the board knows ends, unless it is cut short.
DownloadEnds == (d_pc = "request" /\ ~astray) ~> (d_pc = "off" \/ astray)
================================================================================
