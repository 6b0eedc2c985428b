-------------------------------- MODULE RomFile --------------------------------
(* The file /tmp/ROM.prg, which the assembler writes and which both the upload  *)
(* tool and the host simulator watch, and the checks of load_prg_file(), which  *)
(* the two have a copy of.                                                      *)
(*                                                                              *)
(* A byte is a number below Base and an address has two bytes; the source has   *)
(* Base = 256.  A modification time is known only to the second: `mtime` is the *)
(* ordinal of the second in which the file was saved last, and `young` says     *)
(* that this second is not over, so that another save would not show.           *)
EXTENDS Integers, Sequences

CONSTANTS Base,         \* values of a byte
          Files,        \* the contents the file may have
          MaxVersions   \* bound: seconds in which the file is saved

ASSUME BaseAssumption == Base \in Nat \ {0}

Byte     == 0 .. Base - 1
Word     == Base * Base      \* the size of the address space, 64K
Address  == 0 .. Word - 1

ASSUME FilesAssumption == Files \subseteq Seq(Byte) /\ MaxVersions \in Nat

VARIABLES content,      \* sequence of bytes; the first two are the load address
          mtime, young

fileVars == <<content, mtime, young>>

Int16(lo, hi) == lo + Base * hi

\* uint16_t bytes_to_load = bytes_in_file - 2, before anything is checked
bytes_to_load(size) == (size - 2) % Word

TooShort(f) == Len(f) < 2
base_address(f) == Int16(f[1], f[2])
Overflows(f, bytes) == Word < base_address(f) + bytes

\* What the file asks for: memory with the file's bytes at its load address.
Fits(f) == ~TooShort(f) /\ ~Overflows(f, Len(f) - 2)
Image(f, memory) ==
    [a \in DOMAIN memory |->
        LET i == a - base_address(f) IN IF i \in 0 .. Len(f) - 3 THEN f[i + 3] ELSE memory[a]]

FileInit == content \in Files /\ mtime = 1 /\ young \in BOOLEAN

\* Somebody saves the file, possibly more than once in a second.
Save(f) ==
    /\ f \in Files \ {content}
    /\ content' = f
    /\ young' = TRUE
    /\ IF young THEN UNCHANGED mtime ELSE mtime < MaxVersions /\ mtime' = mtime + 1

\* The second in which the file was saved is over.
SecondOver == young /\ young' = FALSE /\ UNCHANGED <<content, mtime>>
================================================================================
