------------------------------- MODULE MCUpload --------------------------------
(* Files for Upload: a byte has 4 values, an address space 16 cells and the ROM *)
(* of R1 the last 4.  One file is too short, one does not fit, two of the others *)
(* have the same size; the bytes of the images are also command letters.        *)
EXTENDS Upload

MCFiles == {<<0>>, <<1, 3, 3>>, <<1, 3, 3, 1>>, <<1, 3, 0, 2>>, <<2, 3, 0, 1, 2>>}
MCUses  == [b \in {"R1", "R2"} |-> {"upload", "rom", "ram", "range"}]
\* Bound: once dude has left the AVR astray, nothing more is saved or started.
Explored == astray => content' = content /\ (d_pc = "off" => d_pc' = "off")
MCRam   == <<2, 1, 3>>
================================================================================
