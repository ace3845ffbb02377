----------------------------- MODULE OpenFile -----------------------------
(* Bytes of a file on a disk of whole sectors (openfile.cc, filehdr.cc): what *)
(* ReadAt returns and what WriteAt leaves on the disk.                        *)
EXTENDS Integers, Sequences

CONSTANTS
    SectorSize, \* disk.h
    NumSectors, \* disk.h
    NumDirect,  \* filehdr.h: data sectors a header has room for
    Byte,       \* values of bytes
    Junk,       \* a byte no file's writer chose: part of a header, "new char[]"
    NULL

ASSUME OpenFileAssumption ==
    /\ SectorSize \in Nat \ {0}
    /\ NumSectors \in Nat \ {0}
    /\ NumDirect \in Nat
    /\ Byte # {} /\ Junk \notin Byte

Sector == 0 .. NumSectors - 1

divRoundUp(n, s) == (n \div s) + (IF n % s > 0 THEN 1 ELSE 0)

(* What a sector holds: bytes of data, and, if it was written as one, a       *)
(* FileHeader, whose bytes are junk to those who read them as data.           *)
Data   == [0 .. SectorSize - 1 -> Byte \cup {Junk}]
Header ==
    UNION {[numBytes    : {m \in 0 .. n * SectorSize : divRoundUp(m, SectorSize) = n},
            dataSectors : [1 .. n -> Sector]] : n \in 0 .. NumDirect}
Contained == [hdr : Header \cup {NULL}, data : Data]

AsHeader(hdr) == [hdr |-> hdr, data |-> [o \in 0 .. SectorSize - 1 |-> Junk]]
AsData(data)  == [hdr |-> NULL, data |-> data]

(* The sector of the byte at an offset of a file.                             *)
ByteToSector(hdr, offset) == hdr.dataSectors[(offset \div SectorSize) + 1]

(* That byte on the disk.                                                     *)
ByteAt(disk, hdr, offset) ==
    disk[ByteToSector(hdr, offset)].data[offset % SectorSize]

(* The bytes of a file: what its readers are to see.                          *)
Contents(disk, hdr) == [p \in 0 .. hdr.numBytes - 1 |-> ByteAt(disk, hdr, p)]

(* How many bytes ReadAt and WriteAt transfer.                                *)
Clipped(hdr, numBytes, position) ==
    IF numBytes <= 0 \/ position >= hdr.numBytes THEN 0
    ELSE IF position + numBytes > hdr.numBytes THEN hdr.numBytes - position
    ELSE numBytes

(* The sectors, counted from the start of the file, of n > 0 bytes.           *)
FirstSector(position) == position \div SectorSize
LastSector(position, n) == (position + n - 1) \div SectorSize

(* Mutant: the bytes are copied from the start of the first sector.           *)
ReadAtSectorStart(disk, hdr, numBytes, position) ==
    LET n == Clipped(hdr, numBytes, position) IN
    [i \in 1 .. n |-> ByteAt(disk, hdr, FirstSector(position) * SectorSize + i - 1)]

(* ReadAt: the sectors are read into "buf", the bytes wanted copied from it.  *)
ReadAt(disk, hdr, numBytes, position) ==
    LET n     == Clipped(hdr, numBytes, position)
        first == FirstSector(position)
        buf   == [j \in 0 .. (1 + LastSector(position, n) - first) * SectorSize - 1 |->
                     ByteAt(disk, hdr, first * SectorSize + j)]
    IN  IF n = 0 THEN <<>>
        ELSE [i \in 1 .. n |-> buf[position - first * SectorSize + i - 1]]

(* Mutant: a write inside one sector never reads it first.                    *)
ReadsLastTwoOnly(position, n) ==
    LET first == FirstSector(position)
        last  == LastSector(position, n)
    IN  position + n # (last + 1) * SectorSize /\ first # last

(* WriteAt reads the last sector first: it is partly written, and has not     *)
(* been read as the first.                                                    *)
ReadsLast(position, n) ==
    LET first == FirstSector(position)
        last  == LastSector(position, n)
    IN  /\ position + n # (last + 1) * SectorSize
        /\ first # last \/ position = first * SectorSize

ReadsFirst(position) == position # FirstSector(position) * SectorSize

(* The buffer WriteAt writes back, indexed by offsets in the file.            *)
WriteBuffer(disk, hdr, from, n, position) ==
    LET first == FirstSector(position)
        last  == LastSector(position, n)
    IN  [p \in first * SectorSize .. (last + 1) * SectorSize - 1 |->
            IF p \in position .. position + n - 1 THEN from[p - position + 1]
            ELSE IF /\ p < hdr.numBytes
                    /\ \/ ReadsFirst(position) /\ p \div SectorSize = first
                       \/ ReadsLast(position, n) /\ p \div SectorSize = last
                 THEN ByteAt(disk, hdr, p)
                 ELSE Junk]

(* The disk after WriteAt.                                                    *)
WriteAt(disk, hdr, from, position) ==
    LET n   == Clipped(hdr, Len(from), position)
        buf == WriteBuffer(disk, hdr, from, n, position)
    IN  IF n = 0 THEN disk
        ELSE [s \in Sector |->
                IF \E i \in FirstSector(position) .. LastSector(position, n) :
                       hdr.dataSectors[i + 1] = s
                THEN LET i == CHOOSE i \in FirstSector(position) .. LastSector(position, n) :
                                  hdr.dataSectors[i + 1] = s
                     IN  AsData([o \in 0 .. SectorSize - 1 |-> buf[i * SectorSize + o]])
                ELSE disk[s]]
=============================================================================
