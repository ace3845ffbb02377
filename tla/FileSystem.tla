---------------------------- MODULE FileSystem ----------------------------
(* The file system (filesys.cc, directory.cc, filehdr.cc, bitmap.cc) as its   *)
(* callers, one at a time, use it: Create, Open, Remove, the operations of an *)
(* OpenFile, and booting again, with or without formatting.  The bitmap and   *)
(* the directory are what their files hold: every operation fetches both.     *)
EXTENDS OpenFile, FiniteSets

CONSTANTS
    Name, Key,      \* names given by callers; names as directory entries hold them
    Prefix,         \* the first FileNameMaxLen characters of a name
    NumDirEntries,  \* filesys.cc
    MapSectors, DirSectors, \* data sectors of the bitmap's and the directory's file
    Handle,         \* OpenFile objects
    Sizes,          \* sizes given to Create
    Offsets,        \* positions given to Seek, lengths given to Read
    Buffers         \* byte sequences given to Write

FreeMapSector == 0
DirectorySector == 1
Entry == 1 .. NumDirEntries

(* Formatting marks the two headers, then takes the lowest sectors for the    *)
(* bitmap and the directory.                                                  *)
Reserved == 0 .. 1 + MapSectors + DirSectors

ASSUME FileSystemAssumption ==
    /\ Prefix \in [Name -> Key]
    /\ NumDirEntries \in Nat
    /\ MapSectors \in Nat \ {0} /\ DirSectors \in Nat \ {0}
    /\ Reserved \subseteq Sector
    /\ Sizes \subseteq Nat
    /\ Offsets \subseteq Nat
    /\ Buffers \subseteq Seq(Byte)
    /\ NULL \notin Header
    /\ NULL \notin [name : Key, sector : Sector]
    /\ NULL \notin [name : Key, hdr : Header, seekPosition : Nat]

VARIABLES
    disk,       \* what the sectors outside Reserved hold
    freeMap,    \* the sectors marked in the bitmap file
    directory,  \* the directory file: NULL for an entry not in use
    handle,     \* each OpenFile: its header in memory, seekPosition, and, as history, its name
    result,     \* what the last Create, Remove or Open returned (TRUE: not NULL)
    broken      \* "overrun": Allocate has written past dataSectors;
                \* "header": a file's header has been written over; otherwise "no"

vars == <<disk, freeMap, directory, handle, result, broken>>

Closed == [h \in Handle |-> NULL]
NoFiles == [i \in Entry |-> NULL]
Blank == [o \in 0 .. SectorSize - 1 |-> Junk]

Init ==
    /\ disk = [s \in Sector |-> AsData(Blank)]
    /\ freeMap = Reserved
    /\ directory = NoFiles
    /\ handle = Closed
    /\ result = TRUE
    /\ broken = "no"
-----------------------------------------------------------------------------
(* BitMap and Directory.                                                      *)

NumClear(map) == Cardinality(Sector \ map)

(* Mutant: the sector found for the header is not marked.                     *)
MarkedData(found) == {found[j] : j \in DOMAIN found \ {1}}

(* BitMap::Mark, as a side effect of Find.                                    *)
Marked(found) == {found[j] : j \in DOMAIN found}

(* What BitMap::Find returns when called n times: the lowest clear sectors.   *)
Found(map, n) ==
    {found \in [1 .. n -> Sector \ map] :
        /\ \A i, k \in 1 .. n : i < k => found[i] < found[k]
        /\ \A i \in 1 .. n : \A c \in Sector \ map :
               c < found[i] => \E k \in 1 .. i - 1 : found[k] = c}

(* Directory::FindIndex and Find.                                             *)
Matches(i, k) == directory[i] # NULL /\ directory[i].name = k
InDirectory(k) == \E i \in Entry : Matches(i, k)

FindIndex(k, i) == Matches(i, k) /\ \A j \in 1 .. i - 1 : ~Matches(j, k)

(* The entry Directory::Add takes.                                            *)
FirstUnused(i) == directory[i] = NULL /\ \A j \in 1 .. i - 1 : directory[j] # NULL
-----------------------------------------------------------------------------
(* FileHeader.                                                                *)

(* FileHeader::WriteBack.                                                     *)
WriteBack(sector, hdr) == disk' = [disk EXCEPT ![sector] = AsHeader(hdr)]

(* Mutant: the header's own sector is not given back.                         *)
DeallocatedData(sector, hdr) == {hdr.dataSectors[j] : j \in DOMAIN hdr.dataSectors}

(* What Deallocate, and Remove itself, clear in the bitmap.                   *)
Deallocated(sector, hdr) == {hdr.dataSectors[j] : j \in DOMAIN hdr.dataSectors} \cup {sector}
-----------------------------------------------------------------------------
(* FileSystem.                                                                *)

(* Create gives up: the copies it changed in memory are discarded.            *)
CreateFails(n, size) ==
    /\ broken = "no"
    /\ \/ InDirectory(Prefix[n])
       \/ NumClear(freeMap) = 0
       \/ \A i \in Entry : directory[i] # NULL
       \/ NumClear(freeMap) - 1 < divRoundUp(size, SectorSize)
    /\ result' = FALSE
    /\ UNCHANGED <<disk, freeMap, directory, handle, broken>>

(* Create finds everything it needs and writes the header, the directory and  *)
(* the bitmap.                                                                *)
Create(n, size) ==
    /\ broken = "no"
    /\ ~InDirectory(Prefix[n])
    /\ divRoundUp(size, SectorSize) <= NumDirect
    /\ NumClear(freeMap) - 1 >= divRoundUp(size, SectorSize)
    /\ \E found \in Found(freeMap, 1 + divRoundUp(size, SectorSize)), i \in Entry :
          LET sector == found[1]
              data   == [j \in 1 .. divRoundUp(size, SectorSize) |-> found[j + 1]]
          IN  /\ FirstUnused(i)
              /\ WriteBack(sector, [numBytes |-> size, dataSectors |-> data])
              /\ directory' = [directory EXCEPT ![i] = [name |-> Prefix[n], sector |-> sector]]
              /\ freeMap' = freeMap \cup Marked(found)
    /\ result' = TRUE
    /\ UNCHANGED <<handle, broken>>

(* The file needs more sectors than a header has room for, and the disk has   *)
(* them: Allocate's loop writes past dataSectors.  What follows is undefined. *)
CreateOverruns(n, size) ==
    /\ broken = "no"
    /\ ~InDirectory(Prefix[n])
    /\ divRoundUp(size, SectorSize) > NumDirect
    /\ NumClear(freeMap) - 1 >= divRoundUp(size, SectorSize)
    /\ \E i \in Entry : directory[i] = NULL
    /\ broken' = "overrun"
    /\ UNCHANGED <<disk, freeMap, directory, handle, result>>

(* Open, and the OpenFile's constructor, which fetches the header.            *)
Open(h, n) ==
    /\ broken = "no"
    /\ handle[h] = NULL
    /\ result' = InDirectory(Prefix[n])
    /\ \/ ~result' /\ UNCHANGED handle
       \/ \E i \in Entry :
             /\ FindIndex(Prefix[n], i)
             /\ handle' = [handle EXCEPT ![h] =
                   [name |-> Prefix[n], hdr |-> disk[directory[i].sector].hdr, seekPosition |-> 0]]
    /\ UNCHANGED <<disk, freeMap, directory, broken>>

RemoveFails(n) ==
    /\ broken = "no"
    /\ ~InDirectory(Prefix[n])
    /\ result' = FALSE
    /\ UNCHANGED <<disk, freeMap, directory, handle, broken>>

(* Remove, whether the file is open or not; the header stays on the disk, in a *)
(* sector that is free.                                                       *)
Remove(n) ==
    /\ broken = "no"
    /\ \E i \in Entry :
          LET sector == directory[i].sector IN
          /\ FindIndex(Prefix[n], i)
          /\ freeMap' = freeMap \ Deallocated(sector, disk[sector].hdr)
          /\ directory' = [directory EXCEPT ![i] = NULL]
    /\ result' = TRUE
    /\ UNCHANGED <<disk, handle, broken>>
-----------------------------------------------------------------------------
(* OpenFile.                                                                  *)

Seek(h, position) ==
    /\ broken = "no"
    /\ handle[h] # NULL
    /\ handle' = [handle EXCEPT ![h].seekPosition = position]
    /\ UNCHANGED <<disk, freeMap, directory, result, broken>>

Read(h, numBytes) ==
    /\ broken = "no"
    /\ handle[h] # NULL
    /\ handle' = [handle EXCEPT ![h].seekPosition =
                     @ + Len(ReadAt(disk, handle[h].hdr, numBytes, @))]
    /\ UNCHANGED <<disk, freeMap, directory, result, broken>>

(* The disk Write leaves.                                                     *)
Written(h, from) == WriteAt(disk, handle[h].hdr, from, handle[h].seekPosition)

(* The sectors written, which a removed file had, hold the header of another. *)
LosesHeader(h, from) ==
    \E i \in Entry :
        directory[i] # NULL /\ Written(h, from)[directory[i].sector] # disk[directory[i].sector]

Write(h, from) ==
    /\ broken = "no"
    /\ handle[h] # NULL
    /\ ~LosesHeader(h, from)
    /\ disk' = Written(h, from)
    /\ handle' = [handle EXCEPT ![h].seekPosition = @ + Clipped(handle[h].hdr, Len(from), @)]
    /\ UNCHANGED <<freeMap, directory, result, broken>>

(* Write puts data where a header is.  What the file system does from then on *)
(* depends on those bytes read as a header: it is not followed.               *)
WriteOverHeader(h, from) ==
    /\ broken = "no"
    /\ handle[h] # NULL
    /\ LosesHeader(h, from)
    /\ broken' = "header"
    /\ UNCHANGED <<disk, freeMap, directory, handle, result>>

Close(h) ==
    /\ broken = "no"
    /\ handle[h] # NULL
    /\ handle' = [handle EXCEPT ![h] = NULL]
    /\ UNCHANGED <<disk, freeMap, directory, result, broken>>

(* Nachos is started again, on the same disk; with -f it formats it.          *)
Boot(format) ==
    /\ handle' = Closed
    /\ \/ ~format /\ UNCHANGED <<freeMap, directory>>
       \/ format /\ freeMap' = Reserved /\ directory' = NoFiles
    /\ broken = "no"
    /\ UNCHANGED <<disk, result, broken>>

Undefined == broken # "no" /\ UNCHANGED vars

MaxFileSize == NumDirect * SectorSize

Next ==
    \/ \E n \in Name, size \in Sizes :
          CreateFails(n, size) \/ Create(n, size) \/ CreateOverruns(n, size)
    \/ \E n \in Name : RemoveFails(n) \/ Remove(n)
    \/ \E h \in Handle, n \in Name : Open(h, n)
    \/ \E h \in Handle, position \in Offsets : Seek(h, position)
    \/ \E h \in Handle, numBytes \in Offsets : Read(h, numBytes)
    \/ \E h \in Handle, from \in Buffers : Write(h, from) \/ WriteOverHeader(h, from)
    \/ \E h \in Handle : Close(h)
    \/ \E format \in BOOLEAN : Boot(format)
    \/ Undefined

Spec == Init /\ [][Next]_vars
-----------------------------------------------------------------------------
(* Properties.                                                                *)

InUse == {i \in Entry : directory[i] # NULL}
HeaderOf(i) == disk[directory[i].sector].hdr

(* The sectors of a file: its header's and its data's.                        *)
Sectors(i) ==
    {directory[i].sector} \cup
        {HeaderOf(i).dataSectors[j] : j \in DOMAIN HeaderOf(i).dataSectors}

(* The sectors, the bitmap, the directory and the open files are what their   *)
(* classes declare; every entry in use points at a header.                    *)
TypeOK ==
    /\ disk \in [Sector -> Contained]
    /\ freeMap \subseteq Sector
    /\ directory \in [Entry -> [name : Key, sector : Sector] \cup {NULL}]
    /\ \A i \in InUse : HeaderOf(i) # NULL
    /\ handle \in [Handle -> [name : Key, hdr : Header, seekPosition : Nat] \cup {NULL}]
    /\ result \in BOOLEAN
    /\ broken \in {"no", "overrun", "header"}

(* The bitmap marks exactly the sectors in use: those of the bitmap and the   *)
(* directory themselves and those of the files in the directory.  None leaks, *)
(* none is in use unmarked, over any sequence of operations.                  *)
BitmapIsExact ==
    freeMap = Reserved \cup UNION {Sectors(i) : i \in InUse}

(* The data is none of the bitmap's or the directory's.                       *)
OutsideReserved(hdr) == \A j \in DOMAIN hdr.dataSectors : hdr.dataSectors[j] \notin Reserved

(* No sector belongs to two files, nor twice to one, nor to a file and the    *)
(* file system; not even through the OpenFile of a file that was removed is   *)
(* the bitmap or the directory written.                                       *)
FilesAreDisjoint ==
    /\ \A i \in InUse :
          LET d == HeaderOf(i).dataSectors IN
          /\ Sectors(i) \cap Reserved = {}
          /\ \A j, k \in DOMAIN d : d[j] = d[k] => j = k
          /\ \A j \in DOMAIN d : d[j] # directory[i].sector
    /\ \A i, j \in InUse : i # j => Sectors(i) \cap Sectors(j) = {} /\ directory[i].name # directory[j].name
    /\ \A h \in Handle : handle[h] # NULL => OutsideReserved(handle[h].hdr)

(* The header an OpenFile keeps in memory is that of its file on the disk.    *)
Current(h) ==
    /\ handle[h] # NULL
    /\ \E i \in InUse : directory[i].name = handle[h].name /\ HeaderOf(i) = handle[h].hdr

(* An OpenFile stays current, whatever is created, removed, opened or written *)
(* besides, until it is closed or its own file is removed (Remove does not    *)
(* ask whether the file is open), and while it is it writes over no header.   *)
OnlyRemoveMakesStale ==
    [][\A h \in Handle : Current(h) =>
          /\ \A from \in Buffers : ~LosesHeader(h, from)
          /\ \/ handle'[h] = NULL
             \/ Current(h)'
             \/ \E n \in Name : Prefix[n] = handle[h].name /\ Remove(n)]_vars

(* ReadAt returns the bytes of the file from the position on, as many as were *)
(* asked for and are there, whatever the alignment.                           *)
ReadAtReturnsContents ==
    \A i \in InUse : \A position, numBytes \in 0 .. MaxFileSize :
        LET contents == Contents(disk, HeaderOf(i))
            there    == {p \in DOMAIN contents : p >= position /\ p < position + numBytes}
        IN  ReadAt(disk, HeaderOf(i), numBytes, position) =
                [q \in 1 .. Cardinality(there) |-> contents[position + q - 1]]

(* The files, as callers see them: entries in use, and the bytes of each.     *)
FileNames == {directory[i].name : i \in InUse}
EntryOf(k) == CHOOSE i \in InUse : directory[i].name = k
Files == [k \in FileNames |-> Contents(disk, HeaderOf(EntryOf(k)))]

Store == INSTANCE FileStore WITH
    files     <- Files,
    free      <- NumClear(freeMap),
    Value     <- Byte \cup {Junk},
    MaxFiles  <- NumDirEntries,
    Capacity  <- NumSectors - Cardinality(Reserved),
    Lengths   <- Sizes,
    Positions <- 0 .. MaxFileSize

(* A write through an OpenFile whose file has been removed: the sectors may   *)
(* be another file's by now.                                                  *)
StaleWrite ==
    \E h \in Handle, from \in Buffers :
        ~Current(h) /\ (Write(h, from) \/ WriteOverHeader(h, from))

(* Such writes apart, the file system keeps what FileStore promises: Create   *)
(* fails for the four documented reasons only, however space was used before; *)
(* Remove gives back all of a file's sectors; a file keeps its bytes until    *)
(* they are written or it is removed; no write reaches another file.          *)
ImplementsFileStore ==
    Store!Init /\ [][StaleWrite \/ Store!Next]_<<Files, NumClear(freeMap), result>>

(* A file is never too long for its header: "Without indirect addressing,     *)
(* this limits the maximum file length to just under 4K bytes" (filehdr.h).   *)
FilesFitTheirHeaders == broken # "overrun"
=============================================================================
