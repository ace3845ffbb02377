-------------------------- MODULE FileSystemProofs ---------------------------
(* Proofs, for disks, directories and files of any size, of the properties of *)
(* FileSystem that its bitmap and directory are to keep, that ReadAt returns  *)
(* the bytes of the file, and that the file system implements FileStore.      *)
EXTENDS FileSystem, TLAPS

(* The bitmap and the directory.                                              *)

(* Division with remainder, as the provers know it.                           *)
LEMMA DivMod ==
    ASSUME NEW a \in Nat, NEW s \in Nat \ {0}
    PROVE  /\ a \div s \in Nat /\ a % s \in Nat /\ a % s < s
           /\ a = s * (a \div s) + (a % s)
OBVIOUS

(* Multiplication is monotonic.                                               *)
LEMMA Monotonic ==
    ASSUME NEW s \in Nat \ {0}, NEW x \in Nat, NEW y \in Nat, x >= y
    PROVE  s * x >= s * y
OBVIOUS

(* Sectors and bytes.                                                         *)
LEMMA Products ==
    ASSUME NEW s \in Nat, NEW x \in Nat
    PROVE  s * x \in Nat /\ x * s = s * x /\ (x + 1) * s = s * x + s
OBVIOUS

(* A byte before the end of a file lies in one of its sectors.                *)
LEMMA ByteInSector ==
    ASSUME NEW p \in Nat, NEW m \in Nat, p < m, NEW s \in Nat \ {0}
    PROVE  (p \div s) + 1 \in 1 .. divRoundUp(m, s)
<1> DEFINE q == p \div s
           r == p % s
           u == m \div s
           v == m % s
<1>1. q \in Nat /\ r \in Nat /\ r < s /\ p = s * q + r
  BY DivMod
<1>2. u \in Nat /\ v \in Nat /\ v < s /\ m = s * u + v
  BY DivMod
<1>3. divRoundUp(m, s) = u + (IF v > 0 THEN 1 ELSE 0)
  BY DEF divRoundUp
<1> HIDE DEF q, r, u, v
<1>4. CASE v = 0
  <2>1. s * q < s * u
    BY <1>1, <1>2, <1>4
  <2>2. q < u
    BY <1>1, <1>2, <2>1, Monotonic
  <2>3. QED BY <1>1, <1>2, <1>3, <1>4, <2>2 DEF q
<1>5. CASE v > 0
  <2>1. ASSUME q > u PROVE FALSE
    <3>1. s * q >= s * (u + 1)
      BY <1>1, <1>2, <2>1, Monotonic
    <3>2. s * (u + 1) = s * u + s
      BY <1>2
    <3>3. QED BY <1>1, <1>2, <3>1, <3>2
  <2>2. QED BY <1>1, <1>2, <1>3, <1>5, <2>1 DEF q
<1>6. QED BY <1>2, <1>4, <1>5

(* The sectors FileHeader::Allocate counts hold the bytes asked for.          *)
LEMMA EnoughSectors ==
    ASSUME NEW m \in Nat, NEW s \in Nat \ {0}
    PROVE  divRoundUp(m, s) \in Nat /\ m <= divRoundUp(m, s) * s
<1> DEFINE u == m \div s
           v == m % s
<1>1. u \in Nat /\ v \in Nat /\ v < s /\ m = s * u + v
  BY DivMod
<1>2. divRoundUp(m, s) = u + (IF v > 0 THEN 1 ELSE 0)
  BY DEF divRoundUp
<1> HIDE DEF u, v
<1>3. CASE v = 0
  BY <1>1, <1>2, <1>3
<1>4. CASE v > 0
  <2>1. (u + 1) * s = s * u + s
    BY <1>1
  <2>2. QED BY <1>1, <1>2, <1>4, <2>1
<1>5. QED BY <1>1, <1>3, <1>4
-----------------------------------------------------------------------------
(* Headers.                                                                   *)

(* What is known of a header.                                                 *)
LEMMA HeaderShape ==
    ASSUME NEW hdr \in Header
    PROVE  /\ hdr.numBytes \in Nat
           /\ divRoundUp(hdr.numBytes, SectorSize) \in Nat
           /\ hdr.dataSectors \in [1 .. divRoundUp(hdr.numBytes, SectorSize) -> Sector]
<1>1. PICK n \in 0 .. NumDirect :
         hdr \in [numBytes    : {m \in 0 .. n * SectorSize : divRoundUp(m, SectorSize) = n},
                  dataSectors : [1 .. n -> Sector]]
  BY DEF Header
<1>2. hdr.numBytes \in 0 .. n * SectorSize /\ divRoundUp(hdr.numBytes, SectorSize) = n
  BY <1>1
<1>3. hdr.dataSectors \in [1 .. n -> Sector]
  BY <1>1
<1>4. n \in Nat /\ n * SectorSize \in Nat
  BY OpenFileAssumption
<1>5. QED BY <1>2, <1>3, <1>4

(* What Create writes is a header.                                            *)
LEMMA HeaderMade ==
    ASSUME NEW size \in Nat, divRoundUp(size, SectorSize) <= NumDirect,
           NEW data \in [1 .. divRoundUp(size, SectorSize) -> Sector]
    PROVE  [numBytes |-> size, dataSectors |-> data] \in Header
<1> DEFINE n == divRoundUp(size, SectorSize)
<1>1. n \in Nat /\ size <= n * SectorSize
  BY EnoughSectors, OpenFileAssumption
<1>2. n \in 0 .. NumDirect /\ n * SectorSize \in Nat
  BY <1>1, OpenFileAssumption
<1>3. size \in {m \in 0 .. n * SectorSize : divRoundUp(m, SectorSize) = n}
  BY <1>1, <1>2
<1> HIDE DEF n
<1>4. data \in [1 .. n -> Sector]
  BY DEF n
<1>5. [numBytes |-> size, dataSectors |-> data] \in
        [numBytes    : {m \in 0 .. n * SectorSize : divRoundUp(m, SectorSize) = n},
         dataSectors : [1 .. n -> Sector]]
  BY <1>3, <1>4
<1>6. QED BY <1>2, <1>5 DEF Header

(* A sector written as a header or as data.                                   *)
LEMMA SectorTypes ==
    /\ \A hdr \in Header : AsHeader(hdr) \in Contained /\ AsHeader(hdr).hdr = hdr
    /\ \A data \in Data : AsData(data) \in Contained /\ AsData(data).hdr = NULL
<1>1. [o \in 0 .. SectorSize - 1 |-> Junk] \in Data
  BY DEF Data
<1>2. QED BY <1>1 DEF AsHeader, AsData, Contained

(* How many bytes a transfer moves.                                           *)
LEMMA ClippedTypes ==
    ASSUME NEW hdr \in Header, NEW n \in Nat, NEW position \in Nat
    PROVE  /\ Clipped(hdr, n, position) \in Nat
           /\ Clipped(hdr, n, position) <= n
           /\ Clipped(hdr, n, position) > 0 => position + Clipped(hdr, n, position) <= hdr.numBytes
BY HeaderShape DEF Clipped

(* A byte of a file is a byte.                                                *)
LEMMA ByteTypes ==
    ASSUME NEW d \in [Sector -> Contained], NEW hdr \in Header, NEW p \in Nat, p < hdr.numBytes
    PROVE  ByteAt(d, hdr, p) \in Byte \cup {Junk}
<1>1. (p \div SectorSize) + 1 \in 1 .. divRoundUp(hdr.numBytes, SectorSize)
  BY Zenon, ByteInSector, HeaderShape, OpenFileAssumption
<1>2. ByteToSector(hdr, p) \in Sector
  BY <1>1, HeaderShape DEF ByteToSector
<1>3. d[ByteToSector(hdr, p)] \in Contained
  BY <1>2
<1>4. d[ByteToSector(hdr, p)].data \in Data
  BY <1>3 DEF Contained
<1>5. p % SectorSize \in 0 .. SectorSize - 1
  BY DivMod, OpenFileAssumption
<1>6. QED BY Zenon, <1>4, <1>5 DEF ByteAt, Data

(* WriteAt changes data sectors of its file only, and leaves data in them.    *)
LEMMA WriteAtEffect ==
    ASSUME NEW d \in [Sector -> Contained], NEW hdr \in Header,
           NEW from \in Seq(Byte), NEW position \in Nat
    PROVE  /\ WriteAt(d, hdr, from, position) \in [Sector -> Contained]
           /\ \A s \in Sector :
                 s \notin {hdr.dataSectors[j] : j \in DOMAIN hdr.dataSectors} =>
                     WriteAt(d, hdr, from, position)[s] = d[s]
<1> DEFINE n     == Clipped(hdr, Len(from), position)
           first == FirstSector(position)
           last  == LastSector(position, n)
           buf   == WriteBuffer(d, hdr, from, n, position)
<1>0. /\ n \in Nat /\ n <= Len(from) /\ Len(from) \in Nat
      /\ n > 0 => position + n <= hdr.numBytes
  <2>1. Len(from) \in Nat
    OBVIOUS
  <2>2. QED BY Zenon, <2>1, ClippedTypes
<1>1. CASE n = 0
  BY <1>1 DEF WriteAt
<1>2. CASE n > 0
  <2>1. /\ first \in Nat /\ last \in Nat
        /\ last + 1 \in 1 .. divRoundUp(hdr.numBytes, SectorSize)
    <3>1. position + n - 1 \in Nat /\ position + n - 1 < hdr.numBytes
      BY <1>0, <1>2, HeaderShape
    <3>2. ((position + n - 1) \div SectorSize) + 1 \in 1 .. divRoundUp(hdr.numBytes, SectorSize)
      BY Zenon, <3>1, ByteInSector, HeaderShape, OpenFileAssumption
    <3>3. position \div SectorSize \in Nat /\ (position + n - 1) \div SectorSize \in Nat
      BY Zenon, <3>1, DivMod, OpenFileAssumption
    <3>4. QED BY <3>2, <3>3 DEF FirstSector, LastSector
  <2>2. \A p \in first * SectorSize .. (last + 1) * SectorSize - 1 : buf[p] \in Byte \cup {Junk}
    <3> SUFFICES ASSUME NEW p \in first * SectorSize .. (last + 1) * SectorSize - 1
                 PROVE  buf[p] \in Byte \cup {Junk}
      OBVIOUS
    <3>0. p \in Nat
      <4>1. first * SectorSize \in Nat /\ (last + 1) * SectorSize \in Nat
        <5>1. first \in Nat /\ last + 1 \in Nat /\ SectorSize \in Nat
          BY ONLY <2>1, OpenFileAssumption
        <5> HIDE DEF first, last
        <5>2. QED BY ONLY Zenon, <5>1, Products
      <4>2. QED BY <4>1
    <3>1. buf[p] = IF p \in position .. position + n - 1 THEN from[p - position + 1]
                   ELSE IF /\ p < hdr.numBytes
                           /\ \/ ReadsFirst(position) /\ p \div SectorSize = first
                              \/ ReadsLast(position, n) /\ p \div SectorSize = last
                        THEN ByteAt(d, hdr, p)
                        ELSE Junk
      BY DEF WriteBuffer
    <3>2. CASE p \in position .. position + n - 1
      <4>1. p - position + 1 \in 1 .. Len(from)
        BY <1>0, <3>0, <3>2
      <4>2. from[p - position + 1] \in Byte
        BY <4>1
      <4>3. QED BY <3>1, <3>2, <4>2
    <3>3. CASE p \notin position .. position + n - 1 /\ p < hdr.numBytes
      BY <3>0, <3>1, <3>3, ByteTypes
    <3>4. CASE p \notin position .. position + n - 1 /\ ~(p < hdr.numBytes)
      BY <3>1, <3>4
    <3>5. QED BY <3>2, <3>3, <3>4
  <2> DEFINE Hit(s, i) == i \in first .. last /\ hdr.dataSectors[i + 1] = s
             written(i) == AsData([o \in 0 .. SectorSize - 1 |-> buf[i * SectorSize + o]])
  <2>3. \A i \in first .. last : written(i) \in Contained
    <3> SUFFICES ASSUME NEW i \in first .. last PROVE written(i) \in Contained
      BY Zenon
    <3>1. ASSUME NEW o \in 0 .. SectorSize - 1
          PROVE  i * SectorSize + o \in first * SectorSize .. (last + 1) * SectorSize - 1
      <4> HIDE DEF first, last, buf
      <4>1. i \in Nat /\ i >= first /\ i <= last
        BY <2>1
      <4>2. SectorSize * i >= SectorSize * first /\ SectorSize * last >= SectorSize * i
        BY <2>1, <4>1, Monotonic, OpenFileAssumption
      <4>3. /\ i * SectorSize = SectorSize * i /\ first * SectorSize = SectorSize * first
            /\ (last + 1) * SectorSize = SectorSize * last + SectorSize
            /\ SectorSize * i \in Nat /\ SectorSize * first \in Nat /\ SectorSize * last \in Nat
        BY <2>1, <4>1, Products, OpenFileAssumption
      <4>4. QED BY <4>2, <4>3, OpenFileAssumption
    <3> HIDE DEF buf, first, last
    <3>2. [o \in 0 .. SectorSize - 1 |-> buf[i * SectorSize + o]] \in Data
      BY <2>2, <3>1 DEF Data
    <3>3. QED BY <3>2, SectorTypes
  <2>4. WriteAt(d, hdr, from, position) =
           [s \in Sector |-> IF \E i \in first .. last : hdr.dataSectors[i + 1] = s
                             THEN written(CHOOSE i \in first .. last : hdr.dataSectors[i + 1] = s)
                             ELSE d[s]]
    <3>1. n # 0
      BY <1>0, <1>2
    <3>2. QED BY <3>1, Zenon DEF WriteAt
  <2>5. \A i \in first .. last : i + 1 \in DOMAIN hdr.dataSectors
    <3> HIDE DEF first, last
    <3>1. DOMAIN hdr.dataSectors = 1 .. divRoundUp(hdr.numBytes, SectorSize)
      BY HeaderShape
    <3>2. divRoundUp(hdr.numBytes, SectorSize) \in Nat
      BY HeaderShape
    <3>3. QED BY <2>1, <3>1, <3>2
  <2> HIDE DEF first, last, written
  <2>6. WriteAt(d, hdr, from, position) \in [Sector -> Contained]
    BY <2>3, <2>4
  <2>7. QED BY <2>4, <2>5, <2>6
<1>3. QED BY <1>0, <1>1, <1>2
-----------------------------------------------------------------------------
(* The invariant: each of its parts needs the others.  New sectors are        *)
(* nobody's because the bitmap is exact; it stays exact because the sectors   *)
(* Remove clears are no other file's.                                         *)
IInv == TypeOK /\ BitmapIsExact /\ FilesAreDisjoint

(* FilesAreDisjoint's part about open files, removed ones among them.         *)
HandlesOutside == \A h \in Handle : handle[h] # NULL => OutsideReserved(handle[h].hdr)

(* A step that opens no file.                                                 *)
LEMMA OutsideKept ==
    ASSUME FilesAreDisjoint,
           \A g \in Handle : handle'[g] # NULL =>
               handle[g] # NULL /\ handle'[g].hdr = handle[g].hdr
    PROVE  HandlesOutside'
<1>1. \A g \in Handle : handle[g] # NULL => OutsideReserved(handle[g].hdr)
  BY Zenon DEF FilesAreDisjoint
<1>2. ASSUME NEW g \in Handle, handle'[g] # NULL PROVE OutsideReserved(handle'[g].hdr)
  BY Zenon, <1>1, <1>2
<1>3. QED BY Zenon, <1>2 DEF HandlesOutside, OutsideReserved

(* A step that leaves the directory, the bitmap and the headers of the files  *)
(* in it as they are.                                                         *)
LEMMA FilesUnmoved ==
    ASSUME BitmapIsExact, FilesAreDisjoint,
           directory' = directory, freeMap' = freeMap, HandlesOutside',
           \A i \in InUse : disk'[directory[i].sector].hdr = disk[directory[i].sector].hdr
    PROVE  /\ InUse' = InUse
           /\ \A i \in InUse : HeaderOf(i)' = HeaderOf(i)
           /\ BitmapIsExact' /\ FilesAreDisjoint'
<1>1. InUse' = InUse
  BY DEF InUse
<1>2. \A i \in InUse : HeaderOf(i)' = HeaderOf(i)
  BY DEF HeaderOf
<1>3. \A i \in InUse : Sectors(i)' = Sectors(i)
  BY <1>2 DEF Sectors
<1>4. BitmapIsExact'
  BY <1>1, <1>3 DEF BitmapIsExact
<1>5. FilesAreDisjoint'
  BY <1>1, <1>2, <1>3 DEF FilesAreDisjoint, HandlesOutside
<1>6. QED BY <1>1, <1>2, <1>4, <1>5

(* A step that only moves the seek position of an open file.                  *)
LEMMA HandleMoved ==
    ASSUME TypeOK, NEW h \in Handle, handle[h] # NULL, NEW q \in Nat,
           handle' = [handle EXCEPT ![h] = [handle[h] EXCEPT !.seekPosition = q]]
    PROVE  /\ handle' \in [Handle -> [name : Key, hdr : Header, seekPosition : Nat] \cup {NULL}]
           /\ \A g \in Handle : handle'[g] # NULL =>
                 /\ handle[g] # NULL
                 /\ handle'[g].name = handle[g].name /\ handle'[g].hdr = handle[g].hdr
<1>1. handle[h] \in [name : Key, hdr : Header, seekPosition : Nat]
  BY DEF TypeOK
<1>2. /\ [handle[h] EXCEPT !.seekPosition = q] \in [name : Key, hdr : Header, seekPosition : Nat]
      /\ [handle[h] EXCEPT !.seekPosition = q].name = handle[h].name
      /\ [handle[h] EXCEPT !.seekPosition = q].hdr = handle[h].hdr
  BY <1>1
<1>3. handle \in [Handle -> [name : Key, hdr : Header, seekPosition : Nat] \cup {NULL}]
  BY DEF TypeOK
<1>4. QED BY <1>2, <1>3

(* The disk of Init and the directory of a formatted disk.                    *)
LEMMA InvariantInit == Init => IInv
<1> SUFFICES ASSUME Init PROVE IInv
  OBVIOUS
<1>1. InUse = {}
  BY DEF Init, InUse, NoFiles
<1>2. Blank \in Data
  BY DEF Blank, Data
<1>3. TypeOK
  <2>1. disk \in [Sector -> Contained]
    BY <1>2, SectorTypes DEF Init
  <2>2. freeMap \subseteq Sector
    BY FileSystemAssumption DEF Init
  <2>3. directory \in [Entry -> [name : Key, sector : Sector] \cup {NULL}]
    BY DEF Init, NoFiles
  <2>4. handle \in [Handle -> [name : Key, hdr : Header, seekPosition : Nat] \cup {NULL}]
    BY DEF Init, Closed
  <2>5. result \in BOOLEAN /\ broken \in {"no", "overrun", "header"}
    BY Zenon DEF Init
  <2>6. QED BY <1>1, <2>1, <2>2, <2>3, <2>4, <2>5 DEF TypeOK
<1>4. BitmapIsExact
  BY <1>1 DEF Init, BitmapIsExact
<1>5. FilesAreDisjoint
  BY <1>1 DEF Init, Closed, FilesAreDisjoint
<1>6. QED BY <1>3, <1>4, <1>5 DEF IInv

(* Booting, with -f or without.                                               *)
LEMMA BootStep == ASSUME IInv, NEW format \in BOOLEAN, Boot(format) PROVE IInv'
<1>1. /\ handle' = Closed /\ disk' = disk /\ result' = result /\ broken' = broken
  BY DEF Boot
<1>2. handle' \in [Handle -> [name : Key, hdr : Header, seekPosition : Nat] \cup {NULL}]
  BY <1>1 DEF Closed
<1>3. HandlesOutside'
  BY Zenon, <1>1 DEF Closed, HandlesOutside
<1>4. CASE freeMap' = freeMap /\ directory' = directory
  <2>1. InUse' = InUse /\ (\A i \in InUse : HeaderOf(i)' = HeaderOf(i))
        /\ BitmapIsExact' /\ FilesAreDisjoint'
    BY <1>1, <1>3, <1>4, FilesUnmoved DEF IInv
  <2>2. TypeOK'
    BY Zenon, <1>1, <1>2, <1>4, <2>1 DEF IInv, TypeOK
  <2>3. QED BY <2>1, <2>2 DEF IInv
<1>5. CASE freeMap' = Reserved /\ directory' = NoFiles
  <2>1. InUse' = {}
    BY <1>5 DEF InUse, NoFiles
  <2>2. directory' \in [Entry -> [name : Key, sector : Sector] \cup {NULL}]
    BY Zenon, <1>5 DEF NoFiles
  <2>3. TypeOK'
    BY <1>1, <1>2, <1>5, <2>1, <2>2, FileSystemAssumption DEF IInv, TypeOK
  <2>4. BitmapIsExact' /\ FilesAreDisjoint'
    BY <1>3, <1>5, <2>1 DEF BitmapIsExact, FilesAreDisjoint, HandlesOutside
  <2>5. QED BY <2>3, <2>4 DEF IInv
<1>6. QED BY <1>4, <1>5 DEF Boot

(* Seek and Read move the position of one open file.                          *)
LEMMA MoveStep ==
    ASSUME IInv, NEW h \in Handle, handle[h] # NULL, NEW q \in Nat,
           handle' = [handle EXCEPT ![h] = [handle[h] EXCEPT !.seekPosition = q]],
           UNCHANGED <<disk, freeMap, directory, result, broken>>
    PROVE  IInv'
<1>1. /\ handle' \in [Handle -> [name : Key, hdr : Header, seekPosition : Nat] \cup {NULL}]
      /\ \A g \in Handle : handle'[g] # NULL =>
            /\ handle[g] # NULL
            /\ handle'[g].name = handle[g].name /\ handle'[g].hdr = handle[g].hdr
  BY Zenon, HandleMoved DEF IInv
<1>2. InUse' = InUse /\ (\A i \in InUse : HeaderOf(i)' = HeaderOf(i))
      /\ BitmapIsExact' /\ FilesAreDisjoint'
  <2>1. HandlesOutside'
    BY Zenon, <1>1, OutsideKept DEF IInv
  <2>2. QED BY <2>1, FilesUnmoved DEF IInv
<1>3. TypeOK'
  BY <1>1, <1>2 DEF IInv, TypeOK
<1>4. QED BY <1>2, <1>3 DEF IInv

(* Write: the sectors it writes hold nobody's header, whoever has them by now. *)
LEMMA WriteStep == ASSUME IInv, NEW h \in Handle, NEW from \in Buffers, Write(h, from) PROVE IInv'
<1> DEFINE hdr      == handle[h].hdr
           position == handle[h].seekPosition
           q        == position + Clipped(hdr, Len(from), position)
<1>1. /\ handle[h] # NULL
      /\ disk' = WriteAt(disk, hdr, from, position)
      /\ handle' = [handle EXCEPT ![h] = [handle[h] EXCEPT !.seekPosition = q]]
      /\ UNCHANGED <<freeMap, directory, result, broken>>
  BY DEF Write, Written
<1>2. /\ hdr \in Header /\ position \in Nat /\ from \in Seq(Byte) /\ Len(from) \in Nat
      /\ disk \in [Sector -> Contained]
  <2>1. handle[h] \in [name : Key, hdr : Header, seekPosition : Nat]
    BY <1>1 DEF IInv, TypeOK
  <2>2. from \in Seq(Byte)
    BY FileSystemAssumption
  <2>3. QED BY <2>1, <2>2 DEF IInv, TypeOK
<1> HIDE DEF hdr, position
<1>3. q \in Nat
  <2>1. Clipped(hdr, Len(from), position) \in Nat
    BY Zenon, <1>2, ClippedTypes
  <2>2. QED BY <1>2, <2>1
<1> HIDE DEF q
<1>4. /\ disk' \in [Sector -> Contained]
      /\ \A s \in Sector :
            s \notin {hdr.dataSectors[j] : j \in DOMAIN hdr.dataSectors} => disk'[s] = disk[s]
  BY <1>1, <1>2, WriteAtEffect
<1>5. \A i \in InUse : disk'[directory[i].sector].hdr = disk[directory[i].sector].hdr
  BY Zenon DEF Write, LosesHeader, InUse
<1>6. /\ handle' \in [Handle -> [name : Key, hdr : Header, seekPosition : Nat] \cup {NULL}]
      /\ \A g \in Handle : handle'[g] # NULL =>
            /\ handle[g] # NULL
            /\ handle'[g].name = handle[g].name /\ handle'[g].hdr = handle[g].hdr
  BY Zenon, <1>1, <1>3, HandleMoved DEF IInv
<1>7. InUse' = InUse /\ (\A i \in InUse : HeaderOf(i)' = HeaderOf(i))
      /\ BitmapIsExact' /\ FilesAreDisjoint'
  <2>1. HandlesOutside'
    BY Zenon, <1>6, OutsideKept DEF IInv
  <2>2. QED BY <1>1, <1>5, <2>1, FilesUnmoved DEF IInv
<1>8. TypeOK'
  BY <1>1, <1>4, <1>6, <1>7 DEF IInv, TypeOK
<1>9. QED BY <1>7, <1>8 DEF IInv

(* Open, successful or not, and Close.                                        *)
LEMMA OpenCloseStep ==
    ASSUME IInv, NEW h \in Handle,
           \/ \E n \in Name : Open(h, n)
           \/ Close(h)
    PROVE  IInv'
<1>1. UNCHANGED <<disk, freeMap, directory, broken>> /\ result' \in BOOLEAN
  BY Zenon DEF Open, Close, InDirectory, IInv, TypeOK
<1>2. /\ handle \in [Handle -> [name : Key, hdr : Header, seekPosition : Nat] \cup {NULL}]
      /\ \A g \in Handle : handle[g] # NULL => OutsideReserved(handle[g].hdr)
  BY Zenon DEF IInv, TypeOK, FilesAreDisjoint
<1>3. SUFFICES /\ handle' \in [Handle -> [name : Key, hdr : Header, seekPosition : Nat] \cup {NULL}]
               /\ \A g \in Handle : handle'[g] # NULL => OutsideReserved(handle'[g].hdr)
  <2>1. HandlesOutside'
    BY Zenon, <1>3 DEF HandlesOutside, OutsideReserved
  <2>2. InUse' = InUse /\ (\A i \in InUse : HeaderOf(i)' = HeaderOf(i))
        /\ BitmapIsExact' /\ FilesAreDisjoint'
    BY Zenon, <1>1, <2>1, FilesUnmoved DEF IInv
  <2>3. TypeOK'
    BY <1>1, <1>3, <2>2 DEF IInv, TypeOK
  <2>4. QED BY <2>2, <2>3 DEF IInv
<1>4. CASE handle' = handle
  BY Zenon, <1>2, <1>4
<1>5. CASE handle' = [handle EXCEPT ![h] = NULL]
  BY Zenon, <1>2, <1>5
<1>6. ASSUME NEW n \in Name, NEW i \in Entry, FindIndex(Prefix[n], i),
             handle' = [handle EXCEPT ![h] =
                [name |-> Prefix[n], hdr |-> disk[directory[i].sector].hdr, seekPosition |-> 0]]
      PROVE  /\ handle' \in [Handle -> [name : Key, hdr : Header, seekPosition : Nat] \cup {NULL}]
             /\ \A g \in Handle : handle'[g] # NULL => OutsideReserved(handle'[g].hdr)
  <2>1. i \in InUse /\ directory[i].name = Prefix[n]
    BY Zenon, <1>6 DEF FindIndex, Matches, InUse
  <2>2. HeaderOf(i) \in Header
    <3>1. directory[i].sector \in Sector
      BY Zenon, <2>1 DEF IInv, TypeOK, InUse
    <3>2. disk[directory[i].sector] \in Contained
      BY <3>1 DEF IInv, TypeOK
    <3>3. QED BY Zenon, <2>1, <3>2 DEF IInv, TypeOK, HeaderOf, Contained
  <2>3. Prefix[n] \in Key
    BY Zenon, FileSystemAssumption
  <2> DEFINE new == [name |-> Prefix[n], hdr |-> HeaderOf(i), seekPosition |-> 0]
  <2>4. new \in [name : Key, hdr : Header, seekPosition : Nat]
        /\ new.hdr = HeaderOf(i)
    BY Zenon, <2>2, <2>3
  <2>5. handle' = [handle EXCEPT ![h] = new]
    BY <1>6 DEF HeaderOf
  <2> HIDE DEF new
  <2>6. OutsideReserved(HeaderOf(i))
    <3>1. Sectors(i) \cap Reserved = {}
      BY Zenon, <2>1 DEF IInv, FilesAreDisjoint
    <3>2. QED BY Zenon, <3>1 DEF OutsideReserved, Sectors
  <2>7. QED BY Zenon, <1>2, <2>4, <2>5, <2>6
<1>7. QED BY Zenon, <1>4, <1>5, <1>6 DEF Open, Close

(* Remove gives back the sectors of one file, which are no other's.           *)
LEMMA RemoveStep == ASSUME IInv, NEW n \in Name, Remove(n) PROVE IInv'
<1>1. PICK i \in Entry :
         /\ FindIndex(Prefix[n], i)
         /\ freeMap' = freeMap \ Deallocated(directory[i].sector, disk[directory[i].sector].hdr)
         /\ directory' = [directory EXCEPT ![i] = NULL]
  BY Zenon DEF Remove
<1>2. UNCHANGED <<disk, handle, broken>> /\ result' = TRUE
  BY Zenon DEF Remove
<1>3. i \in InUse /\ directory[i].name = Prefix[n]
  BY Zenon, <1>1 DEF FindIndex, Matches, InUse
<1>4. freeMap' = freeMap \ Sectors(i)
  BY Zenon, <1>1 DEF Deallocated, Sectors, HeaderOf
<1>5. /\ directory \in [Entry -> [name : Key, sector : Sector] \cup {NULL}]
      /\ directory' \in [Entry -> [name : Key, sector : Sector] \cup {NULL}]
      /\ \A j \in Entry : j # i => directory'[j] = directory[j]
      /\ directory'[i] = NULL
  BY <1>1 DEF IInv, TypeOK
<1>6. InUse' = InUse \ {i}
  BY Zenon, <1>5 DEF InUse
<1>7. \A j \in InUse \ {i} : HeaderOf(j)' = HeaderOf(j) /\ Sectors(j)' = Sectors(j)
  <2> SUFFICES ASSUME NEW j \in InUse \ {i} PROVE HeaderOf(j)' = HeaderOf(j) /\ Sectors(j)' = Sectors(j)
    BY Zenon
  <2>1. directory'[j] = directory[j] /\ disk' = disk
    BY Zenon, <1>2, <1>5 DEF InUse
  <2>2. QED BY Zenon, <2>1 DEF HeaderOf, Sectors
<1>8. TypeOK'
  BY Zenon, <1>2, <1>4, <1>5, <1>6, <1>7 DEF IInv, TypeOK
<1>9. BitmapIsExact'
  <2>1. Sectors(i) \cap Reserved = {} /\ \A j \in InUse \ {i} : Sectors(i) \cap Sectors(j) = {}
    BY <1>3 DEF IInv, FilesAreDisjoint
  <2>2. freeMap = Reserved \cup UNION {Sectors(j) : j \in InUse}
    BY Zenon DEF IInv, BitmapIsExact
  <2>3. freeMap' = Reserved \cup UNION {Sectors(j) : j \in InUse \ {i}}
    BY <1>3, <1>4, <2>1, <2>2
  <2>4. UNION {Sectors(j)' : j \in InUse'} = UNION {Sectors(j) : j \in InUse \ {i}}
    BY Zenon, <1>6, <1>7
  <2>5. QED BY Zenon, <2>3, <2>4 DEF BitmapIsExact
<1>10. FilesAreDisjoint'
  <2>1. \A j \in InUse \ {i} : directory'[j] = directory[j]
    BY Zenon, <1>5 DEF InUse
  <2>2. HandlesOutside'
    BY Zenon, <1>2, OutsideKept DEF IInv
  <2>3. QED BY <1>6, <1>7, <2>1, <2>2 DEF IInv, FilesAreDisjoint, HandlesOutside
<1>11. QED BY Zenon, <1>8, <1>9, <1>10 DEF IInv

(* What Create does to the directory, the bitmap and the disk: entry i gets a *)
(* header and data sectors that the bitmap did not mark, each another one, and *)
(* nothing else changes.                                                      *)
Created(n, size, found, i, hdr) ==
    /\ found \in [1 .. 1 + divRoundUp(size, SectorSize) -> Sector \ freeMap]
    /\ \A a, b \in DOMAIN found : found[a] = found[b] => a = b
    /\ hdr \in Header /\ hdr.numBytes = size
    /\ \A j, m \in DOMAIN hdr.dataSectors : hdr.dataSectors[j] = hdr.dataSectors[m] => j = m
    /\ \A j \in DOMAIN hdr.dataSectors : hdr.dataSectors[j] # directory'[i].sector
    /\ i \notin InUse /\ InUse' = InUse \cup {i}
    /\ directory'[i].name = Prefix[n] /\ HeaderOf(i)' = hdr /\ Sectors(i)' = Marked(found)
    /\ \A j \in InUse : /\ directory'[j] = directory[j]
                        /\ HeaderOf(j)' = HeaderOf(j) /\ Sectors(j)' = Sectors(j)
                        /\ Sectors(j) \subseteq freeMap
    /\ freeMap' = freeMap \cup Marked(found)
    /\ directory' \in [Entry -> [name : Key, sector : Sector] \cup {NULL}]
    /\ disk' \in [Sector -> Contained]
    /\ \A s \in freeMap : disk'[s] = disk[s]

(* Create takes the sectors Find returns, the first for the header.           *)
LEMMA CreateEffect ==
    ASSUME IInv, NEW n \in Name, NEW size \in Sizes, Create(n, size)
    PROVE  \E found, i, hdr : Created(n, size, found, i, hdr)
<1> DEFINE k == divRoundUp(size, SectorSize)
<1>1. PICK found \in Found(freeMap, 1 + k), i \in Entry :
         /\ FirstUnused(i)
         /\ WriteBack(found[1], [numBytes |-> size,
                                 dataSectors |-> [j \in 1 .. k |-> found[j + 1]]])
         /\ directory' = [directory EXCEPT ![i] = [name |-> Prefix[n], sector |-> found[1]]]
         /\ freeMap' = freeMap \cup Marked(found)
  BY Zenon DEF Create
<1>2. UNCHANGED <<handle, broken>> /\ result' = TRUE /\ ~InDirectory(Prefix[n]) /\ k <= NumDirect
  BY Zenon DEF Create
<1>3. size \in Nat /\ k \in Nat
  <2>1. size \in Nat
    BY FileSystemAssumption
  <2>2. QED BY Zenon, <2>1, EnoughSectors, OpenFileAssumption
<1> HIDE DEF k
<1>4. /\ found \in [1 .. 1 + k -> Sector \ freeMap]
      /\ \A a, b \in 1 .. 1 + k : a < b => found[a] < found[b]
  BY <1>1 DEF Found
<1>5. \A a, b \in 1 .. 1 + k : found[a] = found[b] => a = b
  <2> SUFFICES ASSUME NEW a \in 1 .. 1 + k, NEW b \in 1 .. 1 + k, found[a] = found[b], a # b
               PROVE  FALSE
    BY Zenon
  <2>1. a < b \/ b < a
    BY <1>3
  <2>2. found[a] \in Int /\ found[b] \in Int
    BY <1>4, OpenFileAssumption DEF Sector
  <2>3. QED BY <1>4, <2>1, <2>2
<1> DEFINE sector == found[1]
           data   == [j \in 1 .. k |-> found[j + 1]]
           hdr    == [numBytes |-> size, dataSectors |-> data]
           entry  == [name |-> Prefix[n], sector |-> sector]
<1>6. /\ 1 \in 1 .. 1 + k
      /\ \A j \in 1 .. k : j + 1 \in 1 .. 1 + k /\ j + 1 # 1
      /\ \A a \in 1 .. 1 + k : a # 1 => a - 1 \in 1 .. k /\ (a - 1) + 1 = a
  BY <1>3
<1>7. /\ sector \in Sector \ freeMap
      /\ data \in [1 .. k -> Sector \ freeMap]
      /\ \A j \in 1 .. k : data[j] = found[j + 1]
  BY Zenon, <1>4, <1>6
<1>8. /\ \A j \in 1 .. k : data[j] # sector
      /\ \A j, m \in 1 .. k : data[j] = data[m] => j = m
  <2>1. \A j \in 1 .. k : data[j] # sector
    BY <1>5, <1>6, <1>7
  <2>2. ASSUME NEW j \in 1 .. k, NEW m \in 1 .. k, data[j] = data[m] PROVE j = m
    <3>1. j + 1 = m + 1
      BY Zenon, <1>5, <1>6, <1>7, <2>2
    <3>2. QED BY <1>3, <3>1
  <2>3. QED BY Zenon, <2>1, <2>2
<1>9. {sector} \cup {data[j] : j \in 1 .. k} = Marked(found)
  <2>1. Marked(found) = {found[a] : a \in 1 .. 1 + k}
    BY <1>4 DEF Marked
  <2>2. \A a \in 1 .. 1 + k : found[a] = sector \/ \E j \in 1 .. k : found[a] = data[j]
    <3> SUFFICES ASSUME NEW a \in 1 .. 1 + k, a # 1 PROVE \E j \in 1 .. k : found[a] = data[j]
      BY Zenon
    <3>1. a - 1 \in 1 .. k /\ data[a - 1] = found[(a - 1) + 1] /\ (a - 1) + 1 = a
      BY Zenon, <1>6, <1>7
    <3>2. QED BY Zenon, <3>1
  <2>3. \A j \in 1 .. k : \E a \in 1 .. 1 + k : data[j] = found[a]
    BY <1>6, <1>7
  <2>4. \E a \in 1 .. 1 + k : sector = found[a]
    BY Zenon, <1>6
  <2> HIDE DEF sector, data
  <2>5. QED BY <2>1, <2>2, <2>3, <2>4
<1>10. hdr \in Header /\ hdr.dataSectors = data /\ hdr.numBytes = size
  <2>1. data \in [1 .. divRoundUp(size, SectorSize) -> Sector]
    BY <1>7 DEF k
  <2>2. divRoundUp(size, SectorSize) <= NumDirect
    BY Zenon, <1>2 DEF k
  <2> HIDE DEF data
  <2>3. QED BY Zenon, <1>3, <2>1, <2>2, HeaderMade
<1>11. entry \in [name : Key, sector : Sector] /\ entry # NULL
       /\ entry.name = Prefix[n] /\ entry.sector = sector
  <2>1. Prefix[n] \in Key
    BY Zenon, FileSystemAssumption
  <2>2. sector \in Sector
    BY Zenon, <1>7
  <2> HIDE DEF sector
  <2>3. entry \in [name : Key, sector : Sector]
    BY Zenon, <2>1, <2>2
  <2>4. entry # NULL
    BY Zenon, <2>3, FileSystemAssumption
  <2>5. QED BY <2>3, <2>4
<1>12. /\ disk' = [disk EXCEPT ![sector] = AsHeader(hdr)]
       /\ directory' = [directory EXCEPT ![i] = entry]
  BY Zenon, <1>1 DEF WriteBack
<1> HIDE DEF sector, data, hdr, entry
<1>13. /\ directory \in [Entry -> [name : Key, sector : Sector] \cup {NULL}]
       /\ disk \in [Sector -> Contained] /\ freeMap \subseteq Sector
  BY Zenon DEF IInv, TypeOK
<1>14. /\ directory' \in [Entry -> [name : Key, sector : Sector] \cup {NULL}]
       /\ directory'[i] = entry
       /\ \A j \in Entry : j # i => directory'[j] = directory[j]
  BY Zenon, <1>11, <1>12, <1>13
<1>15. /\ disk' \in [Sector -> Contained]
       /\ disk'[sector].hdr = hdr
       /\ \A s \in Sector : s # sector => disk'[s] = disk[s]
  <2>1. AsHeader(hdr) \in Contained /\ AsHeader(hdr).hdr = hdr
    BY Zenon, <1>10, SectorTypes
  <2>2. QED BY Zenon, <1>7, <1>12, <1>13, <2>1
<1>16. i \notin InUse /\ InUse' = InUse \cup {i}
  <2>1. directory[i] = NULL
    BY Zenon, <1>1 DEF FirstUnused
  <2>2. QED BY Zenon, <1>11, <1>14, <2>1 DEF InUse
<1>17. \A j \in InUse : /\ directory'[j] = directory[j]
                        /\ HeaderOf(j)' = HeaderOf(j) /\ Sectors(j)' = Sectors(j)
                        /\ Sectors(j) \subseteq freeMap
  <2> SUFFICES ASSUME NEW j \in InUse
               PROVE  /\ directory'[j] = directory[j]
                      /\ HeaderOf(j)' = HeaderOf(j) /\ Sectors(j)' = Sectors(j)
                      /\ Sectors(j) \subseteq freeMap
    BY Zenon
  <2>1. directory'[j] = directory[j] /\ directory[j].sector \in Sector
    BY <1>13, <1>14, <1>16 DEF InUse
  <2>2. Sectors(j) \subseteq freeMap
    BY Zenon DEF IInv, BitmapIsExact
  <2>3. directory[j].sector # sector
    BY Zenon, <1>7, <2>2 DEF Sectors
  <2>4. HeaderOf(j)' = HeaderOf(j)
    BY Zenon, <1>15, <2>1, <2>3 DEF HeaderOf
  <2>5. Sectors(j)' = Sectors(j)
    BY Zenon, <2>1, <2>4 DEF Sectors
  <2>6. QED BY Zenon, <2>1, <2>2, <2>4, <2>5
<1>18. /\ HeaderOf(i)' = hdr
       /\ Sectors(i)' = Marked(found)
       /\ directory'[i].sector = sector /\ directory'[i].name = Prefix[n]
  <2>1. HeaderOf(i)' = hdr /\ directory'[i].sector = sector /\ directory'[i].name = Prefix[n]
    BY Zenon, <1>11, <1>14, <1>15 DEF HeaderOf
  <2>2. DOMAIN hdr.dataSectors = 1 .. k
    BY Zenon, <1>7, <1>10
  <2>3. Sectors(i)' = {sector} \cup {data[j] : j \in 1 .. k}
    BY Zenon, <1>10, <2>1, <2>2 DEF Sectors
  <2>4. QED BY Zenon, <1>9, <2>1, <2>3
<1>19. /\ \A a, b \in DOMAIN found : found[a] = found[b] => a = b
       /\ found \in [1 .. 1 + divRoundUp(size, SectorSize) -> Sector \ freeMap]
  BY Zenon, <1>4, <1>5 DEF k
<1>20. /\ \A j, m \in DOMAIN hdr.dataSectors : hdr.dataSectors[j] = hdr.dataSectors[m] => j = m
       /\ \A j \in DOMAIN hdr.dataSectors : hdr.dataSectors[j] # directory'[i].sector
  BY <1>7, <1>8, <1>10, <1>18
<1>21. \A s \in freeMap : disk'[s] = disk[s]
  BY <1>7, <1>13, <1>15
<1>22. Created(n, size, found, i, hdr)
  BY Zenon, <1>1, <1>10, <1>14, <1>15, <1>16, <1>17, <1>18, <1>19, <1>20, <1>21 DEF Created
<1>23. QED BY Zenon, <1>22

(* Create takes sectors that the bitmap does not mark, hence nobody's.        *)
LEMMA CreateStep ==
    ASSUME IInv, NEW n \in Name, NEW size \in Sizes, Create(n, size)
    PROVE  IInv'
<1>1. PICK found, i, hdr : Created(n, size, found, i, hdr)
  BY CreateEffect
<1>2. /\ UNCHANGED <<handle, broken>> /\ result' = TRUE /\ ~InDirectory(Prefix[n])
      /\ freeMap \subseteq Sector
  BY Zenon DEF Create, IInv, TypeOK
<1>3. i \notin InUse /\ InUse' = InUse \cup {i}
  BY Zenon, <1>1 DEF Created
<1>4. \A j \in InUse : /\ directory'[j] = directory[j]
                        /\ HeaderOf(j)' = HeaderOf(j) /\ Sectors(j)' = Sectors(j)
                        /\ Sectors(j) \subseteq freeMap
  BY Zenon, <1>1 DEF Created
<1>5. /\ HeaderOf(i)' = hdr /\ hdr \in Header
       /\ Sectors(i)' = Marked(found) /\ freeMap' = freeMap \cup Marked(found)
       /\ directory'[i].name = Prefix[n]
  BY Zenon, <1>1 DEF Created
<1>6. Marked(found) \subseteq Sector \ freeMap
  BY <1>1 DEF Created, Marked
<1>7. TypeOK'
  <2>1. \A j \in InUse' : HeaderOf(j)' # NULL
    BY Zenon, <1>3, <1>4, <1>5, FileSystemAssumption DEF IInv, TypeOK
  <2>2. freeMap' \subseteq Sector
    BY <1>2, <1>5, <1>6
  <2>3. QED BY Zenon, <1>1, <1>2, <2>1, <2>2 DEF IInv, TypeOK, Created
<1>8. BitmapIsExact'
  <2>1. \A s : (\E j \in InUse' : s \in Sectors(j)') <=>
                   ((\E j \in InUse : s \in Sectors(j)) \/ s \in Marked(found))
    <3> SUFFICES ASSUME NEW s
                 PROVE  (\E j \in InUse' : s \in Sectors(j)') <=>
                            ((\E j \in InUse : s \in Sectors(j)) \/ s \in Marked(found))
      OBVIOUS
    <3>1. (\E j \in InUse' : s \in Sectors(j)') <=>
              ((\E j \in InUse : s \in Sectors(j)') \/ s \in Sectors(i)')
      BY <1>3, Zenon
    <3>2. (\E j \in InUse : s \in Sectors(j)') <=> (\E j \in InUse : s \in Sectors(j))
      BY <1>4
    <3>3. QED BY <1>5, <3>1, <3>2
  <2>2. \A s : s \in freeMap <=> s \in Reserved \/ (\E j \in InUse : s \in Sectors(j))
    BY Zenon DEF IInv, BitmapIsExact
  <2>3. \A s : s \in freeMap' <=> s \in Reserved \/ (\E j \in InUse' : s \in Sectors(j)')
    BY <1>5, <2>1, <2>2
  <2>4. freeMap' = Reserved \cup UNION {Sectors(j)' : j \in InUse'}
    BY <2>3, Zenon
  <2>5. QED BY Zenon, <2>4 DEF BitmapIsExact
<1>9. FilesAreDisjoint'
  <2>1. Reserved \subseteq freeMap
    BY Zenon DEF IInv, BitmapIsExact
  <2>2. Sectors(i)' \cap Reserved = {}
    BY Zenon, <1>5, <1>6, <2>1
  <2>3. \A j \in InUse : Sectors(j)' \cap Sectors(i)' = {}
    BY Zenon, <1>4, <1>5, <1>6
  <2>4. \A j \in InUse : directory'[j].name # directory'[i].name
    BY Zenon, <1>2, <1>4, <1>5 DEF InDirectory, Matches, InUse
  <2>5. /\ \A j \in DOMAIN hdr.dataSectors : hdr.dataSectors[j] # directory'[i].sector
        /\ \A j, m \in DOMAIN hdr.dataSectors :
              hdr.dataSectors[j] = hdr.dataSectors[m] => j = m
    BY Zenon, <1>1 DEF Created
  <2>6. \A j \in InUse' :
           LET d == HeaderOf(j)'.dataSectors IN
           /\ Sectors(j)' \cap Reserved = {}
           /\ \A a, b \in DOMAIN d : d[a] = d[b] => a = b
           /\ \A a \in DOMAIN d : d[a] # directory'[j].sector
    <3>2. ASSUME NEW j \in InUse
          PROVE  LET d == HeaderOf(j)'.dataSectors IN
                 /\ Sectors(j)' \cap Reserved = {}
                 /\ \A a, b \in DOMAIN d : d[a] = d[b] => a = b
                 /\ \A a \in DOMAIN d : d[a] # directory'[j].sector
      <4>1. LET d == HeaderOf(j).dataSectors IN
            /\ Sectors(j) \cap Reserved = {}
            /\ \A a, b \in DOMAIN d : d[a] = d[b] => a = b
            /\ \A a \in DOMAIN d : d[a] # directory[j].sector
        BY Zenon DEF IInv, FilesAreDisjoint
      <4>2. QED BY Zenon, <1>4, <4>1
    <3>3. LET d == HeaderOf(i)'.dataSectors IN
          /\ Sectors(i)' \cap Reserved = {}
          /\ \A a, b \in DOMAIN d : d[a] = d[b] => a = b
          /\ \A a \in DOMAIN d : d[a] # directory'[i].sector
      BY Zenon, <1>5, <2>2, <2>5
    <3>4. QED BY Zenon, <1>3, <3>2, <3>3
  <2>7. \A j, m \in InUse' : j # m => Sectors(j)' \cap Sectors(m)' = {}
                                      /\ directory'[j].name # directory'[m].name
    <3>1. \A j, m \in InUse : j # m => Sectors(j)' \cap Sectors(m)' = {}
                                       /\ directory'[j].name # directory'[m].name
      <4>1. \A j, m \in InUse : j # m => Sectors(j) \cap Sectors(m) = {} /\ directory[j].name # directory[m].name
        BY Zenon DEF IInv, FilesAreDisjoint
      <4>2. QED BY Zenon, <1>4, <4>1
    <3>2. QED BY Zenon, <1>3, <2>3, <2>4, <3>1
  <2>8. HandlesOutside'
    BY Zenon, <1>2, OutsideKept DEF IInv
  <2>9. QED BY <2>6, <2>7, <2>8 DEF FilesAreDisjoint, HandlesOutside
<1>10. QED BY <1>7, <1>8, <1>9 DEF IInv

(* Every step keeps the invariant.                                            *)
LEMMA InvariantStep == IInv /\ [Next]_vars => IInv'
<1> SUFFICES ASSUME IInv, [Next]_vars PROVE IInv'
  BY Zenon
<1>1. ASSUME UNCHANGED <<disk, freeMap, directory, handle>>, result' \in BOOLEAN,
             broken' \in {"no", "overrun", "header"}
      PROVE  IInv'
  <2>1. InUse' = InUse /\ (\A i \in InUse : HeaderOf(i)' = HeaderOf(i))
        /\ BitmapIsExact' /\ FilesAreDisjoint'
    <3>1. HandlesOutside'
      BY Zenon, <1>1, OutsideKept DEF IInv
    <3>2. QED BY Zenon, <1>1, <3>1, FilesUnmoved DEF IInv
  <2>2. TypeOK'
    BY Zenon, <1>1, <2>1 DEF IInv, TypeOK
  <2>3. QED BY <2>1, <2>2 DEF IInv
<1>2. result \in BOOLEAN /\ broken \in {"no", "overrun", "header"}
  BY Zenon DEF IInv, TypeOK
<1>3. ASSUME NEW n \in Name, NEW size \in Sizes, CreateFails(n, size) PROVE IInv'
  BY Zenon, <1>1, <1>2, <1>3 DEF CreateFails
<1>4. ASSUME NEW n \in Name, NEW size \in Sizes, Create(n, size) PROVE IInv'
  BY <1>4, CreateStep
<1>5. ASSUME NEW n \in Name, NEW size \in Sizes, CreateOverruns(n, size) PROVE IInv'
  BY Zenon, <1>1, <1>2, <1>5 DEF CreateOverruns
<1>6. ASSUME NEW n \in Name, RemoveFails(n) PROVE IInv'
  BY Zenon, <1>1, <1>2, <1>6 DEF RemoveFails
<1>7. ASSUME NEW n \in Name, Remove(n) PROVE IInv'
  BY <1>7, RemoveStep
<1>8. ASSUME NEW h \in Handle, NEW n \in Name, Open(h, n) PROVE IInv'
  BY <1>8, OpenCloseStep
<1>9. ASSUME NEW h \in Handle, NEW position \in Offsets, Seek(h, position) PROVE IInv'
  <2>1. position \in Nat
    BY FileSystemAssumption
  <2>2. /\ handle[h] # NULL
        /\ handle' = [handle EXCEPT ![h] = [handle[h] EXCEPT !.seekPosition = position]]
        /\ UNCHANGED <<disk, freeMap, directory, result, broken>>
    BY <1>9 DEF Seek
  <2>3. QED BY Zenon, <2>1, <2>2, MoveStep
<1>10. ASSUME NEW h \in Handle, NEW numBytes \in Offsets, Read(h, numBytes) PROVE IInv'
  <2> DEFINE hdr      == handle[h].hdr
             position == handle[h].seekPosition
             q        == position + Len(ReadAt(disk, hdr, numBytes, position))
  <2>1. /\ handle[h] # NULL
        /\ handle' = [handle EXCEPT ![h] = [handle[h] EXCEPT !.seekPosition = q]]
        /\ UNCHANGED <<disk, freeMap, directory, result, broken>>
    BY <1>10 DEF Read
  <2>2. hdr \in Header /\ position \in Nat /\ numBytes \in Nat
    <3>1. handle[h] \in [name : Key, hdr : Header, seekPosition : Nat]
      BY <2>1 DEF IInv, TypeOK
    <3>2. QED BY <3>1, FileSystemAssumption
  <2> HIDE DEF hdr, position
  <2>3. Len(ReadAt(disk, hdr, numBytes, position)) \in Nat
    <3>1. Clipped(hdr, numBytes, position) \in Nat
      BY <2>2, ClippedTypes
    <3>2. CASE Clipped(hdr, numBytes, position) = 0
      BY <3>2 DEF ReadAt
    <3>3. CASE Clipped(hdr, numBytes, position) # 0
      <4> DEFINE n == Clipped(hdr, numBytes, position)
      <4>1. \E f : ReadAt(disk, hdr, numBytes, position) = [i \in 1 .. n |-> f[i]]
        <5>1. ReadAt(disk, hdr, numBytes, position) =
                 [i \in 1 .. n |-> ReadAt(disk, hdr, numBytes, position)[i]]
          BY <3>3 DEF ReadAt
        <5>2. QED BY Zenon, <5>1
      <4> HIDE DEF n
      <4>2. PICK f : ReadAt(disk, hdr, numBytes, position) = [i \in 1 .. n |-> f[i]]
        BY <4>1
      <4>3. n \in Nat
        BY <3>1 DEF n
      <4>4. Len([i \in 1 .. n |-> f[i]]) = n
        BY <4>3
      <4>5. QED BY Zenon, <4>2, <4>3, <4>4
    <3>4. QED BY <3>2, <3>3
  <2>4. q \in Nat
    BY <2>2, <2>3
  <2> HIDE DEF q
  <2>5. QED BY Zenon, <2>1, <2>4, MoveStep
<1>11. ASSUME NEW h \in Handle, NEW from \in Buffers, Write(h, from) PROVE IInv'
  BY <1>11, WriteStep
<1>12. ASSUME NEW h \in Handle, NEW from \in Buffers, WriteOverHeader(h, from) PROVE IInv'
  BY Zenon, <1>1, <1>2, <1>12 DEF WriteOverHeader
<1>13. ASSUME NEW h \in Handle, Close(h) PROVE IInv'
  BY <1>13, OpenCloseStep
<1>14. ASSUME NEW format \in BOOLEAN, Boot(format) PROVE IInv'
  BY <1>14, BootStep
<1>15. CASE UNCHANGED vars
  BY <1>1, <1>2, <1>15 DEF vars
<1>16. QED BY <1>3, <1>4, <1>5, <1>6, <1>7, <1>8, <1>9, <1>10, <1>11, <1>12, <1>13, <1>14, <1>15
           DEF Next, Undefined

(* The invariant holds in every state of every execution.                     *)
LEMMA Invariant == Spec => []IInv
BY InvariantInit, InvariantStep, PTL DEF Spec

(* Sectors, bitmap, directory and open files keep the types of their classes, *)
(* and every directory entry in use points at a header.                       *)
THEOREM TypeCorrect == Spec => []TypeOK
<1>1. IInv => TypeOK
  BY DEF IInv
<1>2. QED BY <1>1, Invariant, PTL

(* Create and Remove keep the bitmap exact: no sector leaks, none is in use   *)
(* unmarked.                                                                  *)
THEOREM BitmapStaysExact == Spec => []BitmapIsExact
<1>1. IInv => BitmapIsExact
  BY DEF IInv
<1>2. QED BY <1>1, Invariant, PTL

(* Create, Remove and Write keep files apart: no sector belongs to two.       *)
THEOREM FilesStayDisjoint == Spec => []FilesAreDisjoint
<1>1. IInv => FilesAreDisjoint
  BY DEF IInv
<1>2. QED BY <1>1, Invariant, PTL

(* The sectors of a file's data hold no file's header, its own included: a    *)
(* write through an OpenFile whose file is there changes none.                *)
LEMMA CurrentKeepsHeaders ==
    ASSUME IInv, NEW h \in Handle, Current(h), NEW from \in Buffers
    PROVE  ~LosesHeader(h, from)
<1> DEFINE hdr      == handle[h].hdr
           position == handle[h].seekPosition
<1>1. PICK n \in InUse : HeaderOf(n) = hdr
  BY Zenon DEF Current
<1>2. /\ hdr \in Header /\ position \in Nat /\ from \in Seq(Byte)
      /\ disk \in [Sector -> Contained]
  <2>1. handle[h] \in [name : Key, hdr : Header, seekPosition : Nat]
    BY DEF IInv, TypeOK, Current
  <2>2. from \in Seq(Byte)
    BY FileSystemAssumption
  <2>3. QED BY <2>1, <2>2 DEF IInv, TypeOK
<1>3. Written(h, from) = WriteAt(disk, hdr, from, position)
  BY Zenon DEF Written
<1> HIDE DEF hdr, position
<1>4. \A s \in Sector : s \notin {hdr.dataSectors[j] : j \in DOMAIN hdr.dataSectors} =>
          Written(h, from)[s] = disk[s]
  <2>1. \A s \in Sector : s \notin {hdr.dataSectors[j] : j \in DOMAIN hdr.dataSectors} =>
            WriteAt(disk, hdr, from, position)[s] = disk[s]
    BY ONLY <1>2, WriteAtEffect
  <2>2. QED BY Zenon, <1>3, <2>1
<1>5. ASSUME NEW i \in InUse PROVE Written(h, from)[directory[i].sector] = disk[directory[i].sector]
  <2>1. directory[i].sector \in Sector
    BY DEF IInv, TypeOK, InUse
  <2>2. directory[i].sector \notin {hdr.dataSectors[j] : j \in DOMAIN hdr.dataSectors}
    <3>1. CASE i = n
      BY <1>1, <3>1 DEF IInv, FilesAreDisjoint
    <3>2. CASE i # n
      <4>1. Sectors(i) \cap Sectors(n) = {}
        BY <3>2 DEF IInv, FilesAreDisjoint
      <4>2. QED BY <1>1, <4>1 DEF Sectors
    <3>3. QED BY <3>1, <3>2
  <2>3. QED BY Zenon, <1>4, <2>1, <2>2
<1>6. QED BY Zenon, <1>5 DEF LosesHeader, InUse

(* An OpenFile that a step leaves open is as current as before, where its     *)
(* file's entry and header are left as they are.                              *)
LEMMA CurrentKept ==
    ASSUME NEW h \in Handle, Current(h), handle'[h] # NULL,
           handle'[h].name = handle[h].name, handle'[h].hdr = handle[h].hdr,
           \A i \in InUse : directory[i].name = handle[h].name =>
               i \in InUse' /\ directory'[i] = directory[i] /\ HeaderOf(i)' = HeaderOf(i)
    PROVE  Current(h)'
<1>1. PICK i \in InUse : directory[i].name = handle[h].name /\ HeaderOf(i) = handle[h].hdr
  BY Zenon DEF Current
<1>2. /\ i \in InUse' /\ directory'[i].name = handle'[h].name
      /\ HeaderOf(i)' = handle'[h].hdr
  BY Zenon, <1>1
<1>3. QED BY Zenon, <1>2 DEF Current

(* The same for a step that leaves every entry and header as they are.        *)
LEMMA CurrentUnmoved ==
    ASSUME NEW h \in Handle, Current(h), handle'[h] # NULL,
           handle'[h].name = handle[h].name, handle'[h].hdr = handle[h].hdr,
           directory' = directory,
           \A i \in InUse : disk'[directory[i].sector].hdr = disk[directory[i].sector].hdr
    PROVE  Current(h)'
<1>1. InUse' = InUse
  BY Zenon DEF InUse
<1>2. \A i \in InUse : directory'[i] = directory[i] /\ HeaderOf(i)' = HeaderOf(i)
  BY Zenon DEF HeaderOf
<1>3. QED BY Zenon, <1>1, <1>2, CurrentKept

(* Every step leaves an OpenFile current, closes it or removes its file.      *)
LEMMA CurrentStep ==
    ASSUME IInv, [Next]_vars, NEW h \in Handle, Current(h)
    PROVE  \/ handle'[h] = NULL
           \/ Current(h)'
           \/ \E n \in Name : Prefix[n] = handle[h].name /\ Remove(n)
<1> DEFINE Done == \/ handle'[h] = NULL
                   \/ Current(h)'
                   \/ \E n \in Name : Prefix[n] = handle[h].name /\ Remove(n)
<1> SUFFICES Done
  OBVIOUS
<1>0. handle[h] # NULL
  BY Zenon DEF Current
<1>1. ASSUME directory' = directory, disk' = disk, handle'[h] = handle[h] PROVE Done
  BY Zenon, <1>0, <1>1, CurrentUnmoved
<1>2. ASSUME NEW g \in Handle, handle[g] # NULL, NEW q,
             handle' = [handle EXCEPT ![g] = [handle[g] EXCEPT !.seekPosition = q]],
             directory' = directory,
             \A i \in InUse : disk'[directory[i].sector].hdr = disk[directory[i].sector].hdr
      PROVE  Done
  <2>1. handle \in [Handle -> [name : Key, hdr : Header, seekPosition : Nat] \cup {NULL}]
    BY Zenon DEF IInv, TypeOK
  <2>2. CASE g # h
    <3>1. handle'[h] = handle[h]
      BY Zenon, <1>2, <2>1, <2>2
    <3>2. QED BY Zenon, <1>0, <1>2, <3>1, CurrentUnmoved
  <2>3. CASE g = h
    <3>1. handle'[h] = [handle[h] EXCEPT !.seekPosition = q]
      BY Zenon, <1>2, <2>1, <2>3
    <3>2. handle[h] \in [name : Key, hdr : Header, seekPosition : Nat]
      BY Zenon, <1>0, <2>1
    <3>3. handle'[h].name = handle[h].name /\ handle'[h].hdr = handle[h].hdr
      BY <3>1, <3>2
    <3>4. CASE handle'[h] # NULL
      BY Zenon, <1>2, <3>3, <3>4, CurrentUnmoved
    <3>5. QED BY Zenon, <3>4
  <2>4. QED BY Zenon, <2>2, <2>3
<1>3. ASSUME NEW n \in Name, NEW size \in Sizes, Create(n, size) PROVE Done
  <2>1. PICK found, i, hdr : Created(n, size, found, i, hdr)
    BY Zenon, <1>3, CreateEffect
  <2>2. handle' = handle
    BY Zenon, <1>3 DEF Create
  <2>3. \A j \in InUse : j \in InUse' /\ directory'[j] = directory[j] /\ HeaderOf(j)' = HeaderOf(j)
    BY Zenon, <2>1 DEF Created
  <2>4. QED BY Zenon, <1>0, <2>2, <2>3, CurrentKept
<1>4. ASSUME NEW n \in Name, Remove(n) PROVE Done
  <2>1. CASE Prefix[n] = handle[h].name
    BY Zenon, <1>4, <2>1
  <2>2. CASE Prefix[n] # handle[h].name
    <3>1. PICK i \in Entry : FindIndex(Prefix[n], i) /\ directory' = [directory EXCEPT ![i] = NULL]
      BY Zenon, <1>4 DEF Remove
    <3>2. disk' = disk /\ handle' = handle
      BY Zenon, <1>4 DEF Remove
    <3>3. directory[i].name = Prefix[n]
      BY Zenon, <3>1 DEF FindIndex, Matches
    <3>4. directory \in [Entry -> [name : Key, sector : Sector] \cup {NULL}]
      BY Zenon DEF IInv, TypeOK
    <3>5. ASSUME NEW j \in InUse, directory[j].name = handle[h].name
          PROVE  j \in InUse' /\ directory'[j] = directory[j] /\ HeaderOf(j)' = HeaderOf(j)
      <4>1. j \in Entry /\ j # i /\ directory[j] # NULL
        BY Zenon, <2>2, <3>3, <3>5 DEF InUse
      <4>2. directory'[j] = directory[j]
        BY Zenon, <3>1, <3>4, <4>1
      <4>3. QED BY Zenon, <3>2, <4>1, <4>2 DEF InUse, HeaderOf
    <3>6. QED BY Zenon, <1>0, <3>2, <3>5, CurrentKept
  <2>3. QED BY Zenon, <2>1, <2>2
<1>5. ASSUME NEW g \in Handle, NEW n \in Name, Open(g, n) PROVE Done
  <2>1. directory' = directory /\ disk' = disk /\ g # h
    BY Zenon, <1>0, <1>5 DEF Open
  <2>2. handle'[h] = handle[h]
    <3>1. handle \in [Handle -> [name : Key, hdr : Header, seekPosition : Nat] \cup {NULL}]
      BY Zenon DEF IInv, TypeOK
    <3>2. handle' = handle \/ \E r : handle' = [handle EXCEPT ![g] = r]
      BY Zenon, <1>5 DEF Open
    <3>3. QED BY Zenon, <2>1, <3>1, <3>2
  <2>3. QED BY Zenon, <1>1, <2>1, <2>2
<1>6. ASSUME NEW g \in Handle, NEW from \in Buffers, Write(g, from) PROVE Done
  <2>1. /\ handle[g] # NULL /\ directory' = directory
        /\ \A i \in InUse : disk'[directory[i].sector].hdr = disk[directory[i].sector].hdr
    BY Zenon, <1>6 DEF Write, LosesHeader, InUse
  <2>2. \E q : handle' = [handle EXCEPT ![g] = [handle[g] EXCEPT !.seekPosition = q]]
    BY Zenon, <1>6 DEF Write
  <2>3. QED BY Zenon, <1>2, <2>1, <2>2
<1>7. ASSUME NEW g \in Handle, NEW x, Seek(g, x) \/ Read(g, x) PROVE Done
  <2>1. handle[g] # NULL /\ directory' = directory /\ disk' = disk
    BY Zenon, <1>7 DEF Seek, Read
  <2>2. \E q : handle' = [handle EXCEPT ![g] = [handle[g] EXCEPT !.seekPosition = q]]
    <3>1. CASE Seek(g, x)
      BY Zenon, <3>1 DEF Seek
    <3>2. CASE Read(g, x)
      BY Zenon, <3>2 DEF Read
    <3>3. QED BY Zenon, <1>7, <3>1, <3>2
  <2>3. QED BY Zenon, <1>2, <2>1, <2>2
<1>8. ASSUME NEW g \in Handle, Close(g) PROVE Done
  <2>1. directory' = directory /\ disk' = disk /\ handle' = [handle EXCEPT ![g] = NULL]
    BY Zenon, <1>8 DEF Close
  <2>2. handle \in [Handle -> [name : Key, hdr : Header, seekPosition : Nat] \cup {NULL}]
    BY Zenon DEF IInv, TypeOK
  <2>3. handle'[h] = NULL \/ handle'[h] = handle[h]
    BY Zenon, <2>1, <2>2
  <2>4. QED BY Zenon, <1>1, <2>1, <2>3
<1>9. ASSUME NEW format \in BOOLEAN, Boot(format) PROVE Done
  BY Zenon, <1>9 DEF Boot, Closed
<1>10. ASSUME NEW n \in Name, NEW size \in Sizes,
              CreateFails(n, size) \/ CreateOverruns(n, size)
       PROVE  Done
  BY Zenon, <1>1, <1>10 DEF CreateFails, CreateOverruns
<1>11. ASSUME NEW n \in Name, RemoveFails(n) PROVE Done
  BY Zenon, <1>1, <1>11 DEF RemoveFails
<1>12. ASSUME NEW g \in Handle, NEW from \in Buffers, WriteOverHeader(g, from) PROVE Done
  BY Zenon, <1>1, <1>12 DEF WriteOverHeader
<1>13. CASE UNCHANGED vars
  BY Zenon, <1>1, <1>13 DEF vars
<1> HIDE DEF Done
<1>14. QED
  BY Zenon, <1>3, <1>4, <1>5, <1>6, <1>7, <1>8, <1>9, <1>10, <1>11, <1>12, <1>13
     DEF Next, Undefined

(* An OpenFile stays current until it is closed or its own file is removed,   *)
(* and while it is current no write through it reaches a header.              *)
THEOREM HandlesStayCurrent == Spec => OnlyRemoveMakesStale
<1> DEFINE Kept == \A h \in Handle : Current(h) =>
                      /\ \A from \in Buffers : ~LosesHeader(h, from)
                      /\ \/ handle'[h] = NULL
                         \/ Current(h)'
                         \/ \E n \in Name : Prefix[n] = handle[h].name /\ Remove(n)
<1>1. ASSUME IInv, [Next]_vars PROVE Kept
  BY Zenon, <1>1, CurrentKeepsHeaders, CurrentStep
<1>2. IInv /\ [Next]_vars => [Kept]_vars
  BY Zenon, <1>1
<1>3. QED BY <1>2, Invariant, PTL DEF Spec, OnlyRemoveMakesStale

-----------------------------------------------------------------------------
(* The contents of files.                                                     *)

(* The sector of an offset, and where it begins and ends.                      *)
LEMMA SectorBounds ==
    ASSUME NEW p \in Nat
    PROVE  /\ p \div SectorSize \in Nat
           /\ SectorSize * (p \div SectorSize) <= p
           /\ p < SectorSize * (p \div SectorSize) + SectorSize
           /\ p % SectorSize \in 0 .. SectorSize - 1
           /\ SectorSize * (p \div SectorSize) \in Nat
           /\ p = SectorSize * (p \div SectorSize) + (p % SectorSize)
<1> DEFINE q == p \div SectorSize
           r == p % SectorSize
<1>1. q \in Nat /\ r \in Nat /\ r < SectorSize /\ p = SectorSize * q + r
  BY DivMod, OpenFileAssumption
<1>2. SectorSize * q \in Nat
  BY <1>1, OpenFileAssumption
<1> HIDE DEF q, r
<1>3. SectorSize * q <= p /\ p < SectorSize * q + SectorSize /\ r \in 0 .. SectorSize - 1
  BY <1>1, <1>2, OpenFileAssumption
<1>4. QED BY Zenon, <1>1, <1>2, <1>3 DEF q, r

(* Sectors are ordered as their bytes are.                                     *)
LEMMA SectorOrder ==
    ASSUME NEW x \in Nat, NEW y \in Nat, x < y
    PROVE  /\ SectorSize * x + SectorSize <= SectorSize * y
           /\ SectorSize * x \in Nat /\ SectorSize * y \in Nat
<1>1. SectorSize * y >= SectorSize * (x + 1)
  BY Monotonic, OpenFileAssumption
<1>2. SectorSize * (x + 1) = SectorSize * x + SectorSize
  BY OpenFileAssumption
<1>3. SectorSize * x \in Nat /\ SectorSize * y \in Nat
  BY OpenFileAssumption
<1>4. QED BY Zenon, <1>1, <1>2, <1>3, OpenFileAssumption

(* ReadAt returns the bytes of the file from the position on: the buffer of    *)
(* whole sectors has them at the offset they are copied from.                  *)
LEMMA ReadAtBytes ==
    ASSUME NEW d, NEW hdr \in Header, NEW numBytes \in Nat, NEW position \in Nat,
           Clipped(hdr, numBytes, position) # 0
    PROVE  ReadAt(d, hdr, numBytes, position) =
             [i \in 1 .. Clipped(hdr, numBytes, position) |-> ByteAt(d, hdr, position + i - 1)]
<1> DEFINE n     == Clipped(hdr, numBytes, position)
           first == FirstSector(position)
           last  == LastSector(position, n)
           buf   == [j \in 0 .. (1 + last - first) * SectorSize - 1 |->
                        ByteAt(d, hdr, first * SectorSize + j)]
<1>1. ReadAt(d, hdr, numBytes, position) =
        [i \in 1 .. n |-> buf[position - first * SectorSize + i - 1]]
  BY Zenon DEF ReadAt
<1>2. n \in Nat \ {0}
  BY Zenon, ClippedTypes
<1>3. position + n - 1 \in Nat
  BY <1>2
<1>4. /\ first \in Nat /\ SectorSize * first <= position /\ SectorSize * first \in Nat
      /\ last \in Nat /\ position + n - 1 < SectorSize * last + SectorSize
      /\ SectorSize * last \in Nat
  BY Zenon, <1>3, SectorBounds DEF FirstSector, LastSector
<1> HIDE DEF n, first, last, buf
<1>5. (1 + last - first) * SectorSize = SectorSize * last + SectorSize - SectorSize * first
  BY <1>4, OpenFileAssumption
<1>6. first * SectorSize = SectorSize * first
  BY <1>4, OpenFileAssumption
<1>7. ASSUME NEW i \in 1 .. n
      PROVE  buf[position - first * SectorSize + i - 1] = ByteAt(d, hdr, position + i - 1)
  <2> DEFINE j == position - first * SectorSize + i - 1
  <2>1. j \in 0 .. (1 + last - first) * SectorSize - 1
    BY <1>2, <1>4, <1>5, <1>6, OpenFileAssumption
  <2>2. first * SectorSize + j = position + i - 1
    BY <1>2, <1>4, <1>6
  <2> HIDE DEF j
  <2>3. buf[j] = ByteAt(d, hdr, first * SectorSize + j)
    BY Zenon, <2>1 DEF buf
  <2>4. QED BY Zenon, <2>2, <2>3 DEF j
<1>8. [i \in 1 .. n |-> buf[position - first * SectorSize + i - 1]] =
        [i \in 1 .. n |-> ByteAt(d, hdr, position + i - 1)]
  BY Zenon, <1>7
<1>9. QED BY <1>1, <1>8 DEF n

(* The buffer WriteAt writes back has the new bytes where they belong and the  *)
(* old ones elsewhere in the file: a sector that is written in part has been   *)
(* read, whichever end of the transfer it is at.                               *)
LEMMA BufferBytes ==
    ASSUME NEW d, NEW hdr \in Header, NEW from, NEW n \in Nat \ {0}, NEW position \in Nat,
           NEW p \in Nat, p < hdr.numBytes,
           p \div SectorSize \in FirstSector(position) .. LastSector(position, n)
    PROVE  /\ p \in FirstSector(position) * SectorSize ..
                       (LastSector(position, n) + 1) * SectorSize - 1
           /\ WriteBuffer(d, hdr, from, n, position)[p] =
                IF p \in position .. position + n - 1 THEN from[p - position + 1]
                ELSE ByteAt(d, hdr, p)
<1> DEFINE first == FirstSector(position)
           last  == LastSector(position, n)
           i     == p \div SectorSize
           end   == position + n - 1
           buf   == WriteBuffer(d, hdr, from, n, position)
<1>1. end \in Nat
  OBVIOUS
<1>2. /\ first \in Nat /\ SectorSize * first <= position /\ SectorSize * first \in Nat
      /\ position < SectorSize * first + SectorSize
      /\ last \in Nat /\ end < SectorSize * last + SectorSize
      /\ SectorSize * last \in Nat /\ SectorSize * last <= end
  BY Zenon, <1>1, SectorBounds DEF FirstSector, LastSector
<1>3. /\ i \in Nat /\ SectorSize * i <= p /\ p < SectorSize * i + SectorSize
      /\ SectorSize * i \in Nat
  BY Zenon, SectorBounds
<1>4. i >= first /\ i <= last
  BY <1>2, <1>3
<1>5. buf = [x \in first * SectorSize .. (last + 1) * SectorSize - 1 |->
               IF x \in position .. position + n - 1 THEN from[x - position + 1]
               ELSE IF /\ x < hdr.numBytes
                       /\ \/ ReadsFirst(position) /\ x \div SectorSize = first
                          \/ ReadsLast(position, n) /\ x \div SectorSize = last
                    THEN ByteAt(d, hdr, x)
                    ELSE Junk]
  BY Zenon DEF WriteBuffer
<1>6. /\ ReadsFirst(position) <=> position # first * SectorSize
      /\ ReadsLast(position, n) <=> /\ position + n # (last + 1) * SectorSize
                                    /\ first # last \/ position = first * SectorSize
  BY Zenon DEF ReadsFirst, ReadsLast
<1> HIDE DEF first, last, i, buf
<1>7. /\ first * SectorSize = SectorSize * first
      /\ (last + 1) * SectorSize = SectorSize * last + SectorSize
  BY <1>2, OpenFileAssumption
<1>8. SectorSize * first <= SectorSize * i /\ SectorSize * i <= SectorSize * last
  BY Zenon, <1>2, <1>3, <1>4, Monotonic, OpenFileAssumption
<1>9. p \in first * SectorSize .. (last + 1) * SectorSize - 1
  BY <1>2, <1>3, <1>7, <1>8, OpenFileAssumption
<1>10. ASSUME p \notin position .. end
       PROVE  \/ ReadsFirst(position) /\ i = first
              \/ ReadsLast(position, n) /\ i = last
  <2>1. CASE p < position
    <3>1. i = first
      <4>1. SUFFICES ASSUME first < i PROVE FALSE
        BY <1>2, <1>3, <1>4
      <4>2. SectorSize * first + SectorSize <= SectorSize * i
        BY Zenon, <1>2, <1>3, <4>1, SectorOrder
      <4>3. QED BY <1>2, <1>3, <2>1, <4>2, OpenFileAssumption
    <3>2. position # first * SectorSize
      BY <1>2, <1>3, <1>7, <1>8, <2>1
    <3>3. QED BY Zenon, <1>6, <3>1, <3>2
  <2>2. CASE p > end
    <3>1. i = last
      <4>1. SUFFICES ASSUME i < last PROVE FALSE
        BY <1>2, <1>3, <1>4
      <4>2. SectorSize * i + SectorSize <= SectorSize * last
        BY Zenon, <1>2, <1>3, <4>1, SectorOrder
      <4>3. QED BY <1>1, <1>2, <1>3, <2>2, <4>2, OpenFileAssumption
    <3>2. position + n # (last + 1) * SectorSize
      BY <1>2, <1>3, <1>7, <2>2, <3>1, OpenFileAssumption
    <3>3. QED BY Zenon, <1>6, <3>1, <3>2
  <2>3. QED BY <1>1, <1>10, <2>1, <2>2
<1>11. p \div SectorSize = i
  BY Zenon DEF i
<1>12. CASE p \in position .. end
  <2>1. buf[p] = from[p - position + 1]
    BY Zenon, <1>5, <1>9, <1>12
  <2>2. QED BY Zenon, <1>9, <1>12, <2>1 DEF buf, first, last
<1>13. CASE p \notin position .. end
  <2>1. buf[p] = ByteAt(d, hdr, p)
    BY Zenon, <1>5, <1>9, <1>10, <1>11, <1>13
  <2>2. QED BY Zenon, <1>9, <1>13, <2>1 DEF buf, first, last
<1>14. QED BY <1>12, <1>13

(* Every entry in use is of a file with a header.                              *)
LEMMA HeadersOfFiles ==
    ASSUME IInv, NEW i \in InUse
    PROVE  /\ HeaderOf(i) \in Header
           /\ directory[i] \in [name : Key, sector : Sector]
           /\ directory[i].name \in Key /\ directory[i].sector \in Sector
<1>1. directory[i] \in [name : Key, sector : Sector]
  BY Zenon DEF IInv, TypeOK, InUse
<1>2. directory[i].sector \in Sector /\ directory[i].name \in Key
  BY Zenon, <1>1
<1>3. disk[directory[i].sector] \in Contained
  BY Zenon, <1>2 DEF IInv, TypeOK
<1>4. HeaderOf(i) \in Header \cup {NULL} /\ HeaderOf(i) # NULL
  BY Zenon, <1>3 DEF IInv, TypeOK, HeaderOf, Contained
<1>5. QED BY Zenon, <1>1, <1>2, <1>4

(* The bytes of a file after WriteAt, when no sector is twice in its header.   *)
LEMMA WriteAtBytes ==
    ASSUME NEW d \in [Sector -> Contained], NEW hdr \in Header,
           NEW from \in Seq(Byte), NEW position \in Nat,
           \A j, m \in DOMAIN hdr.dataSectors : hdr.dataSectors[j] = hdr.dataSectors[m] => j = m,
           NEW p \in Nat, p < hdr.numBytes
    PROVE  ByteAt(WriteAt(d, hdr, from, position), hdr, p) =
             IF p \in position .. position + Len(from) - 1 THEN from[p - position + 1]
             ELSE ByteAt(d, hdr, p)
<1> DEFINE n     == Clipped(hdr, Len(from), position)
           first == FirstSector(position)
           last  == LastSector(position, n)
           i     == p \div SectorSize
           s     == hdr.dataSectors[i + 1]
           after == WriteAt(d, hdr, from, position)
           buf   == WriteBuffer(d, hdr, from, n, position)
<1>0. Len(from) \in Nat /\ hdr.numBytes \in Nat
  BY HeaderShape
<1>1. n \in Nat /\ (p \in position .. position + Len(from) - 1 <=> p \in position .. position + n - 1)
  BY SMTT(30), <1>0 DEF Clipped
<1>2. /\ i \in Nat /\ p % SectorSize \in 0 .. SectorSize - 1
      /\ p = SectorSize * i + (p % SectorSize)
  BY Zenon, SectorBounds
<1>3. i + 1 \in DOMAIN hdr.dataSectors /\ s \in Sector
  <2>1. i + 1 \in 1 .. divRoundUp(hdr.numBytes, SectorSize)
    BY Zenon, <1>0, ByteInSector, OpenFileAssumption
  <2>2. QED BY <2>1, HeaderShape
<1>4. ByteAt(after, hdr, p) = after[s].data[p % SectorSize]
      /\ ByteAt(d, hdr, p) = d[s].data[p % SectorSize]
  BY Zenon DEF ByteAt, ByteToSector
<1>5. CASE n = 0
  <2>1. after = d
    BY <1>5 DEF WriteAt
  <2>2. p \notin position .. position + Len(from) - 1
    BY <1>1, <1>5
  <2>3. QED BY Zenon, <2>1, <2>2
<1>6. CASE n # 0
  <2>1. /\ first \in Nat /\ last \in Nat
        /\ last + 1 \in 1 .. divRoundUp(hdr.numBytes, SectorSize)
    <3>1. position + n - 1 \in Nat /\ position + n - 1 < hdr.numBytes
      <4>1. position + n <= hdr.numBytes
        BY <1>0, <1>1, <1>6, ClippedTypes
      <4> HIDE DEF n
      <4>2. QED BY <1>0, <1>1, <1>6, <4>1
    <3>2. ((position + n - 1) \div SectorSize) + 1 \in 1 .. divRoundUp(hdr.numBytes, SectorSize)
      BY Zenon, <1>0, <3>1, ByteInSector, OpenFileAssumption
    <3>3. position \div SectorSize \in Nat /\ (position + n - 1) \div SectorSize \in Nat
      BY Zenon, <3>1, SectorBounds
    <3>4. QED BY Zenon, <3>2, <3>3 DEF FirstSector, LastSector
  <2> DEFINE written(x) == AsData([o \in 0 .. SectorSize - 1 |-> buf[x * SectorSize + o]])
  <2>2. after = [t \in Sector |->
                   IF \E x \in first .. last : hdr.dataSectors[x + 1] = t
                   THEN written(CHOOSE x \in first .. last : hdr.dataSectors[x + 1] = t)
                   ELSE d[t]]
    BY <1>6, Zenon DEF WriteAt
  <2>3. \A x \in first .. last : x + 1 \in DOMAIN hdr.dataSectors
    <3> HIDE DEF first, last
    <3>1. DOMAIN hdr.dataSectors = 1 .. divRoundUp(hdr.numBytes, SectorSize)
          /\ divRoundUp(hdr.numBytes, SectorSize) \in Nat
      BY Zenon, HeaderShape
    <3>2. QED BY <2>1, <3>1
  <2>4. \A x \in first .. last : hdr.dataSectors[x + 1] = s => x = i
    <3> HIDE DEF first, last, i
    <3>1. \A x \in first .. last : hdr.dataSectors[x + 1] = s => x + 1 = i + 1
      BY <1>3, <2>3
    <3>2. QED BY ONLY <1>2, <2>1, <3>1
  <2>5. CASE i \in first .. last
    <3> HIDE DEF first, last, i, written, after
    <3>1. (CHOOSE x \in first .. last : hdr.dataSectors[x + 1] = s) = i
      BY Zenon, <2>4, <2>5
    <3>2. after[s] = written(i)
      BY Zenon, <1>3, <2>2, <2>5, <3>1
    <3>3. after[s].data[p % SectorSize] = buf[i * SectorSize + (p % SectorSize)]
      <4>1. p % SectorSize \in 0 .. SectorSize - 1
        BY <1>2
      <4>2. written(i).data = [o \in 0 .. SectorSize - 1 |-> buf[i * SectorSize + o]]
        BY Zenon DEF written, AsData
      <4>3. QED BY ONLY Zenon, <3>2, <4>1, <4>2
    <3>4. i * SectorSize + (p % SectorSize) = p
      BY <1>2, OpenFileAssumption
    <3>5. buf[p] = IF p \in position .. position + n - 1 THEN from[p - position + 1]
                   ELSE ByteAt(d, hdr, p)
      <4>1. n \in Nat \ {0}
        BY Zenon, <1>1, <1>6
      <4>2. p \div SectorSize \in FirstSector(position) .. LastSector(position, n)
        BY Zenon, <2>5 DEF first, last, i
      <4>3. QED BY ONLY <4>1, <4>2, BufferBytes, hdr \in Header, p < hdr.numBytes, position \in Nat, p \in Nat
    <3>6. QED BY Zenon, <1>1, <1>4, <3>3, <3>4, <3>5 DEF after
  <2>6. CASE i \notin first .. last
    <3>1. p \notin position .. position + n - 1
      <4>1. SUFFICES ASSUME p \in position .. position + n - 1 PROVE i \in first .. last
        BY Zenon, <2>6
      <4>2. p >= position /\ p <= position + n - 1 /\ position + n - 1 \in Nat
        BY <1>1, <1>6, <4>1
      <4>3. /\ SectorSize * first <= position /\ position + n - 1 < SectorSize * last + SectorSize
            /\ SectorSize * i <= p /\ p < SectorSize * i + SectorSize
            /\ SectorSize * first \in Nat /\ SectorSize * last \in Nat /\ SectorSize * i \in Nat
        BY Zenon, <4>2, SectorBounds DEF FirstSector, LastSector
      <4> HIDE DEF first, last, i
      <4>4. ASSUME i < first PROVE FALSE
        <5>1. SectorSize * i + SectorSize <= SectorSize * first
          BY Zenon, <1>2, <2>1, <4>4, SectorOrder
        <5>2. QED BY <4>2, <4>3, <5>1, OpenFileAssumption
      <4>5. ASSUME last < i PROVE FALSE
        <5>1. SectorSize * last + SectorSize <= SectorSize * i
          BY Zenon, <1>2, <2>1, <4>5, SectorOrder
        <5>2. QED BY <4>2, <4>3, <5>1, OpenFileAssumption
      <4>6. QED BY <1>2, <2>1, <4>4, <4>5
    <3> HIDE DEF first, last, i, written, after
    <3>2. after[s] = d[s]
      BY Zenon, <1>3, <2>2, <2>4, <2>6
    <3>3. QED BY Zenon, <1>1, <1>4, <3>1, <3>2 DEF after
  <2>7. QED BY Zenon, <2>5, <2>6
<1>7. QED BY Zenon, <1>5, <1>6

INSTANCE FiniteSetTheorems

(* What ReadAtReturnsContents says of one file, position and length.           *)
ReadsContents(d, hdr, numBytes, position) ==
    LET contents == Contents(d, hdr)
        there    == {p \in DOMAIN contents : p >= position /\ p < position + numBytes}
    IN  ReadAt(d, hdr, numBytes, position) =
            [q \in 1 .. Cardinality(there) |-> contents[position + q - 1]]

(* ReadAt returns the part of a file's contents that lies in the interval      *)
(* asked for.                                                                  *)
LEMMA ReadAtIsContents ==
    ASSUME NEW d, NEW hdr \in Header, NEW position \in Nat, NEW numBytes \in Nat
    PROVE  ReadsContents(d, hdr, numBytes, position)
<1> DEFINE contents == Contents(d, hdr)
           there    == {p \in DOMAIN contents : p >= position /\ p < position + numBytes}
           n        == Clipped(hdr, numBytes, position)
<1>1. hdr.numBytes \in Nat
  BY Zenon, HeaderShape
<1>2. /\ n \in Nat
      /\ n > 0 => position + n <= hdr.numBytes
      /\ n = 0 => numBytes = 0 \/ position >= hdr.numBytes
      /\ \/ n = 0
         \/ n = numBytes /\ position < hdr.numBytes
         \/ n = hdr.numBytes - position /\ position + numBytes > hdr.numBytes
  BY <1>1 DEF Clipped
<1>3. there = {p \in 0 .. hdr.numBytes - 1 : p >= position /\ p < position + numBytes}
  BY Zenon DEF Contents
<1>4. n # 0 => ReadAt(d, hdr, numBytes, position) =
                 [q \in 1 .. n |-> ByteAt(d, hdr, position + q - 1)]
  BY ReadAtBytes
<1>5. n = 0 => ReadAt(d, hdr, numBytes, position) = <<>>
  BY Zenon DEF ReadAt
<1> HIDE DEF n, there, contents
<1>6. CASE n = 0
  <2>1. there = {}
    BY <1>1, <1>2, <1>3, <1>6
  <2>2. Cardinality(there) = 0
    BY <2>1, FS_EmptySet
  <2>3. [q \in 1 .. 0 |-> contents[position + q - 1]] = <<>>
    OBVIOUS
  <2>4. QED BY Zenon, <1>5, <1>6, <2>2, <2>3 DEF there, contents, ReadsContents
<1>7. CASE n # 0
  <2>1. there = position .. position + n - 1
    BY <1>1, <1>2, <1>3, <1>7
  <2>2. Cardinality(position .. position + n - 1) = n
    <3>1. position \in Int /\ position + n - 1 \in Int /\ ~(position > position + n - 1)
          /\ (position + n - 1) - position + 1 = n
      BY <1>2, <1>7
    <3>2. QED BY <3>1, FS_Interval
  <2>3. \A q \in 1 .. n : contents[position + q - 1] = ByteAt(d, hdr, position + q - 1)
    <3>1. \A q \in 1 .. n : position + q - 1 \in 0 .. hdr.numBytes - 1
      BY <1>1, <1>2, <1>7
    <3>2. QED BY Zenon, <3>1 DEF contents, Contents
  <2>4. ReadAt(d, hdr, numBytes, position) = [q \in 1 .. n |-> contents[position + q - 1]]
    BY Zenon, <1>4, <1>7, <2>3
  <2>5. QED BY Zenon, <2>1, <2>2, <2>4 DEF there, contents, ReadsContents
<1>8. QED BY Zenon, <1>6, <1>7

(* ReadAt returns the bytes of the file from any position on, as many as were  *)
(* asked for and are there, whatever the alignment of the transfer.            *)
THEOREM ReadsReturnContents == Spec => []ReadAtReturnsContents
<1>1. IInv => ReadAtReturnsContents
  <2> SUFFICES ASSUME IInv, NEW i \in InUse, NEW position \in 0 .. MaxFileSize,
                      NEW numBytes \in 0 .. MaxFileSize
               PROVE  ReadsContents(disk, HeaderOf(i), numBytes, position)
    BY Zenon DEF ReadAtReturnsContents, ReadsContents
  <2>1. HeaderOf(i) \in Header
    BY HeadersOfFiles
  <2>2. position \in Nat /\ numBytes \in Nat
    OBVIOUS
  <2>3. QED BY <2>1, <2>2, ReadAtIsContents
<1>2. QED BY <1>1, Invariant, PTL
-----------------------------------------------------------------------------
(* The names in the directory tell files apart.                                *)
LEMMA EntryUnique ==
    ASSUME IInv, NEW i \in InUse
    PROVE  /\ directory[i].name \in FileNames
           /\ EntryOf(directory[i].name) = i
           /\ Files[directory[i].name] = Contents(disk, HeaderOf(i))
<1>1. directory[i].name \in FileNames
  BY Zenon DEF FileNames
<1>2. \A j \in InUse : directory[j].name = directory[i].name => j = i
  BY Zenon DEF IInv, FilesAreDisjoint
<1>3. EntryOf(directory[i].name) = i
  BY <1>2 DEF EntryOf
<1>4. Files[directory[i].name] = Contents(disk, HeaderOf(EntryOf(directory[i].name)))
  BY <1>1, Zenon DEF Files
<1>5. QED BY Zenon, <1>1, <1>3, <1>4

(* Looking a name up in the directory.                                         *)
LEMMA Lookup ==
    ASSUME NEW k
    PROVE  /\ InDirectory(k) <=> k \in FileNames
           /\ DOMAIN Files = FileNames
<1>1. InDirectory(k) <=> k \in FileNames
  BY Zenon DEF InDirectory, Matches, FileNames, InUse
<1>2. QED BY Zenon, <1>1 DEF Files

(* An operation that leaves the disk and the directory alone leaves the files. *)
LEMMA SameFiles == ASSUME UNCHANGED <<disk, directory>> PROVE Files' = Files
BY Zenon DEF Files, FileNames, EntryOf, InUse, HeaderOf, Contents, ByteAt, ByteToSector

(* The quotient is the only one.                                               *)
LEMMA Quotient ==
    ASSUME NEW q \in Nat, NEW r \in Nat, r < SectorSize
    PROVE  (SectorSize * q + r) \div SectorSize = q
<1> DEFINE a == SectorSize * q + r
           u == a \div SectorSize
<1>1. a \in Nat /\ SectorSize * q \in Nat
  BY OpenFileAssumption
<1>2. SectorSize * q <= a /\ a < SectorSize * q + SectorSize
  BY <1>1, OpenFileAssumption
<1> HIDE DEF a
<1>3. u \in Nat /\ SectorSize * u <= a /\ a < SectorSize * u + SectorSize
      /\ SectorSize * u \in Nat
  BY Zenon, <1>1, SectorBounds
<1> HIDE DEF u
<1>4. ASSUME q < u PROVE FALSE
  <2>1. SectorSize * q + SectorSize <= SectorSize * u
    BY <1>3, <1>4, SectorOrder
  <2>2. QED BY <1>1, <1>2, <1>3, <2>1, OpenFileAssumption
<1>5. ASSUME u < q PROVE FALSE
  <2>1. SectorSize * u + SectorSize <= SectorSize * q
    BY Zenon, <1>3, <1>5, SectorOrder
  <2>2. QED BY <1>1, <1>2, <1>3, <2>1, OpenFileAssumption
<1>6. q = u
  BY <1>3, <1>4, <1>5
<1>7. QED BY Zenon, <1>6 DEF a, u

(* A header and the data's sectors, rounded up: what Create counts.            *)
LEMMA FootprintIs ==
    ASSUME NEW m \in Nat
    PROVE  /\ Store!Footprint(m) = 1 + divRoundUp(m, SectorSize)
           /\ divRoundUp(m, SectorSize) \in Nat
<1> DEFINE u == m \div SectorSize
           v == m % SectorSize
<1>1. u \in Nat /\ v \in Nat /\ v < SectorSize /\ m = SectorSize * u + v /\ SectorSize * u \in Nat
  BY Zenon, SectorBounds, DivMod, OpenFileAssumption
<1>2. divRoundUp(m, SectorSize) = u + (IF v > 0 THEN 1 ELSE 0)
  BY Zenon DEF divRoundUp
<1>3. Store!Footprint(m) = 1 + (m + SectorSize - 1) \div SectorSize
  BY Zenon DEF Store!Footprint
<1> HIDE DEF u, v
<1>4. CASE v = 0
  <2>1. m + SectorSize - 1 = SectorSize * u + (SectorSize - 1)
        /\ SectorSize - 1 \in Nat /\ SectorSize - 1 < SectorSize
    BY <1>1, <1>4, OpenFileAssumption
  <2>2. (m + SectorSize - 1) \div SectorSize = u
    BY Zenon, <1>1, <2>1, Quotient
  <2>3. QED BY <1>1, <1>2, <1>3, <1>4, <2>2
<1>5. CASE v > 0
  <2>1. SectorSize * (u + 1) = SectorSize * u + SectorSize
    BY <1>1, OpenFileAssumption
  <2>2. m + SectorSize - 1 = SectorSize * (u + 1) + (v - 1) /\ v - 1 \in Nat /\ v - 1 < SectorSize
    BY <1>1, <1>5, <2>1, OpenFileAssumption
  <2>3. (m + SectorSize - 1) \div SectorSize = u + 1
    BY <1>1, <2>2, Quotient
  <2>4. QED BY <1>1, <1>2, <1>3, <1>5, <2>3
<1>6. QED BY <1>1, <1>4, <1>5

(* As many sectors as a sequence without repetition has.                       *)
LEMMA ImageSize ==
    ASSUME NEW n \in Nat, NEW f, DOMAIN f = 1 .. n,
           \A a, b \in 1 .. n : f[a] = f[b] => a = b
    PROVE  IsFiniteSet(Marked(f)) /\ Cardinality(Marked(f)) = n
<1> DEFINE T == Marked(f)
           g == [j \in 1 .. n |-> f[j]]
<1>1. g \in [1 .. n -> T]
  BY Zenon DEF Marked
<1>2. g \in Injection(1 .. n, T)
  BY Zenon, <1>1 DEF Injection, IsInjective
<1>3. g \in Surjection(1 .. n, T)
  BY Zenon, <1>1 DEF Surjection, Marked
<1>4. ExistsBijection(1 .. n, T)
  BY Zenon, <1>2, <1>3 DEF ExistsBijection, Bijection
<1> HIDE DEF T, g
<1>5. IsFiniteSet(1 .. n)
  BY FS_Interval
<1>6. QED BY Zenon, <1>4, <1>5, FS_Bijection, FS_CountingElements DEF T

(* A file in the directory has its footprint of sectors, all marked.           *)
LEMMA SectorsSize ==
    ASSUME IInv, NEW i \in InUse
    PROVE  /\ IsFiniteSet(Sectors(i))
           /\ Cardinality(Sectors(i)) = 1 + divRoundUp(HeaderOf(i).numBytes, SectorSize)
           /\ Sectors(i) \subseteq freeMap
<1> DEFINE f == HeaderOf(i).dataSectors
           n == divRoundUp(HeaderOf(i).numBytes, SectorSize)
           T == Marked(f)
<1>1. HeaderOf(i) \in Header
  BY Zenon, HeadersOfFiles
<1>2. n \in Nat /\ DOMAIN f = 1 .. n
  BY <1>1, HeaderShape
<1>3. /\ \A a, b \in 1 .. n : f[a] = f[b] => a = b
      /\ \A a \in DOMAIN f : f[a] # directory[i].sector
  BY Zenon, <1>2 DEF IInv, FilesAreDisjoint
<1>4. Sectors(i) = T \cup {directory[i].sector}
  BY Zenon DEF Sectors, Marked
<1>5. Sectors(i) \subseteq freeMap
  BY Zenon DEF IInv, BitmapIsExact
<1> HIDE DEF f, n
<1>6. IsFiniteSet(T) /\ Cardinality(T) = n
  BY Zenon, <1>2, <1>3, ImageSize
<1>7. directory[i].sector \notin T
  BY Zenon, <1>3 DEF Marked
<1> HIDE DEF T
<1>8. IsFiniteSet(Sectors(i)) /\ Cardinality(Sectors(i)) = n + 1
  BY Zenon, <1>4, <1>6, <1>7, FS_AddElement
<1>9. QED BY <1>2, <1>5, <1>8 DEF n

(* How Mark and Clear change what NumClear counts.                             *)
LEMMA ClearCount ==
    ASSUME NEW map, map \subseteq Sector
    PROVE  /\ NumClear(map) \in Nat
           /\ \A S : S \subseteq Sector \ map =>
                 NumClear(map \cup S) = NumClear(map) - Cardinality(S)
           /\ \A S : S \subseteq map =>
                 NumClear(map \ S) = NumClear(map) + Cardinality(S)
<1>1. IsFiniteSet(Sector)
  BY FS_Interval, OpenFileAssumption DEF Sector
<1>2. IsFiniteSet(Sector \ map) /\ Cardinality(Sector \ map) \in Nat
  BY Zenon, <1>1, FS_Difference, FS_CardinalityType
<1>3. ASSUME NEW S, S \subseteq Sector \ map
      PROVE  NumClear(map \cup S) = NumClear(map) - Cardinality(S)
  <2>1. Sector \ (map \cup S) = (Sector \ map) \ S /\ (Sector \ map) \cap S = S
    BY Zenon, <1>3
  <2>2. QED BY Zenon, <1>2, <2>1, FS_Difference DEF NumClear
<1>4. ASSUME NEW S, S \subseteq map
      PROVE  NumClear(map \ S) = NumClear(map) + Cardinality(S)
  <2>1. Sector \ (map \ S) = (Sector \ map) \cup S /\ (Sector \ map) \cap S = {}
    BY Zenon, <1>4
  <2>2. IsFiniteSet(S) /\ Cardinality(S) \in Nat
    BY Zenon, <1>1, <1>4, FS_Subset, FS_CardinalityType
  <2>3. Cardinality((Sector \ map) \cup S) =
          Cardinality(Sector \ map) + Cardinality(S) - Cardinality((Sector \ map) \cap S)
    BY Zenon, <1>2, <2>2, FS_Union
  <2>4. Cardinality((Sector \ map) \cap S) = 0
    BY Zenon, <2>1, FS_EmptySet
  <2>5. Cardinality((Sector \ map) \cup S) = Cardinality(Sector \ map) + Cardinality(S)
    BY <1>2, <2>2, <2>3, <2>4
  <2>6. QED BY <2>1, <2>5 DEF NumClear
<1>5. QED BY Zenon, <1>2, <1>3, <1>4 DEF NumClear

(* An empty file system has every sector but its own.                          *)
LEMMA EmptyCapacity == NumClear(Reserved) = NumSectors - Cardinality(Reserved)
<1>1. IsFiniteSet(Sector) /\ Cardinality(Sector) = NumSectors
  <2>1. 0 \in Int /\ NumSectors - 1 \in Int /\ ~(0 > NumSectors - 1) /\ NumSectors - 1 - 0 + 1 = NumSectors
    BY OpenFileAssumption
  <2>2. QED BY Zenon, <2>1, FS_Interval DEF Sector
<1>2. Sector \cap Reserved = Reserved
  BY Zenon, FileSystemAssumption
<1>3. QED BY <1>1, <1>2, FS_Difference DEF NumClear

(* There are as many names as entries in use; the directory is full when no    *)
(* entry is unused.                                                            *)
LEMMA NamesSize ==
    ASSUME IInv
    PROVE  Cardinality(FileNames) < NumDirEntries <=> \E i \in Entry : directory[i] = NULL
<1> DEFINE g == [i \in InUse |-> directory[i].name]
<1>1. IsFiniteSet(Entry) /\ Cardinality(Entry) = NumDirEntries
  <2>1. 1 \in Int /\ NumDirEntries \in Int /\ (1 > NumDirEntries <=> NumDirEntries = 0)
        /\ NumDirEntries - 1 + 1 = NumDirEntries
    BY FileSystemAssumption
  <2>2. QED BY Zenon, <2>1, FS_Interval DEF Entry
<1>2. InUse \in SUBSET Entry
  BY Zenon DEF InUse
<1>3. /\ IsFiniteSet(InUse) /\ Cardinality(InUse) <= NumDirEntries
      /\ Cardinality(InUse) = NumDirEntries => InUse = Entry
  BY Zenon, <1>1, <1>2, FS_Subset
<1>4. g \in [InUse -> FileNames]
  BY Zenon DEF FileNames
<1>5. g \in Injection(InUse, FileNames)
  BY Zenon, <1>4 DEF Injection, IsInjective, IInv, FilesAreDisjoint
<1>6. g \in Surjection(InUse, FileNames)
  BY Zenon, <1>4 DEF Surjection, FileNames
<1>7. ExistsBijection(InUse, FileNames)
  BY Zenon, <1>5, <1>6 DEF ExistsBijection, Bijection
<1>8. Cardinality(FileNames) = Cardinality(InUse)
  BY Zenon, <1>3, <1>7, FS_Bijection
<1>9. Cardinality(InUse) \in Nat
  BY Zenon, <1>3, FS_CardinalityType
<1>10. Cardinality(InUse) < NumDirEntries <=> InUse # Entry
  BY <1>1, <1>3, <1>9, FileSystemAssumption
<1>11. InUse # Entry <=> \E i \in Entry : directory[i] = NULL
  BY Zenon DEF InUse
<1>12. QED BY Zenon, <1>8, <1>10, <1>11

(* FileStore counts as the file system does.                                   *)
LEMMA SameCardinality == ASSUME NEW S PROVE Store!Cardinality(S) = Cardinality(S)
BY Zenon DEF Store!Cardinality, Cardinality

(* A file's length is what its header says.                                    *)
LEMMA LengthIs ==
    ASSUME NEW d, NEW hdr \in Header
    PROVE  Store!Length(Contents(d, hdr)) = hdr.numBytes
<1>1. hdr.numBytes \in Nat
  BY Zenon, HeaderShape
<1>2. DOMAIN Contents(d, hdr) = 0 .. hdr.numBytes - 1
  BY Zenon DEF Contents
<1>3. /\ 0 \in Int /\ hdr.numBytes - 1 \in Int
      /\ 0 > hdr.numBytes - 1 <=> hdr.numBytes = 0
      /\ hdr.numBytes - 1 - 0 + 1 = hdr.numBytes
  BY <1>1
<1>4. Cardinality(0 .. hdr.numBytes - 1) = hdr.numBytes
  BY Zenon, <1>3, FS_Interval
<1>5. QED BY Zenon, <1>2, <1>4, SameCardinality DEF Store!Length
-----------------------------------------------------------------------------
(* Each file is found under its own name.                                      *)
FilesByEntry ==
    \A i \in InUse : /\ directory[i].name \in FileNames
                     /\ Files[directory[i].name] = Contents(disk, HeaderOf(i))

(* The invariant implies it.                                                   *)
LEMMA FilesFound == IInv => FilesByEntry
BY Zenon, EntryUnique DEF FilesByEntry

(* The same of the next state.                                                 *)
LEMMA FilesFoundNext == IInv' => FilesByEntry'
BY FilesFound, PTL

(* The bytes of a file are bytes, as many as its header says.                  *)
LEMMA ContentsType ==
    ASSUME NEW d \in [Sector -> Contained], NEW hdr \in Header
    PROVE  Contents(d, hdr) \in [0 .. hdr.numBytes - 1 -> Byte \cup {Junk}]
<1>1. hdr.numBytes \in Nat
  BY Zenon, HeaderShape
<1>2. \A p \in 0 .. hdr.numBytes - 1 : p \in Nat /\ p < hdr.numBytes
  BY <1>1
<1>3. \A p \in 0 .. hdr.numBytes - 1 : ByteAt(d, hdr, p) \in Byte \cup {Junk}
  BY Zenon, <1>2, ByteTypes
<1>4. QED BY Zenon, <1>3 DEF Contents

(* A file none of whose sectors changes keeps its bytes.                       *)
LEMMA ContentsKept ==
    ASSUME NEW d, NEW e, NEW hdr \in Header,
           \A j \in DOMAIN hdr.dataSectors : e[hdr.dataSectors[j]] = d[hdr.dataSectors[j]]
    PROVE  Contents(e, hdr) = Contents(d, hdr)
<1>1. hdr.numBytes \in Nat
      /\ DOMAIN hdr.dataSectors = 1 .. divRoundUp(hdr.numBytes, SectorSize)
  BY Zenon, HeaderShape
<1>2. ASSUME NEW p \in 0 .. hdr.numBytes - 1 PROVE ByteAt(e, hdr, p) = ByteAt(d, hdr, p)
  <2>1. p \in Nat /\ p < hdr.numBytes
    BY <1>1
  <2>2. (p \div SectorSize) + 1 \in DOMAIN hdr.dataSectors
    BY Zenon, <1>1, <2>1, ByteInSector, OpenFileAssumption
  <2>3. e[ByteToSector(hdr, p)] = d[ByteToSector(hdr, p)]
    BY Zenon, <2>2 DEF ByteToSector
  <2>4. QED BY Zenon, <2>3 DEF ByteAt
<1>3. QED BY Zenon, <1>2 DEF Contents

(* When FileStore has room for a file.                                         *)
LEMMA FitsIs ==
    ASSUME IInv, NEW k, NEW m \in Nat
    PROVE  Store!Fits(k, m) <=> /\ ~InDirectory(k)
                                /\ \E i \in Entry : directory[i] = NULL
                                /\ NumClear(freeMap) - 1 >= divRoundUp(m, SectorSize)
<1>1. NumClear(freeMap) \in Nat
  BY Zenon, ClearCount DEF IInv, TypeOK
<1>2. Store!Footprint(m) <= NumClear(freeMap) <=>
         NumClear(freeMap) - 1 >= divRoundUp(m, SectorSize)
  BY <1>1, FootprintIs
<1>3. k \notin DOMAIN Files <=> ~InDirectory(k)
  BY Zenon, Lookup
<1>4. Store!Cardinality(DOMAIN Files) < NumDirEntries <=> \E i \in Entry : directory[i] = NULL
  BY Zenon, SameCardinality, Lookup, NamesSize
<1>5. QED BY Zenon, <1>2, <1>3, <1>4 DEF Store!Fits

(* Create gives up only where FileStore refuses.                               *)
LEMMA RefuseStep ==
    ASSUME IInv, NEW n \in Name, NEW size \in Sizes, CreateFails(n, size)
    PROVE  Store!Refuse(Prefix[n], size)
<1>1. size \in Nat
  BY FileSystemAssumption
<1>2. NumClear(freeMap) \in Nat /\ divRoundUp(size, SectorSize) \in Nat
  BY Zenon, <1>1, ClearCount, FootprintIs DEF IInv, TypeOK
<1>3. ~Store!Fits(Prefix[n], size)
  BY <1>1, <1>2, FitsIs DEF CreateFails
<1>4. result' = FALSE /\ UNCHANGED <<disk, directory, freeMap>>
  BY Zenon DEF CreateFails
<1>5. Files' = Files /\ NumClear(freeMap)' = NumClear(freeMap)
  BY Zenon, <1>4, SameFiles DEF NumClear
<1>6. QED BY Zenon, <1>3, <1>4, <1>5 DEF Store!Refuse

(* A file in the directory before and after a step keeps its bytes when its    *)
(* entry and its sectors do.                                                   *)
LEMMA FileKept ==
    ASSUME IInv, IInv', NEW j \in InUse, j \in InUse', directory'[j] = directory[j],
           \A s \in Sectors(j) : disk'[s] = disk[s]
    PROVE  /\ directory[j].name \in FileNames /\ directory[j].name \in FileNames'
           /\ Files'[directory[j].name] = Files[directory[j].name]
<1>1. HeaderOf(j)' = HeaderOf(j)
  BY Zenon DEF HeaderOf, Sectors
<1>2. HeaderOf(j) \in Header
  BY Zenon, HeadersOfFiles
<1>3. \A x \in DOMAIN HeaderOf(j).dataSectors :
         disk'[HeaderOf(j).dataSectors[x]] = disk[HeaderOf(j).dataSectors[x]]
  BY Zenon DEF Sectors
<1>4. Contents(disk', HeaderOf(j)) = Contents(disk, HeaderOf(j))
  BY Zenon, <1>2, <1>3, ContentsKept
<1>5. /\ directory'[j].name \in FileNames'
      /\ Files'[directory'[j].name] = Contents(disk', HeaderOf(j)')
  BY Zenon, FilesFoundNext DEF FilesByEntry
<1>6. /\ directory[j].name \in FileNames
      /\ Files[directory[j].name] = Contents(disk, HeaderOf(j))
  BY Zenon, FilesFound DEF FilesByEntry
<1>7. QED BY Zenon, <1>1, <1>4, <1>5, <1>6

(* Create adds one file, of the size asked for, and takes its footprint.       *)
LEMMA CreateStoreStep ==
    ASSUME IInv, NEW n \in Name, NEW size \in Sizes, Create(n, size)
    PROVE  Store!Create(Prefix[n], size)
<1>1. PICK found, i, hdr : Created(n, size, found, i, hdr)
  BY CreateEffect
<1>2. size \in Nat /\ divRoundUp(size, SectorSize) \in Nat
      /\ Store!Footprint(size) = 1 + divRoundUp(size, SectorSize)
  BY Zenon, FootprintIs, FileSystemAssumption
<1>3. IInv'
  BY Zenon, CreateStep
<1>4. Store!Fits(Prefix[n], size)
  <2>1. /\ ~InDirectory(Prefix[n])
        /\ \E e \in Entry : directory[e] = NULL
        /\ NumClear(freeMap) - 1 >= divRoundUp(size, SectorSize)
    BY Zenon DEF Create, FirstUnused
  <2>2. QED BY <1>2, <2>1, FitsIs
<1>5. /\ i \notin InUse /\ InUse' = InUse \cup {i} /\ directory'[i].name = Prefix[n]
      /\ HeaderOf(i)' = hdr /\ hdr \in Header /\ hdr.numBytes = size
      /\ disk' \in [Sector -> Contained]
      /\ \A j \in InUse : directory'[j] = directory[j] /\ Sectors(j) \subseteq freeMap
      /\ \A s \in freeMap : disk'[s] = disk[s]
  BY Zenon, <1>1 DEF Created
<1>6. FileNames' = FileNames \cup {Prefix[n]}
  BY Zenon, <1>5 DEF FileNames
<1>7. \A j \in FileNames : Files'[j] = Files[j]
  <2> SUFFICES ASSUME NEW j \in InUse
               PROVE  Files'[directory[j].name] = Files[directory[j].name]
    BY Zenon DEF FileNames
  <2>1. j \in InUse' /\ directory'[j] = directory[j] /\ \A s \in Sectors(j) : disk'[s] = disk[s]
    BY Zenon, <1>5
  <2>2. QED BY Zenon, <1>3, <2>1, FileKept
<1>8. Files'[Prefix[n]] \in [0 .. size - 1 -> Byte \cup {Junk}]
  <2>1. Files'[directory'[i].name] = Contents(disk', HeaderOf(i)')
    BY Zenon, <1>3, <1>5, FilesFoundNext DEF FilesByEntry
  <2>2. Contents(disk', hdr) \in [0 .. hdr.numBytes - 1 -> Byte \cup {Junk}]
    BY Zenon, <1>5, ContentsType
  <2>3. QED BY Zenon, <1>5, <2>1, <2>2
<1>9. NumClear(freeMap)' = NumClear(freeMap) - Store!Footprint(size)
  <2>1. /\ found \in [1 .. 1 + divRoundUp(size, SectorSize) -> Sector \ freeMap]
        /\ \A a, b \in DOMAIN found : found[a] = found[b] => a = b
        /\ freeMap' = freeMap \cup Marked(found)
    BY Zenon, <1>1 DEF Created
  <2>2. Cardinality(Marked(found)) = 1 + divRoundUp(size, SectorSize)
    <3> DEFINE m == 1 + divRoundUp(size, SectorSize)
    <3>1. /\ m \in Nat /\ DOMAIN found = 1 .. m
          /\ \A a, b \in 1 .. m : found[a] = found[b] => a = b
      BY <1>2, <2>1
    <3>2. QED BY Zenon, <3>1, ImageSize
  <2>3. Marked(found) \subseteq Sector \ freeMap /\ freeMap \subseteq Sector
    BY <2>1 DEF Marked, IInv, TypeOK
  <2>4. NumClear(freeMap \cup Marked(found)) = NumClear(freeMap) - Cardinality(Marked(found))
    BY Zenon, <2>3, ClearCount
  <2>5. NumClear(freeMap)' = NumClear(freeMap')
    BY Zenon DEF NumClear
  <2>6. QED BY <1>2, <2>1, <2>2, <2>4, <2>5
<1>10. DOMAIN Files = FileNames /\ DOMAIN Files' = FileNames'
  BY Zenon DEF Files
<1>11. result' = TRUE
  BY Zenon DEF Create
<1>12. QED BY Zenon, <1>4, <1>6, <1>7, <1>8, <1>9, <1>10, <1>11 DEF Store!Create

(* Remove takes one file away and gives all its sectors back.                  *)
LEMMA RemoveStoreStep ==
    ASSUME IInv, NEW n \in Name, Remove(n)
    PROVE  Store!Remove(Prefix[n])
<1>1. PICK i \in Entry :
         /\ FindIndex(Prefix[n], i)
         /\ freeMap' = freeMap \ Deallocated(directory[i].sector, disk[directory[i].sector].hdr)
         /\ directory' = [directory EXCEPT ![i] = NULL]
  BY Zenon DEF Remove
<1>2. disk' = disk /\ result' = TRUE /\ directory \in [Entry -> [name : Key, sector : Sector] \cup {NULL}]
  BY Zenon DEF Remove, IInv, TypeOK
<1>3. i \in InUse /\ directory[i].name = Prefix[n]
  BY Zenon, <1>1 DEF FindIndex, Matches, InUse
<1>4. freeMap' = freeMap \ Sectors(i)
  BY Zenon, <1>1 DEF Deallocated, Sectors, HeaderOf
<1>5. IInv'
  BY Zenon, RemoveStep
<1>6. InUse' = InUse \ {i} /\ \A j \in InUse' : directory'[j] = directory[j]
  BY Zenon, <1>1, <1>2, <1>3 DEF InUse
<1>7. FileNames' = FileNames \ {Prefix[n]}
  <2>1. \A j \in InUse : directory[j].name = Prefix[n] <=> j = i
    BY Zenon, <1>3 DEF IInv, FilesAreDisjoint
  <2>2. QED BY <1>6, <2>1 DEF FileNames
<1>8. \A k \in FileNames' : Files'[k] = Files[k]
  <2> SUFFICES ASSUME NEW j \in InUse' PROVE Files'[directory'[j].name] = Files[directory'[j].name]
    BY Zenon DEF FileNames
  <2>1. j \in InUse /\ directory'[j] = directory[j] /\ \A s \in Sectors(j) : disk'[s] = disk[s]
    BY Zenon, <1>2, <1>6
  <2>2. Files'[directory[j].name] = Files[directory[j].name]
    BY ONLY Zenon, IInv, <1>5, <2>1, j \in InUse', FileKept
  <2>3. QED BY ONLY Zenon, <2>1, <2>2
<1>9. Files' = [k \in FileNames \ {Prefix[n]} |-> Files[k]]
  <2>1. Files' = [k \in FileNames' |-> Files'[k]]
    BY Zenon DEF Files
  <2>2. QED BY Zenon, <1>7, <1>8, <2>1
<1>10. Store!Length(Files[Prefix[n]]) = HeaderOf(i).numBytes /\ HeaderOf(i).numBytes \in Nat
  <2>1. HeaderOf(i) \in Header
    BY Zenon, <1>3, HeadersOfFiles
  <2>2. Files[Prefix[n]] = Contents(disk, HeaderOf(i))
    BY Zenon, <1>3, EntryUnique
  <2>3. QED BY Zenon, <2>1, <2>2, LengthIs, HeaderShape
<1>11. NumClear(freeMap)' = NumClear(freeMap) + Store!Footprint(Store!Length(Files[Prefix[n]]))
  <2>1. /\ Cardinality(Sectors(i)) = Store!Footprint(HeaderOf(i).numBytes)
        /\ Sectors(i) \subseteq freeMap
    BY Zenon, <1>3, <1>10, SectorsSize, FootprintIs
  <2>2. NumClear(freeMap \ Sectors(i)) = NumClear(freeMap) + Cardinality(Sectors(i))
    BY Zenon, <2>1, ClearCount DEF IInv, TypeOK
  <2>3. NumClear(freeMap)' = NumClear(freeMap')
    BY DEF NumClear
  <2>4. QED BY Zenon, <1>4, <1>10, <2>1, <2>2, <2>3
<1>12. DOMAIN Files = FileNames /\ Prefix[n] \in FileNames
  BY Zenon, <1>3 DEF Files, FileNames
<1>13. QED BY Zenon, <1>2, <1>9, <1>11, <1>12 DEF Store!Remove

(* A header has room for MaxFileSize bytes.                                    *)
LEMMA LongestFile ==
    ASSUME NEW hdr \in Header
    PROVE  hdr.numBytes \in Nat /\ hdr.numBytes <= MaxFileSize /\ MaxFileSize \in Nat
<1>1. PICK n \in 0 .. NumDirect :
         hdr \in [numBytes    : {m \in 0 .. n * SectorSize : divRoundUp(m, SectorSize) = n},
                  dataSectors : [1 .. n -> Sector]]
  BY DEF Header
<1>2. hdr.numBytes \in 0 .. n * SectorSize /\ n \in Nat /\ NumDirect >= n
  BY <1>1, OpenFileAssumption
<1>3. SectorSize * NumDirect >= SectorSize * n
  BY Zenon, <1>2, Monotonic, OpenFileAssumption
<1>4. /\ n * SectorSize = SectorSize * n /\ NumDirect * SectorSize = SectorSize * NumDirect
      /\ SectorSize * n \in Nat /\ SectorSize * NumDirect \in Nat
  BY Zenon, <1>2, Products, OpenFileAssumption
<1>5. QED BY <1>2, <1>3, <1>4 DEF MaxFileSize

(* Write, the file not removed, changes bytes of that file only, those of the  *)
(* interval written; a position past the end of the file changes none.         *)
LEMMA WriteStoreStep ==
    ASSUME IInv, NEW h \in Handle, NEW from \in Buffers, Write(h, from), Current(h)
    PROVE  Store!Write \/ UNCHANGED <<Files, NumClear(freeMap), result>>
<1> DEFINE hdr      == handle[h].hdr
           position == handle[h].seekPosition
<1>1. /\ handle[h] # NULL
      /\ disk' = WriteAt(disk, hdr, from, position)
      /\ freeMap' = freeMap /\ directory' = directory /\ result' = result
  BY DEF Write, Written
<1>2. /\ hdr \in Header /\ position \in Nat /\ from \in Seq(Byte) /\ Len(from) \in Nat
      /\ disk \in [Sector -> Contained]
  <2>1. handle[h] \in [name : Key, hdr : Header, seekPosition : Nat]
    BY Zenon, <1>1 DEF IInv, TypeOK
  <2>2. from \in Seq(Byte)
    BY FileSystemAssumption
  <2>3. disk \in [Sector -> Contained]
    BY Zenon DEF IInv, TypeOK
  <2>4. QED BY ONLY <2>1, <2>2, <2>3
<1>3. PICK i \in InUse : HeaderOf(i) = hdr
  BY Zenon DEF Current
<1> HIDE DEF hdr, position
<1>4. NumClear(freeMap)' = NumClear(freeMap)
  BY Zenon, <1>1 DEF NumClear
<1>5. CASE position > MaxFileSize
  <2>1. hdr.numBytes \in Nat /\ hdr.numBytes <= MaxFileSize /\ MaxFileSize \in Nat
    BY Zenon, <1>2, LongestFile
  <2>2. Clipped(hdr, Len(from), position) = 0
    BY <1>2, <1>5, <2>1 DEF Clipped
  <2>3. disk' = disk
    BY <1>1, <2>2, Zenon DEF WriteAt
  <2>4. Files' = Files
    BY Zenon, <1>1, <2>3, SameFiles
  <2>5. QED BY Zenon, <1>1, <1>4, <2>4
<1>6. CASE position \in 0 .. MaxFileSize
  <2> DEFINE k == directory[i].name
  <2>1. IInv'
    BY WriteStep
  <2>2. \A s \in Sector :
           s \notin {hdr.dataSectors[j] : j \in DOMAIN hdr.dataSectors} => disk'[s] = disk[s]
    <3>1. \A s \in Sector :
             s \notin {hdr.dataSectors[j] : j \in DOMAIN hdr.dataSectors} =>
                 WriteAt(disk, hdr, from, position)[s] = disk[s]
      BY ONLY <1>2, WriteAtEffect
    <3>2. QED BY Zenon, <1>1, <3>1
  <2>3. InUse' = InUse /\ FileNames' = FileNames
    BY Zenon, <1>1 DEF InUse, FileNames
  <2>4. \A j \in InUse : j # i => Files'[directory[j].name] = Files[directory[j].name]
    <3> SUFFICES ASSUME NEW j \in InUse, j # i
                 PROVE  Files'[directory[j].name] = Files[directory[j].name]
      BY Zenon
    <3>1. Sectors(i) \cap Sectors(j) = {} /\ Sectors(j) \subseteq Sector
      <4>1. Sectors(j) \subseteq freeMap /\ freeMap \subseteq Sector
        BY Zenon, SectorsSize DEF IInv, TypeOK
      <4>2. QED BY Zenon, <4>1 DEF IInv, FilesAreDisjoint
    <3>2. {hdr.dataSectors[x] : x \in DOMAIN hdr.dataSectors} \subseteq Sectors(i)
      BY <1>3 DEF Sectors
    <3>3. \A s \in Sectors(j) : disk'[s] = disk[s]
      BY Zenon, <2>2, <3>1, <3>2
    <3>4. QED BY Zenon, <1>1, <2>1, <2>3, <3>3, FileKept
  <2>5. k \in FileNames /\ Files[k] = Contents(disk, hdr)
    BY Zenon, <1>3, EntryUnique
  <2>6. Files'[k] = Contents(disk', hdr)
    <3>1. directory[i].sector \notin {hdr.dataSectors[j] : j \in DOMAIN hdr.dataSectors}
          /\ directory[i].sector \in Sector
      BY Zenon, <1>3, HeadersOfFiles DEF IInv, FilesAreDisjoint
    <3>2. HeaderOf(i)' = hdr
      BY Zenon, <1>1, <1>3, <2>2, <3>1 DEF HeaderOf
    <3>3. Files'[directory'[i].name] = Contents(disk', HeaderOf(i)')
      BY Zenon, <2>1, <2>3, FilesFoundNext DEF FilesByEntry
    <3>4. QED BY Zenon, <1>1, <3>2, <3>3
  <2>7. Contents(disk', hdr) =
          [p \in DOMAIN Contents(disk, hdr) |->
              IF p \in position .. position + Len(from) - 1
              THEN from[p - position + 1] ELSE Contents(disk, hdr)[p]]
    <3>1. \A a, b \in DOMAIN hdr.dataSectors : hdr.dataSectors[a] = hdr.dataSectors[b] => a = b
      BY Zenon, <1>3 DEF IInv, FilesAreDisjoint
    <3>2. hdr.numBytes \in Nat
      BY Zenon, <1>2, HeaderShape
    <3>3. \A p \in 0 .. hdr.numBytes - 1 :
             ByteAt(disk', hdr, p) = IF p \in position .. position + Len(from) - 1
                                     THEN from[p - position + 1] ELSE ByteAt(disk, hdr, p)
      <4> SUFFICES ASSUME NEW p \in 0 .. hdr.numBytes - 1
                   PROVE  ByteAt(WriteAt(disk, hdr, from, position), hdr, p) =
                             IF p \in position .. position + Len(from) - 1
                             THEN from[p - position + 1] ELSE ByteAt(disk, hdr, p)
        BY Zenon, <1>1
      <4>1. p \in Nat /\ p < hdr.numBytes
        BY <3>2
      <4>2. QED BY <1>2, <3>1, <4>1, WriteAtBytes
    <3>4. QED BY <3>3 DEF Contents
  <2> HIDE DEF k
  <2>8. Files' = [Files EXCEPT ![k] =
                    [p \in DOMAIN Files[k] |->
                        IF p \in position .. position + Len(from) - 1
                        THEN from[p - position + 1] ELSE Files[k][p]]]
    <3>1. DOMAIN Files = FileNames /\ Files = [x \in FileNames |-> Files[x]]
          /\ Files' = [x \in FileNames' |-> Files'[x]]
      BY Zenon DEF Files
    <3>2. \A x \in FileNames : x # k => Files'[x] = Files[x]
      BY Zenon, <2>4 DEF FileNames, k
    <3>3. Files'[k] = [p \in DOMAIN Files[k] |->
                          IF p \in position .. position + Len(from) - 1
                          THEN from[p - position + 1] ELSE Files[k][p]]
      BY Zenon, <2>5, <2>6, <2>7
    <3>4. QED BY Zenon, <2>3, <2>5, <3>1, <3>2, <3>3
  <2>9. k \in DOMAIN Files
    BY Zenon, <2>5 DEF Files
  <2>10. QED BY Zenon, <1>1, <1>4, <1>6, <2>8, <2>9 DEF Store!Write
<1>7. QED BY <1>2, <1>5, <1>6, LongestFile

(* Formatting leaves no file and all the sectors but the file system's own.    *)
LEMMA FormatStoreStep ==
    ASSUME freeMap' = Reserved, directory' = NoFiles, result' = result
    PROVE  Store!Format
<1>1. InUse' = {}
  BY Zenon DEF InUse, NoFiles
<1>2. Files' = Store!NoFile
  BY Zenon, <1>1 DEF Files, FileNames, Store!NoFile
<1>3. NumClear(freeMap)' = NumSectors - Cardinality(Reserved)
  BY Zenon, EmptyCapacity DEF NumClear
<1>4. QED BY Zenon, <1>2, <1>3 DEF Store!Format

(* Every step of the file system is a step of FileStore, or a write through an *)
(* OpenFile of a removed file, or changes nothing FileStore sees.              *)
LEMMA StoreStep ==
    IInv /\ [Next]_vars => [StaleWrite \/ Store!Next]_<<Files, NumClear(freeMap), result>>
<1> SUFFICES ASSUME IInv, [Next]_vars
             PROVE  StaleWrite \/ Store!Next \/ UNCHANGED <<Files, NumClear(freeMap), result>>
  BY Zenon
<1>1. ASSUME UNCHANGED <<disk, freeMap, directory, result>>
      PROVE  UNCHANGED <<Files, NumClear(freeMap), result>>
  BY Zenon, <1>1, SameFiles DEF NumClear
<1>2. ASSUME NEW n \in Name, UNCHANGED <<disk, freeMap, directory>>,
             result' = InDirectory(Prefix[n])
      PROVE  Store!Next
  <2>1. Files' = Files /\ NumClear(freeMap)' = NumClear(freeMap)
    BY Zenon, <1>2, SameFiles DEF NumClear
  <2>2. Prefix[n] \in Key
    BY Zenon, FileSystemAssumption
  <2>3. Prefix[n] \in DOMAIN Files <=> InDirectory(Prefix[n])
    BY Zenon, Lookup
  <2>4. CASE InDirectory(Prefix[n])
    <3>1. Store!Open(Prefix[n])
      BY Zenon, <1>2, <2>1, <2>3, <2>4 DEF Store!Open
    <3>2. QED BY Zenon, <2>2, <3>1 DEF Store!Next
  <2>5. CASE ~InDirectory(Prefix[n])
    <3>1. Store!NotFound(Prefix[n])
      BY SMTT(30), <1>2, <2>1, <2>3, <2>5 DEF Store!NotFound
    <3>2. QED BY Zenon, <2>2, <3>1 DEF Store!Next
  <2>6. QED BY Zenon, <2>4, <2>5
<1>3. ASSUME NEW n \in Name, NEW size \in Sizes, CreateFails(n, size) \/ Create(n, size)
      PROVE  Store!Next
  <2>1. Prefix[n] \in Key
    BY Zenon, FileSystemAssumption
  <2>2. Store!Refuse(Prefix[n], size) \/ Store!Create(Prefix[n], size)
    BY Zenon, <1>3, RefuseStep, CreateStoreStep
  <2>3. QED BY Zenon, <2>1, <2>2 DEF Store!Next
<1>4. ASSUME NEW n \in Name, NEW size \in Sizes, CreateOverruns(n, size)
      PROVE  UNCHANGED <<Files, NumClear(freeMap), result>>
  BY <1>1, <1>4 DEF CreateOverruns
<1>5. ASSUME NEW n \in Name, RemoveFails(n) PROVE Store!Next
  <2>1. result' = InDirectory(Prefix[n])
    BY <1>5, Zenon DEF RemoveFails, InDirectory
  <2>2. UNCHANGED <<disk, freeMap, directory>>
    BY Zenon, <1>5 DEF RemoveFails
  <2>3. QED BY <1>2, <2>1, <2>2, Zenon
<1>6. ASSUME NEW n \in Name, Remove(n) PROVE Store!Next
  <2>1. Prefix[n] \in Key
    BY FileSystemAssumption
  <2>2. QED BY <1>6, <2>1, RemoveStoreStep DEF Store!Next
<1>7. ASSUME NEW h \in Handle, NEW n \in Name, Open(h, n) PROVE Store!Next
  <2>1. result' = InDirectory(Prefix[n])
    BY <1>7, Zenon DEF Open
  <2>2. UNCHANGED <<disk, freeMap, directory>>
    BY Zenon, <1>7 DEF Open
  <2>3. QED BY <1>2, <2>1, <2>2, Zenon
<1>8. ASSUME NEW h \in Handle, NEW x,
             Seek(h, x) \/ Read(h, x) \/ Close(h)
      PROVE  UNCHANGED <<Files, NumClear(freeMap), result>>
  BY Zenon, <1>1, <1>8 DEF Seek, Read, Close
<1>9. ASSUME NEW h \in Handle, NEW from \in Buffers, Write(h, from)
      PROVE  StaleWrite \/ Store!Next \/ UNCHANGED <<Files, NumClear(freeMap), result>>
  <2>1. CASE Current(h)
    BY Zenon, <1>9, <2>1, WriteStoreStep DEF Store!Next
  <2>2. CASE ~Current(h)
    BY Zenon, <1>9, <2>2 DEF StaleWrite
  <2>3. QED BY Zenon, <2>1, <2>2
<1>10. ASSUME NEW format \in BOOLEAN, Boot(format)
       PROVE  Store!Next \/ UNCHANGED <<Files, NumClear(freeMap), result>>
  <2>1. disk' = disk /\ result' = result
    BY Zenon, <1>10 DEF Boot
  <2>2. CASE freeMap' = freeMap /\ directory' = directory
    BY Zenon, <1>1, <2>1, <2>2
  <2>3. CASE freeMap' = Reserved /\ directory' = NoFiles
    BY Zenon, <2>1, <2>3, FormatStoreStep DEF Store!Next
  <2>4. QED BY Zenon, <1>10, <2>2, <2>3 DEF Boot
<1>11. ASSUME NEW h \in Handle, NEW from \in Buffers, WriteOverHeader(h, from)
       PROVE  UNCHANGED <<Files, NumClear(freeMap), result>>
  BY Zenon, <1>1, <1>11 DEF WriteOverHeader
<1>12. CASE UNCHANGED vars
  BY <1>1, <1>12 DEF vars
<1>13. QED BY <1>3, <1>4, <1>5, <1>6, <1>7, <1>8, <1>9, <1>10, <1>11, <1>12 DEF Next, Undefined

(* The file system keeps what FileStore promises, on disks and directories of  *)
(* any size and whatever its callers do short of writing through an OpenFile   *)
(* of a removed file: Create fails for the documented reasons only and takes   *)
(* exactly the file's footprint, Remove gives it all back, and no operation    *)
(* changes a byte of another file.                                             *)
THEOREM FileSystemImplementsFileStore == Spec => ImplementsFileStore
<1>1. Init => Store!Init
  <2> SUFFICES ASSUME Init PROVE Store!Init
    OBVIOUS
  <2>1. InUse = {}
    BY DEF Init, InUse, NoFiles
  <2>2. Files = Store!NoFile
    BY Zenon, <2>1 DEF Files, FileNames, Store!NoFile
  <2>3. NumClear(freeMap) = NumSectors - Cardinality(Reserved) /\ result = TRUE
    BY EmptyCapacity DEF Init
  <2>4. QED BY Zenon, <2>2, <2>3 DEF Store!Init
<1>2. QED BY <1>1, StoreStep, Invariant, PTL DEF Spec, ImplementsFileStore
=============================================================================
