-------------------------------- MODULE Coff --------------------------------
(* From an object file to memory: coff2noff and the AddrSpace that loads what *)
(* it wrote, coff2flat, load_program of the stand-alone interpreter, and the  *)
(* listings of disasm and out.  A file or a memory is a function from         *)
(* positions to bytes; the byte at position p of the COFF file is p itself,   *)
(* so that every byte can be traced.                                          *)
EXTENDS Integers, Sequences, FiniteSets

CONSTANTS Coffs,               \* the object files
          HeaderSize,          \* sizeof(NoffHeader)
          UserStackSize, StackSize, PageSize, NumPhysPages,
          MEMSIZE, memoffset,  \* mem[] of the interpreter and of disasm, and its first address
          MAXSCNS, MAXDATA     \* the sections, and the words of one, that out has room for

VARIABLES coff,     \* the object file: its magic numbers, length and section headers
          phase,    \* the tool that is running
          section,  \* the section it is at
          noff,     \* the NOFF file: whether it is there, its header, its bytes
          header,   \* noffH, in coff2noff
          space,    \* what AddrSpace made: numPages, pageTable, mainMemory, the stack pointer
          flat,     \* the flat file
          mem,      \* the memories of the interpreter and of disasm
          lines,    \* what disasm and out list: addresses and words of four bytes
          failed    \* the tools that gave up

coffVars == <<coff, phase, section, noff, header, space, flat, mem, lines, failed>>

(* Sizes and addresses are whole numbers, and coff2flat's stack has room for  *)
(* the word at its end.                                                       *)
SizesAreNatural ==
    /\ \A c \in Coffs : /\ c.sections \in Seq([name : STRING, paddr : Nat, vaddr : Nat, size : Nat, scnptr : Nat])
                        /\ c.length \in Nat
    /\ HeaderSize \in Nat /\ UserStackSize \in Nat /\ StackSize \in Nat /\ StackSize >= 4
    /\ MEMSIZE \in Nat /\ memoffset \in Nat /\ NumPhysPages \in Nat /\ PageSize \in Nat \ {0}

ASSUME CoffAssumption == SizesAreNatural

NoSegment == [virtualAddr |-> 0, inFileAddr |-> 0, size |-> 0]
NoNoff == [exists |-> FALSE, header |-> <<>>, bytes |-> <<>>]
NoFile == [p \in {} |-> 0]
Zeroed(n) == [p \in 0 .. n - 1 |-> 0]

Init ==
    /\ coff \in Coffs
    /\ phase = "coff2noff" /\ section = 0
    /\ noff = [exists |-> TRUE, header |-> <<>>, bytes |-> NoFile]
    /\ header = [code |-> NoSegment, initData |-> NoSegment, uninitData |-> NoSegment]
    /\ space = [numPages |-> 0, pageTable |-> NoFile, mainMemory |-> NoFile, stack |-> 0]
    /\ flat = NoFile
    /\ mem = [load_program |-> Zeroed(MEMSIZE), disasm |-> Zeroed(MEMSIZE)]
    /\ lines = [disasm |-> <<>>, out |-> <<>>]
    /\ failed = {}

Sections == coff.sections
This == Sections[section]
Good == coff.magic /\ coff.omagic
InFile(s) == s.scnptr + s.size <= coff.length
Over(f, g) == [p \in DOMAIN f \cup DOMAIN g |-> IF p \in DOMAIN f THEN f[p] ELSE g[p]]
Copy(s, at, file) == Over([p \in at .. at + s.size - 1 |-> s.scnptr + (p - at)], file)

-----------------------------------------------------------------------------
(* coff2noff                                                                  *)

Enter(next) == phase' = next /\ section' = 0

(* Every error removes the output file; flat and load are tried next.         *)
GiveUpNoff ==
    /\ noff' = NoNoff
    /\ failed' = failed \cup {"coff2noff"}
    /\ Enter("coff2flat")
    /\ UNCHANGED <<coff, header, space, flat, mem, lines>>

ReadHeaders ==
    /\ phase = "coff2noff" /\ section = 0
    /\ IF Good
       THEN section' = 1 /\ UNCHANGED <<coff, phase, noff, header, space, flat, mem, lines, failed>>
       ELSE GiveUpNoff

(* Mutant: the position in the output file does not advance.                  *)
inNoffFileStays == HeaderSize

inNoffFile == HeaderSize + Cardinality(DOMAIN noff.bytes)

(* A segment is copied behind the ones before it.                             *)
CopySegment(kind) ==
    \/ /\ InFile(This)
       /\ header' = [header EXCEPT ![kind] = [virtualAddr |-> This.paddr, inFileAddr |-> inNoffFile,
                                              size |-> This.size]]
       /\ noff' = [noff EXCEPT !.bytes = Copy(This, inNoffFile, @)]
       /\ section' = section + 1
       /\ UNCHANGED <<coff, phase, space, flat, mem, lines, failed>>
    \/ GiveUpNoff                   \* the file is too short, or cannot be written

AtSection(names) ==
    /\ phase = "coff2noff" /\ section \in DOMAIN Sections
    /\ This.size # 0 /\ This.name \in names

EmptySection ==
    /\ phase = "coff2noff" /\ section \in DOMAIN Sections /\ This.size = 0
    /\ section' = section + 1
    /\ UNCHANGED <<coff, phase, noff, header, space, flat, mem, lines, failed>>

Text == AtSection({".text"}) /\ CopySegment("code")

Data ==
    /\ AtSection({".data", ".rdata"})
    /\ IF header.initData.size # 0 THEN GiveUpNoff ELSE CopySegment("initData")

(* A second section is refused when it starts where the first one ends.       *)
Bss ==
    /\ AtSection({".bss", ".sbss"})
    /\ LET u == header.uninitData
       IN  IF u.size # 0 /\ This.paddr = u.virtualAddr + u.size
           THEN GiveUpNoff
           ELSE /\ header' = [header EXCEPT !.uninitData =
                                 IF u.size # 0 THEN [u EXCEPT !.size = @ + This.size]
                                 ELSE [u EXCEPT !.virtualAddr = This.paddr, !.size = This.size]]
                /\ section' = section + 1
                /\ UNCHANGED <<coff, phase, noff, space, flat, mem, lines, failed>>

Unknown ==
    /\ phase = "coff2noff" /\ section \in DOMAIN Sections /\ This.size # 0
    /\ This.name \notin {".text", ".data", ".rdata", ".bss", ".sbss"}
    /\ GiveUpNoff

WriteHeader ==
    /\ phase = "coff2noff" /\ section = Len(Sections) + 1
    /\ \/ /\ noff' = [noff EXCEPT !.header = header]
          /\ Enter("AddrSpace")
          /\ UNCHANGED <<coff, header, space, flat, mem, lines, failed>>
       \/ GiveUpNoff

-----------------------------------------------------------------------------
(* AddrSpace, on the file that coff2noff wrote.                               *)

divRoundUp(n, s) == (n + s - 1) \div s

Segment(seg, file) == [a \in seg.virtualAddr .. seg.virtualAddr + seg.size - 1 |->
                          file[seg.inFileAddr + (a - seg.virtualAddr)]]

(* Frame i for page i, and the stack pointer a bit below the end.             *)
PageTable(numPages) == [i \in 0 .. numPages - 1 |-> i]
InitRegisters(numPages) == numPages * PageSize - 16

(* A segment beyond mainMemory is stored there, or the store faults.          *)
AddrSpace ==
    /\ phase = "AddrSpace"
    /\ LET h        == noff.header
           size     == h.code.size + h.initData.size + h.uninitData.size + UserStackSize
           numPages == divRoundUp(size, PageSize)
           outside  == \E seg \in {h.code, h.initData} :
                           seg.size # 0 /\ seg.virtualAddr + seg.size > PageSize * NumPhysPages
       IN  \/ /\ numPages <= NumPhysPages
              /\ space' = [numPages |-> numPages, pageTable |-> PageTable(numPages),
                           mainMemory |-> Over(Segment(h.initData, noff.bytes),
                                               Over(Segment(h.code, noff.bytes), Zeroed(PageSize * NumPhysPages))),
                           stack |-> InitRegisters(numPages)]
              /\ failed' = failed
           \/ /\ numPages > NumPhysPages \/ outside
              /\ failed' = failed \cup {"AddrSpace"}
              /\ UNCHANGED space
    /\ Enter("coff2flat")
    /\ UNCHANGED <<coff, noff, header, flat, mem, lines>>

-----------------------------------------------------------------------------
(* coff2flat: the sections one behind the other, and a word at the end of the *)
(* stack.  What was written stays when it gives up.                           *)

GiveUpFlat ==
    /\ failed' = failed \cup {"coff2flat"}
    /\ Enter("load_program")
    /\ UNCHANGED <<coff, noff, header, space, flat, mem, lines>>

FlatHeaders ==
    /\ phase = "coff2flat" /\ section = 0
    /\ IF Good
       THEN section' = 1 /\ UNCHANGED <<coff, phase, noff, header, space, flat, mem, lines, failed>>
       ELSE GiveUpFlat

FlatSection ==
    /\ phase = "coff2flat" /\ section \in DOMAIN Sections
    /\ \/ /\ This.name \in {".bss", ".sbss"} \/ InFile(This)
          /\ flat' = IF This.name \in {".bss", ".sbss"} THEN flat
                     ELSE Copy(This, Cardinality(DOMAIN flat), flat)
          /\ section' = section + 1
          /\ UNCHANGED <<coff, phase, noff, header, space, mem, lines, failed>>
       \/ GiveUpFlat

Top == LET ends == {0} \cup {Sections[k].paddr + Sections[k].size : k \in DOMAIN Sections}
       IN  CHOOSE n \in ends : \A e \in ends : n >= e

(* Seeking past the end of a file leaves zeros behind.                        *)
FlatStack ==
    /\ phase = "coff2flat" /\ section = Len(Sections) + 1
    /\ \/ /\ flat' = Over([p \in Top + StackSize - 4 .. Top + StackSize - 1 |-> 0], Over(flat, Zeroed(Top + StackSize)))
          /\ Enter("load_program")
          /\ UNCHANGED <<coff, noff, header, space, mem, lines, failed>>
       \/ GiveUpFlat

-----------------------------------------------------------------------------
(* load_program: the first section of each name, in this order, by virtual    *)
(* address.  disasm has one of its own, which looks at the limit before each  *)
(* byte.  mem[] stands for the addresses from memoffset: a position is an     *)
(* address less memoffset, and the positions below 0 are outside mem[].       *)

LoadOrder == <<".text", ".rdata", ".data", ".sdata", ".sbss", ".bss">>
Named(name) == {k \in DOMAIN Sections : Sections[k].name = name}
Header(name) == Sections[CHOOSE k \in Named(name) : \A j \in Named(name) : k <= j]

(* getc(fp): main has closed fp, and the FILE that ldopen opens is taken to   *)
(* be that one again, so that the seek on ldptr moves fp.                     *)
getc(p) == IF p < coff.length THEN p ELSE -1

(* pc - memoffset is signed: an address below memoffset passes both tests.    *)
Fits(tool, s) ==
    IF tool = "disasm" THEN s.size = 0 \/ s.vaddr - memoffset + s.size <= MEMSIZE
    ELSE s.vaddr - memoffset + s.size < MEMSIZE

Outside(s) == s.size # 0 /\ s.vaddr < memoffset

(* A byte for an address below memoffset is stored outside mem[], where no    *)
(* one looks for it, or the store faults.                                     *)
Load(tool, next) ==
    /\ phase = tool /\ section < Len(LoadOrder)
    /\ LET name == LoadOrder[section + 1]
           s    == Header(name)
           at   == s.vaddr - memoffset
       IN  IF coff.magic /\ (Named(name) = {} \/ s.scnptr = 0)
           THEN section' = section + 1 /\ UNCHANGED <<phase, mem, failed>>
           ELSE \/ /\ coff.magic /\ Fits(tool, s)
                   /\ section' = section + 1
                   /\ mem' = [mem EXCEPT ![tool] = Over([p \in at .. at + s.size - 1 |-> getc(s.scnptr + (p - at))], @)]
                   /\ UNCHANGED <<phase, failed>>
                \/ /\ coff.magic => ~Fits(tool, s) \/ Outside(s)
                   /\ Enter(next) /\ failed' = failed \cup {tool} /\ UNCHANGED mem
    /\ UNCHANGED <<coff, noff, header, space, flat, lines>>

LoadSection == Load("load_program", "disasm")

Loaded ==
    /\ phase = "load_program" /\ section = Len(LoadOrder)
    /\ Enter("disasm")
    /\ UNCHANGED <<coff, noff, header, space, flat, mem, lines, failed>>

load_section == Load("disasm", "out")

(* What is behind mem[] is no byte of the file.                               *)
fetch(p) == IF p \in DOMAIN mem.disasm THEN mem.disasm[p] ELSE -1
dis1(pc) == <<pc, [b \in 0 .. 3 |-> fetch((pc - memoffset) + b)]>>

(* The text is listed from memoffset, whatever its address.                   *)
disasm ==
    /\ phase = "disasm" /\ section = Len(LoadOrder)
    /\ LET words == IF Named(".text") = {} THEN 0 ELSE divRoundUp(Header(".text").size, 4)
       IN  lines' = [lines EXCEPT !.disasm = [k \in 1 .. words |-> dis1(memoffset + 4 * (k - 1))]]
    /\ Enter("out")
    /\ UNCHANGED <<coff, noff, header, space, flat, mem, failed>>

-----------------------------------------------------------------------------
(* out: all sections that are in the file, by whole words.  What is not read  *)
(* of its static arrays is zero.                                              *)

TooBig(s) == s.size > 4 * MAXDATA /\ s.scnptr # 0

OutHeaders ==
    /\ phase = "out" /\ section = 0
    /\ IF coff.magic /\ Len(Sections) <= MAXSCNS /\ \A k \in DOMAIN Sections : ~TooBig(Sections[k])
       THEN /\ IF Sections = <<>> THEN Enter("done") ELSE section' = 1 /\ UNCHANGED phase
            /\ UNCHANGED failed
       ELSE Enter("done") /\ failed' = failed \cup {"out"}
    /\ UNCHANGED <<coff, noff, header, space, flat, mem, lines>>

Contents(s) ==
    [j \in 1 .. (IF s.scnptr = 0 THEN 0 ELSE s.size \div 4) |->
        [b \in 0 .. 3 |-> LET p == s.scnptr + 4 * (j - 1) + b IN IF p < coff.length THEN p ELSE 0]]

print_section ==
    /\ phase = "out" /\ section \in DOMAIN Sections
    /\ lines' = [lines EXCEPT !.out = @ \o
                    [j \in DOMAIN Contents(This) |-> <<This.vaddr + 4 * (j - 1), Contents(This)[j]>>]]
    /\ IF section = Len(Sections) THEN Enter("done") ELSE section' = section + 1 /\ UNCHANGED phase
    /\ UNCHANGED <<coff, noff, header, space, flat, mem, failed>>

Next ==
    \/ ReadHeaders \/ EmptySection \/ Text \/ Data \/ Bss \/ Unknown \/ WriteHeader
    \/ AddrSpace
    \/ FlatHeaders \/ FlatSection \/ FlatStack
    \/ LoadSection \/ Loaded \/ load_section \/ disasm
    \/ OutHeaders \/ print_section
    \/ phase = "done" /\ UNCHANGED coffVars

Spec == Init /\ [][Next]_coffVars

-----------------------------------------------------------------------------
Uninitialized == {".bss", ".sbss"}
Occupies(s) == s.paddr .. s.paddr + s.size - 1
Spans(s) == s.vaddr .. s.vaddr + s.size - 1

(* An object file as linkers make it: what is initialized is in the file, one *)
(* section of a name, and none over another.                                  *)
WellFormed ==
    \A k \in DOMAIN Sections :
        /\ IF Sections[k].name \in Uninitialized THEN Sections[k].scnptr = 0
           ELSE InFile(Sections[k]) /\ (Sections[k].size # 0 => Sections[k].scnptr # 0)
        /\ \A j \in DOMAIN Sections \ {k} :
               /\ Sections[j].name # Sections[k].name
               /\ Occupies(Sections[j]) \cap Occupies(Sections[k]) = {}
               /\ Spans(Sections[j]) \cap Spans(Sections[k]) = {}

(* Nachos links from address 0, with no gaps, and puts what is uninitialized  *)
(* last.                                                                      *)
Contiguous ==
    \A k \in DOMAIN Sections :
        Sections[k].paddr = IF k = 1 THEN 0 ELSE Sections[k - 1].paddr + Sections[k - 1].size

UninitializedLast ==
    \A j, k \in DOMAIN Sections :
        j < k /\ Sections[j].name \in Uninitialized => Sections[k].name \in Uninitialized

(* The byte of a section at a physical, or at a virtual, address.             *)
ByteAt(s, a) == IF s.name \in Uninitialized THEN 0 ELSE s.scnptr + (a - s.paddr)
VirtualByte(s, v) == IF s.name \in Uninitialized THEN 0 ELSE s.scnptr + (v - s.vaddr)

(* What the program finds at an address, through its page table.              *)
UserByte(a) == space.mainMemory[space.pageTable[a \div PageSize] * PageSize + (a % PageSize)]

(* The bytes of the whole words of a section, with their addresses.           *)
Initialized == {k \in DOMAIN Sections : Sections[k].name \notin Uninitialized}
Words(k) ==
    {<<v, VirtualByte(Sections[k], v)>> :
        v \in {x \in Spans(Sections[k]) : x - Sections[k].vaddr < Sections[k].size - (Sections[k].size % 4)}}

(* The names that load_program knows.                                         *)
Names == {LoadOrder[i] : i \in DOMAIN LoadOrder}

(* The bytes in a listing, with their addresses.                              *)
Seen(list) == {<<list[k][1] + b, list[k][2][b]>> : k \in DOMAIN list, b \in 0 .. 3}

(* Whatever fails on the way, each tool that reports success has put every    *)
(* byte of every section where the object file says, and zeros where it says  *)
(* uninitialized: AddrSpace and coff2flat by physical address from 0,         *)
(* load_program by virtual address from memoffset, as far as each can         *)
(* address.  A program linked without gaps can address all of it, and the     *)
(* stack AddrSpace hands out is clear of it; a NOFF file is left behind only  *)
(* when it is complete; and the listings show the bytes at their virtual      *)
(* addresses: disasm all of a text linked at memoffset, out all whole words   *)
(* of the file and nothing else.                                              *)
ImageIsLoaded ==
    phase = "done" =>
        /\ noff.exists <=> "coff2noff" \notin failed
        /\ noff.exists => noff.header # <<>>
        /\ WellFormed => \A k \in DOMAIN Sections : \A a \in Occupies(Sections[k]) :
              LET byte == ByteAt(Sections[k], a)
              IN  /\ {"coff2noff", "AddrSpace"} \cap failed = {} /\ a < space.numPages * PageSize => UserByte(a) = byte
                  /\ "coff2flat" \notin failed /\ Contiguous /\ UninitializedLast => flat[a] = byte
        /\ WellFormed => \A k \in DOMAIN Sections : \A v \in Spans(Sections[k]) :
              LET s    == Sections[k]
                  byte == VirtualByte(s, v)
              IN  /\ "load_program" \notin failed /\ s.name \in Names /\ v \in memoffset .. memoffset + MEMSIZE - 1 =>
                        mem.load_program[v - memoffset] = byte
                  /\ "disasm" \notin failed /\ s.name = ".text" /\ s.vaddr = memoffset =>
                        <<v, byte>> \in Seen(lines.disasm)
        /\ WellFormed /\ "out" \notin failed => Seen(lines.out) = UNION {Words(k) : k \in Initialized}
        /\ WellFormed /\ Contiguous /\ {"coff2noff", "AddrSpace"} \cap failed = {} =>
              space.stack + 16 = space.numPages * PageSize /\ space.stack + 16 >= Top + UserStackSize
=============================================================================
