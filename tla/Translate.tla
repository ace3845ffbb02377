----------------------------- MODULE Translate -----------------------------
(* Memory as a user program sees it (translate.cc): operators on a machine m, *)
(* a record of registers, mainMemory and the translation table, which is      *)
(* indexed by page, or searched as a TLB.                                     *)
EXTENDS Word, Sequences

CONSTANTS PageSize, NumPhysPages

MemorySize == PageSize * NumPhysPages

(* The first TLB entry for the page; 0 when there is none.                    *)
InTLB(table, vpn) ==
    LET hits == {k \in DOMAIN table : table[k].valid /\ table[k].virtualPage = vpn}
    IN  IF hits = {} THEN 0 ELSE CHOOSE k \in hits : \A j \in hits : k <= j

(* Where the entry is, or 0 and why there is none.                            *)
Lookup(m, vpn) ==
    IF m.tlb
    THEN [entry |-> InTLB(m.table, vpn), exception |-> "PageFaultException"]
    ELSE IF vpn >= Len(m.table)
         THEN [entry |-> 0, exception |-> "AddressErrorException"]
         ELSE [entry |-> IF m.table[vpn + 1].valid THEN vpn + 1 ELSE 0, exception |-> "PageFaultException"]

Failure(m, exception) == [m |-> m, exception |-> exception, physAddr |-> 0]

(* Mutant: a read-only page is marked before the write to it is refused.      *)
ThroughMarksFirst(m, k, virtAddr, writing) ==
    IF m.table[k].readOnly /\ writing THEN Failure([m EXCEPT !.table[k].dirty = TRUE], "ReadOnlyException")
    ELSE IF m.table[k].physicalPage >= NumPhysPages THEN Failure(m, "BusErrorException")
    ELSE [m |-> [m EXCEPT !.table[k].use = TRUE, !.table[k].dirty = @ \/ writing],
          exception |-> "NoException",
          physAddr |-> m.table[k].physicalPage * PageSize + (virtAddr % PageSize)]

(* Through entry k of the table.                                              *)
Through(m, k, virtAddr, writing) ==
    IF m.table[k].readOnly /\ writing THEN Failure(m, "ReadOnlyException")
    ELSE IF m.table[k].physicalPage >= NumPhysPages THEN Failure(m, "BusErrorException")
    ELSE [m |-> [m EXCEPT !.table[k].use = TRUE, !.table[k].dirty = @ \/ writing],
          exception |-> "NoException",
          physAddr |-> m.table[k].physicalPage * PageSize + (virtAddr % PageSize)]

Found(m, found, virtAddr, writing) ==
    IF found.entry = 0 THEN Failure(m, found.exception) ELSE Through(m, found.entry, virtAddr, writing)

Translate(m, virtAddr, size, writing) ==
    IF (size = 4 /\ virtAddr % 4 # 0) \/ (size = 2 /\ virtAddr % 2 # 0)
    THEN Failure(m, "AddressErrorException")
    ELSE Found(m, Lookup(m, virtAddr \div PageSize), virtAddr, writing)

(* The host stores a word with its lowest byte first.                         *)
RECURSIVE Bytes(_, _, _)
Bytes(mem, addr, size) ==
    IF size = 0 THEN 0 ELSE mem[addr] + 2^ByteBits * Bytes(mem, addr + 1, size - 1)

(* mainMemory is of char: a single byte is read with its sign.                *)
Widened(raw, size) == IF size = 1 THEN Extended(raw, ByteBits) ELSE raw

(* What is at t, a translated address.                                        *)
ReadAt(t, mem, size) ==
    [m |-> t.m, exception |-> t.exception,
     value |-> IF t.exception # "NoException" THEN 0 ELSE Widened(Bytes(mem, t.physAddr, size), size)]

ReadMem(m, addr, size) == ReadAt(Translate(m, addr, size, FALSE), m.mainMemory, size)

WriteAt(t, size, value) ==
    IF t.exception # "NoException" THEN [m |-> t.m, exception |-> t.exception]
    ELSE [m |-> [t.m EXCEPT !.mainMemory = [a \in DOMAIN @ |->
                    IF a \in t.physAddr .. t.physAddr + size - 1
                    THEN Low(RightUnsigned(value, ByteBits * (a - t.physAddr)), ByteBits)
                    ELSE @[a]]],
          exception |-> "NoException"]

WriteMem(m, addr, size, value) == WriteAt(Translate(m, addr, size, TRUE), size, value)
=============================================================================
