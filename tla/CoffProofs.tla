----------------------------- MODULE CoffProofs -----------------------------
(* Proofs that the loaders put every byte where the object file says, for any *)
(* object files and any sizes of memories, pages and stacks.                  *)
EXTENDS Coff, TLAPS

-----------------------------------------------------------------------------
(* Numbers and functions.                                                     *)

(* A set of natural numbers has a least member, and an interval from m has as *)
(* many members as its length. Both are shown at the end of the module, from  *)
(* the library: until there they are hypotheses.                              *)
Numbers ==
    /\ \A T \in SUBSET Nat : T # {} => \E m \in T : \A n \in T : m <= n
    /\ \A m, n \in Nat : Cardinality(m .. m + n - 1) = n

(* A function over another.                                                   *)
LEMMA OverReads ==
    ASSUME NEW f, NEW g
    PROVE  /\ DOMAIN Over(f, g) = DOMAIN f \cup DOMAIN g
           /\ \A x \in DOMAIN f : Over(f, g)[x] = f[x]
           /\ \A x \in DOMAIN g : x \notin DOMAIN f => Over(f, g)[x] = g[x]
BY Zenon DEF Over

(* What Over reads, once more, for one position.                              *)
LEMMA OverIn == ASSUME NEW f, NEW g, NEW x \in DOMAIN f PROVE x \in DOMAIN Over(f, g) /\ Over(f, g)[x] = f[x]
BY DEF Over

(* And where the first does not reach.                                        *)
LEMMA OverOut ==
    ASSUME NEW f, NEW g, NEW x \in DOMAIN g, x \notin DOMAIN f
    PROVE  x \in DOMAIN Over(f, g) /\ Over(f, g)[x] = g[x]
BY DEF Over

Record == [name : STRING, paddr : Nat, vaddr : Nat, size : Nat, scnptr : Nat]

(* What Copy writes, and what it leaves.                                      *)
Copied(s, at, file, c) ==
    /\ DOMAIN c = (at .. at + s.size - 1) \cup DOMAIN file
    /\ \A i \in 0 .. s.size - 1 : c[at + i] = s.scnptr + i
    /\ \A p \in DOMAIN file : p \notin at .. at + s.size - 1 => c[p] = file[p]

(* Copy writes the section, and nothing else.                                 *)
LEMMA CopyWrites ==
    ASSUME NEW s \in Record, NEW at \in Nat, NEW file
    PROVE  Copied(s, at, file, Copy(s, at, file))
<1> USE DEF Record
<1> DEFINE f == [p \in at .. at + s.size - 1 |-> s.scnptr + (p - at)]
<1>1. DOMAIN f = at .. at + s.size - 1 /\ Copy(s, at, file) = Over(f, file)
  BY DEF Copy
<1>2. ASSUME NEW i \in 0 .. s.size - 1 PROVE at + i \in DOMAIN f /\ f[at + i] = s.scnptr + i
  <2>1. at + i \in at .. at + s.size - 1 /\ (at + i) - at = i
    OBVIOUS
  <2>2. QED BY <2>1
<1> HIDE DEF f
<1>3. /\ DOMAIN Over(f, file) = DOMAIN f \cup DOMAIN file
      /\ \A x \in DOMAIN f : Over(f, file)[x] = f[x]
      /\ \A x \in DOMAIN file : x \notin DOMAIN f => Over(f, file)[x] = file[x]
  BY OverReads, Zenon
<1>4. QED BY Zenon, <1>1, <1>2, <1>3 DEF Copied

-----------------------------------------------------------------------------
(* The object file.                                                           *)

(* The object file is one of those given, and its sections are in order.      *)
Sane == Numbers /\ SizesAreNatural /\ coff \in Coffs /\ section \in Nat

(* What the section headers hold.                                             *)
LEMMA SectionTypes ==
    ASSUME Sane
    PROVE  /\ Sections \in Seq(Record) /\ coff.length \in Nat /\ section \in Nat
           /\ Len(Sections) \in Nat /\ DOMAIN Sections = 1 .. Len(Sections)
           /\ \A k \in DOMAIN Sections : /\ Sections[k].paddr \in Nat /\ Sections[k].vaddr \in Nat
                                         /\ Sections[k].size \in Nat /\ Sections[k].scnptr \in Nat /\ Sections[k] \in Record
<1>1. Sections \in Seq(Record) /\ coff.length \in Nat /\ section \in Nat
  BY DEF Sane, SizesAreNatural, Sections, Record
<1>2. Len(Sections) \in Nat /\ DOMAIN Sections = 1 .. Len(Sections) /\ \A k \in DOMAIN Sections : Sections[k] \in Record
  BY <1>1
<1>3. QED BY Zenon, <1>1, <1>2 DEF Record

(* Where section n starts when there are no gaps: the end of the one before.  *)
End(n) == IF n <= 1 THEN 0 ELSE Sections[n - 1].paddr + Sections[n - 1].size

(* Without gaps no section reaches beyond the next one's start.               *)
LEMMA EndsGrow ==
    ASSUME Sane, Contiguous, NEW n \in 1 .. Len(Sections) + 1, NEW j \in 1 .. n - 1
    PROVE  Sections[j].paddr + Sections[j].size <= End(n)
<1> DEFINE e(k) == Sections[k].paddr + Sections[k].size
           T == {m \in Nat : m \in j + 1 .. Len(Sections) + 1 /\ ~(e(j) <= End(m))}
<1>1. /\ Len(Sections) \in Nat /\ DOMAIN Sections = 1 .. Len(Sections) /\ j \in DOMAIN Sections
      /\ \A k \in DOMAIN Sections : e(k) \in Nat /\ Sections[k].paddr \in Nat /\ Sections[k].size \in Nat
  <2>1. /\ Len(Sections) \in Nat /\ DOMAIN Sections = 1 .. Len(Sections)
        /\ \A k \in DOMAIN Sections : Sections[k].paddr \in Nat /\ Sections[k].size \in Nat
    BY Zenon, SectionTypes
  <2>2. j \in DOMAIN Sections
    BY <2>1
  <2>3. QED BY ONLY <2>1, <2>2
<1>2. CASE T # {}
  <2>1. PICK m \in T : \A i \in T : m <= i
    BY Zenon, <1>2 DEF Sane, Numbers
  <2>2. m \in j + 1 .. Len(Sections) + 1 /\ ~(e(j) <= End(m)) /\ m \in Nat
    BY <2>1
  <2>3. m - 1 \notin T
    BY <2>1, <2>2
  <2>4. m - 1 \in 1 .. Len(Sections) /\ m > 1 /\ j \in Nat
    BY ONLY <1>1, <2>2
  <2> HIDE DEF T, e
  <2>5. End(m) = e(m - 1)
    BY <2>2, <2>4 DEF End, e
  <2>6. e(j) \in Nat /\ m - 1 # j
    BY <1>1, <2>2, <2>5
  <2>7. m - 1 \in j + 1 .. Len(Sections) + 1 /\ m - 1 \in Nat /\ m - 1 > 1
    BY <1>1, <2>2, <2>4, <2>6
  <2>8. e(j) <= End(m - 1)
    BY <2>3, <2>7 DEF T
  <2>9. Sections[m - 1].paddr = End(m - 1)
    <3>1. PICK h \in DOMAIN Sections : h = m - 1
      BY <1>1, <2>4
    <3>2. Sections[h].paddr = IF h = 1 THEN 0 ELSE Sections[h - 1].paddr + Sections[h - 1].size
      BY DEF Contiguous
    <3>3. h > 1 /\ h \in Nat
      BY <2>7, <3>1
    <3>4. Sections[h].paddr = End(h)
      BY <3>2, <3>3 DEF End
    <3>5. QED BY <3>1, <3>4
  <2>10. End(m - 1) \in Nat /\ e(m - 1) >= End(m - 1) /\ e(m - 1) \in Nat
    BY ONLY <1>1, <2>4, <2>9 DEF e
  <2>11. QED BY <2>2, <2>5, <2>6, <2>8, <2>10
<1>3. CASE T = {}
  BY ONLY n \in 1 .. Len(Sections) + 1, j \in 1 .. n - 1, <1>1, <1>3
<1>4. QED BY <1>2, <1>3

-----------------------------------------------------------------------------
(* What each step leaves alone: a tool changes what it is about, and hands    *)
(* over to the next one.                                                      *)

HandsOver(p, q) ==
    \/ p = q
    \/ p = "coff2noff" /\ q \in {"AddrSpace", "coff2flat"}
    \/ p = "AddrSpace" /\ q = "coff2flat"
    \/ p = "coff2flat" /\ q = "load_program"
    \/ p = "load_program" /\ q = "disasm"
    \/ p = "disasm" /\ q = "out"
    \/ p = "out" /\ q = "done"

Kept ==
    /\ coff' = coff /\ failed \subseteq failed'
    /\ HandsOver(phase, phase')
    /\ phase' # phase => section' = 0
    /\ section' = 0 \/ section' = 1 \/ section' = section \/ section' = section + 1
    /\ phase # "coff2noff" /\ "coff2noff" \notin failed => "coff2noff" \notin failed'
    /\ phase # "coff2noff" => noff' = noff
    /\ phase = "AddrSpace" /\ phase' = phase => failed' = failed
    /\ phase # "AddrSpace" => space' = space
    /\ phase # "coff2flat" => flat' = flat
    /\ phase # "load_program" /\ phase # "disasm" => mem' = mem
    /\ phase # "disasm" /\ phase # "out" => lines' = lines

(* The steps of coff2noff.                                                    *)
LEMMA NoffKeeps ==
    ASSUME ReadHeaders \/ EmptySection \/ Text \/ Data \/ Bss \/ Unknown \/ WriteHeader
    PROVE  Kept
<1>1. CASE GiveUpNoff /\ phase = "coff2noff"
  BY <1>1 DEF GiveUpNoff, Enter, Kept, HandsOver
<1>2. CASE \E kind \in {"code", "initData"} : CopySegment(kind) /\ phase = "coff2noff" /\ ~GiveUpNoff
  BY <1>2 DEF CopySegment, Kept, HandsOver
<1>3. CASE ReadHeaders
  BY <1>1, <1>3 DEF ReadHeaders, Kept, HandsOver
<1>4. CASE EmptySection
  BY <1>4 DEF EmptySection, Kept, HandsOver
<1>5. CASE Text
  BY <1>1, <1>2, <1>5 DEF Text, AtSection
<1>6. CASE Data
  BY <1>1, <1>2, <1>6 DEF Data, AtSection
<1>7. CASE Bss
  BY <1>1, <1>7 DEF Bss, AtSection, Kept, HandsOver
<1>8. CASE Unknown
  BY <1>1, <1>8 DEF Unknown
<1>9. CASE WriteHeader
  BY <1>1, <1>9 DEF WriteHeader, Enter, Kept, HandsOver
<1>10. QED BY <1>3, <1>4, <1>5, <1>6, <1>7, <1>8, <1>9

(* Every step.                                                                *)
LEMMA StepKeeps == ASSUME [Next]_coffVars PROVE Kept
<1>1. CASE UNCHANGED coffVars
  BY <1>1 DEF coffVars, Kept, HandsOver
<1>2. CASE AddrSpace
  BY <1>2, Zenon DEF AddrSpace, Enter, Kept, HandsOver
<1>3. CASE GiveUpFlat /\ phase = "coff2flat"
  BY <1>3 DEF GiveUpFlat, Enter, Kept, HandsOver
<1>4. CASE FlatHeaders \/ FlatSection \/ FlatStack
  BY <1>3, <1>4 DEF FlatHeaders, FlatSection, FlatStack, Enter, Kept, HandsOver
<1>5. CASE LoadSection
  BY <1>5 DEF LoadSection, Load, Enter, Kept, HandsOver
<1>6. CASE load_section
  BY <1>6 DEF load_section, Load, Enter, Kept, HandsOver
<1>7. CASE Loaded \/ disasm
  BY <1>7 DEF Loaded, disasm, Enter, Kept, HandsOver
<1>8. CASE OutHeaders \/ print_section
  BY <1>8 DEF OutHeaders, print_section, Enter, Kept, HandsOver
<1>9. QED BY <1>1, <1>2, <1>4, <1>5, <1>6, <1>7, <1>8, NoffKeeps DEF Next

(* The file stays what it is.                                                 *)
LEMMA SaneStep == ASSUME Sane, Kept PROVE Sane'
<1>1. Numbers'
  BY Zenon DEF Sane, Numbers
<1>2. QED BY <1>1 DEF Sane, Kept, SizesAreNatural

-----------------------------------------------------------------------------
(* coff2noff.                                                                 *)

Seg == [virtualAddr : Nat, inFileAddr : Nat, size : Nat]

(* Of the sections before n the one with one of these names that is not empty *)
(* is the segment's, and its bytes are in the file.                           *)
Holds(seg, bytes, names, n) ==
    \/ seg.size = 0 /\ \A k \in 1 .. n - 1 : Sections[k].name \in names => Sections[k].size = 0
    \/ \E k \in 1 .. n - 1 :
          /\ Sections[k].name \in names /\ Sections[k].size # 0
          /\ seg.virtualAddr = Sections[k].paddr /\ seg.size = Sections[k].size
          /\ \A i \in 0 .. Sections[k].size - 1 :
                /\ seg.inFileAddr + i \in DOMAIN bytes
                /\ bytes[seg.inFileAddr + i] = Sections[k].scnptr + i
          /\ \A j \in 1 .. n - 1 : Sections[j].name \in names /\ Sections[j].size # 0 => j = k

Known == {".text", ".data", ".rdata", ".bss", ".sbss"}

(* The bytes of the file lie behind its header, without gaps.                 *)
IsNoff(b) == \E m \in Nat : DOMAIN b = HeaderSize .. HeaderSize + m - 1
Extends(b, c) == \A p \in DOMAIN b : p \in DOMAIN c /\ c[p] = b[p]

(* The sections before n are in the header and in the file.                   *)
Placed(h, bytes, n) ==
    /\ h \in [code : Seg, initData : Seg, uninitData : Seg]
    /\ IsNoff(bytes)
    /\ \A k \in 1 .. n - 1 : Sections[k].size # 0 => Sections[k].name \in Known
    /\ WellFormed => Holds(h.code, bytes, {".text"}, n) /\ Holds(h.initData, bytes, {".data", ".rdata"}, n)
    /\ WellFormed /\ Contiguous => h.code.size + h.initData.size + h.uninitData.size = End(n)

(* Where the loop over the sections is.                                       *)
At == IF section = 0 THEN 1 ELSE section

(* A section that is not the segment's leaves it as it is.                    *)
LEMMA HoldsNext ==
    ASSUME Sane, NEW seg, NEW b1, NEW b2, NEW names, NEW n \in DOMAIN Sections,
           Holds(seg, b1, names, n), Sections[n].name \notin names \/ Sections[n].size = 0,
           \A p \in DOMAIN b1 : p \in DOMAIN b2 /\ b2[p] = b1[p]
    PROVE  Holds(seg, b2, names, n + 1)
<1>1. n \in Nat /\ n > 0 /\ \A k \in 1 .. (n + 1) - 1 : k \in 1 .. n - 1 \/ k = n
  BY SectionTypes
<1>2. \A k \in 1 .. n - 1 : k \in 1 .. (n + 1) - 1
  BY <1>1
<1>3. CASE seg.size = 0 /\ \A k \in 1 .. n - 1 : Sections[k].name \in names => Sections[k].size = 0
  BY <1>1, <1>3 DEF Holds
<1>4. ASSUME NEW k \in 1 .. n - 1,
             /\ Sections[k].name \in names /\ Sections[k].size # 0
             /\ seg.virtualAddr = Sections[k].paddr /\ seg.size = Sections[k].size
             /\ \A i \in 0 .. Sections[k].size - 1 :
                   /\ seg.inFileAddr + i \in DOMAIN b1
                   /\ b1[seg.inFileAddr + i] = Sections[k].scnptr + i
             /\ \A j \in 1 .. n - 1 : Sections[j].name \in names /\ Sections[j].size # 0 => j = k
      PROVE  Holds(seg, b2, names, n + 1)
  <2>1. \A i \in 0 .. Sections[k].size - 1 :
           /\ seg.inFileAddr + i \in DOMAIN b2
           /\ b2[seg.inFileAddr + i] = Sections[k].scnptr + i
    BY <1>4
  <2>2. \A j \in 1 .. (n + 1) - 1 : Sections[j].name \in names /\ Sections[j].size # 0 => j = k
    BY <1>1, <1>4
  <2>3. k \in 1 .. (n + 1) - 1
    BY <1>2
  <2>4. QED BY <1>4, <2>1, <2>2, <2>3 DEF Holds
<1>5. QED BY Zenon, <1>3, <1>4 DEF Holds

(* A section that is copied becomes the segment's.                            *)
LEMMA HoldsNew ==
    ASSUME Sane, NEW b, NEW at \in Nat, NEW names, NEW n \in DOMAIN Sections,
           Sections[n].name \in names, Sections[n].size # 0,
           \A k \in 1 .. n - 1 : Sections[k].name \in names => Sections[k].size = 0
    PROVE  Holds([virtualAddr |-> Sections[n].paddr, inFileAddr |-> at, size |-> Sections[n].size],
                 Copy(Sections[n], at, b), names, n + 1)
<1> DEFINE seg == [virtualAddr |-> Sections[n].paddr, inFileAddr |-> at, size |-> Sections[n].size]
           c == Copy(Sections[n], at, b)
<1>1. /\ n \in Nat /\ n > 0 /\ n \in 1 .. (n + 1) - 1 /\ \A k \in 1 .. (n + 1) - 1 : k \in 1 .. n - 1 \/ k = n
      /\ Sections[n].size \in Nat /\ Sections[n] \in Record
  BY SectionTypes
<1>2. /\ DOMAIN c = (at .. at + Sections[n].size - 1) \cup DOMAIN b
      /\ \A i \in 0 .. Sections[n].size - 1 : c[at + i] = Sections[n].scnptr + i
  <2>1. Copied(Sections[n], at, b, c)
    BY <1>1, CopyWrites, Zenon
  <2>2. QED BY <2>1 DEF Copied
<1>3. \A i \in 0 .. Sections[n].size - 1 : at + i \in at .. at + Sections[n].size - 1
  BY <1>1
<1>4. seg.virtualAddr = Sections[n].paddr /\ seg.inFileAddr = at /\ seg.size = Sections[n].size
  OBVIOUS
<1> HIDE DEF seg, c
<1>5. \A i \in 0 .. Sections[n].size - 1 :
         seg.inFileAddr + i \in DOMAIN c /\ c[seg.inFileAddr + i] = Sections[n].scnptr + i
  BY <1>2, <1>3, <1>4
<1>6. \A j \in 1 .. (n + 1) - 1 : Sections[j].name \in names /\ Sections[j].size # 0 => j = n
  BY <1>1
<1>7. Holds(seg, c, names, n + 1)
  BY <1>1, <1>4, <1>5, <1>6 DEF Holds
<1>8. QED BY <1>7 DEF seg, c

(* Without gaps the next section starts where this one ends.                  *)
LEMMA EndNext ==
    ASSUME Sane, Contiguous, NEW n \in DOMAIN Sections
    PROVE  End(n) \in Nat /\ Sections[n].paddr = End(n) /\ End(n + 1) = End(n) + Sections[n].size
<1>1. n \in Nat /\ n > 0 /\ Sections[n].paddr \in Nat
  BY SectionTypes
<1>2. Sections[n].paddr = End(n)
  BY <1>1 DEF Contiguous, End
<1>3. End(n + 1) = Sections[n].paddr + Sections[n].size
  BY <1>1 DEF End
<1>4. QED BY <1>1, <1>2, <1>3

(* A segment goes behind what is in the file, which stays.                    *)
LEMMA CopyBehind ==
    ASSUME Sane, NEW b, NEW n \in DOMAIN Sections, IsNoff(b)
    PROVE  /\ HeaderSize + Cardinality(DOMAIN b) \in Nat
           /\ Extends(b, Copy(Sections[n], HeaderSize + Cardinality(DOMAIN b), b))
           /\ IsNoff(Copy(Sections[n], HeaderSize + Cardinality(DOMAIN b), b))
<1>0. PICK m \in Nat : DOMAIN b = HeaderSize .. HeaderSize + m - 1
  BY DEF IsNoff
<1> DEFINE at == HeaderSize + Cardinality(DOMAIN b)
           c == Copy(Sections[n], at, b)
<1>1. HeaderSize \in Nat /\ Sections[n].size \in Nat /\ Sections[n] \in Record
  BY SectionTypes DEF Sane, SizesAreNatural
<1>2. at = HeaderSize + m
  BY Zenon, <1>0, <1>1 DEF Sane, Numbers
<1>3. at \in Nat
  BY <1>1, <1>2
<1> HIDE DEF at
<1>4. /\ DOMAIN c = (at .. at + Sections[n].size - 1) \cup DOMAIN b
      /\ \A p \in DOMAIN b : p \notin at .. at + Sections[n].size - 1 => c[p] = b[p]
  <2>1. Copied(Sections[n], at, b, c)
    BY <1>1, <1>3, CopyWrites, Zenon
  <2>2. QED BY <2>1 DEF Copied
<1> HIDE DEF c
<1>5. \A p \in DOMAIN b : p \notin at .. at + Sections[n].size - 1
  BY <1>0, <1>1, <1>2
<1>6. /\ DOMAIN c = HeaderSize .. HeaderSize + (m + Sections[n].size) - 1
      /\ m + Sections[n].size \in Nat
  <2>1. PICK l \in Nat : l = Sections[n].size
    BY <1>1
  <2>2. (at .. at + l - 1) \cup (HeaderSize .. HeaderSize + m - 1) = HeaderSize .. HeaderSize + (m + l) - 1
    BY <1>1, <1>2
  <2>3. QED BY <1>0, <1>4, <2>1, <2>2
<1>7. QED BY <1>3, <1>4, <1>5, <1>6 DEF at, c, IsNoff, Extends

(* An empty section changes nothing.                                          *)
LEMMA PlacedEmpty ==
    ASSUME Sane, NEW h, NEW b, NEW n \in DOMAIN Sections, Placed(h, b, n), Sections[n].size = 0
    PROVE  Placed(h, b, n + 1)
<1>1. n \in Nat /\ n > 0 /\ \A k \in 1 .. (n + 1) - 1 : k \in 1 .. n - 1 \/ k = n
  BY SectionTypes
<1>2. \A k \in 1 .. (n + 1) - 1 : Sections[k].size # 0 => Sections[k].name \in Known
  BY <1>1 DEF Placed
<1>3. WellFormed => Holds(h.code, b, {".text"}, n + 1) /\ Holds(h.initData, b, {".data", ".rdata"}, n + 1)
  BY HoldsNext DEF Placed
<1>4. Contiguous => End(n + 1) = End(n)
  BY EndNext
<1>5. QED BY <1>2, <1>3, <1>4 DEF Placed

(* A section of uninitialized data is counted.                                *)
LEMMA PlacedBss ==
    ASSUME Sane, NEW h, NEW b, NEW n \in DOMAIN Sections, Placed(h, b, n), Sections[n].name \in {".bss", ".sbss"},
           NEW u \in Seg, u.size = h.uninitData.size + Sections[n].size
    PROVE  Placed([h EXCEPT !.uninitData = u], b, n + 1)
<1> DEFINE g == [h EXCEPT !.uninitData = u]
<1>1. n \in Nat /\ n > 0 /\ \A k \in 1 .. (n + 1) - 1 : k \in 1 .. n - 1 \/ k = n
  BY SectionTypes
<1>2. \A k \in 1 .. (n + 1) - 1 : Sections[k].size # 0 => Sections[k].name \in Known
  BY <1>1 DEF Placed, Known
<1>3. /\ g \in [code : Seg, initData : Seg, uninitData : Seg]
      /\ g.code = h.code /\ g.initData = h.initData /\ g.uninitData = u
      /\ h.code.size \in Nat /\ h.initData.size \in Nat /\ h.uninitData.size \in Nat
  BY Zenon DEF Placed, Seg
<1> HIDE DEF g
<1>4. WellFormed => Holds(g.code, b, {".text"}, n + 1) /\ Holds(g.initData, b, {".data", ".rdata"}, n + 1)
  <2>1. Sections[n].name \notin {".text"} /\ Sections[n].name \notin {".data", ".rdata"}
    OBVIOUS
  <2>2. QED BY <1>3, <2>1, HoldsNext DEF Placed, Extends
<1>5. WellFormed /\ Contiguous => g.code.size + g.initData.size + g.uninitData.size = End(n + 1)
  <2>1. SUFFICES ASSUME WellFormed, Contiguous PROVE g.code.size + g.initData.size + g.uninitData.size = End(n + 1)
    OBVIOUS
  <2>2. End(n) \in Nat /\ End(n + 1) = End(n) + Sections[n].size /\ Sections[n].size \in Nat
    BY <2>1, EndNext, SectionTypes
  <2>3. h.code.size + h.initData.size + h.uninitData.size = End(n)
    BY Zenon, <2>1 DEF Placed
  <2>4. QED BY <1>3, <2>2, <2>3
<1>6. Placed(g, b, n + 1)
  BY <1>2, <1>3, <1>4, <1>5 DEF Placed
<1>7. QED BY <1>6 DEF g

(* The segment of a section that is copied to position at.                    *)
SegOf(s, at) == [virtualAddr |-> s.paddr, inFileAddr |-> at, size |-> s.size]

(* The text is copied: there is one section of this name.                     *)
LEMMA PlacedText ==
    ASSUME Sane, NEW h, NEW b, NEW n \in DOMAIN Sections, Placed(h, b, n),
           Sections[n].name = ".text", Sections[n].size # 0
    PROVE  LET at == HeaderSize + Cardinality(DOMAIN b)
           IN  Placed([h EXCEPT !.code = SegOf(Sections[n], at)], Copy(Sections[n], at, b), n + 1)
<1> DEFINE at == HeaderSize + Cardinality(DOMAIN b)
           c == Copy(Sections[n], at, b)
           seg == SegOf(Sections[n], at)
           g == [h EXCEPT !.code = seg]
<1>1. /\ n \in Nat /\ n > 0 /\ \A k \in 1 .. (n + 1) - 1 : k \in 1 .. n - 1 \/ k = n
      /\ \A k \in 1 .. n - 1 : k \in DOMAIN Sections /\ k # n
      /\ Sections[n].size \in Nat /\ Sections[n].paddr \in Nat
  BY SectionTypes
<1>2. IsNoff(b)
  BY DEF Placed
<1>3. at \in Nat /\ Extends(b, c) /\ IsNoff(c)
  BY <1>2, CopyBehind
<1>4. \A k \in 1 .. (n + 1) - 1 : Sections[k].size # 0 => Sections[k].name \in Known
  BY Zenon, <1>1 DEF Placed, Known
<1>5. seg \in Seg /\ seg.size = Sections[n].size
  BY Zenon, <1>1, <1>3 DEF Seg, SegOf
<1>6. WellFormed => h.code.size = 0 /\ \A k \in 1 .. n - 1 : Sections[k].name \in {".text"} => Sections[k].size = 0
  BY <1>1 DEF Placed, Holds, WellFormed
<1>7. WellFormed => Holds(seg, c, {".text"}, n + 1)
  BY Zenon, <1>3, <1>6, HoldsNew DEF SegOf
<1>8. WellFormed => Holds(h.initData, c, {".data", ".rdata"}, n + 1)
  <2>1. Sections[n].name \notin {".data", ".rdata"}
    OBVIOUS
  <2> HIDE DEF at, c
  <2>2. QED BY Zenon, <1>3, <2>1, HoldsNext DEF Placed, Extends
<1> HIDE DEF at, c, seg
<1>9. /\ g \in [code : Seg, initData : Seg, uninitData : Seg]
      /\ g.code = seg /\ g.initData = h.initData /\ g.uninitData = h.uninitData
      /\ h.code.size \in Nat /\ h.initData.size \in Nat /\ h.uninitData.size \in Nat
  BY <1>5 DEF Placed, Seg
<1> HIDE DEF g
<1>10. WellFormed /\ Contiguous => g.code.size + g.initData.size + g.uninitData.size = End(n + 1)
  <2>1. SUFFICES ASSUME WellFormed, Contiguous PROVE g.code.size + g.initData.size + g.uninitData.size = End(n + 1)
    OBVIOUS
  <2>2. End(n) \in Nat /\ End(n + 1) = End(n) + Sections[n].size
    BY <2>1, EndNext
  <2>3. h.code.size + h.initData.size + h.uninitData.size = End(n)
    BY Zenon, <2>1 DEF Placed
  <2>4. QED BY <1>1, <1>5, <1>6, <1>9, <2>1, <2>2, <2>3
<1>11. Placed(g, c, n + 1)
  BY <1>3, <1>4, <1>7, <1>8, <1>9, <1>10 DEF Placed
<1>12. QED BY <1>11 DEF at, c, seg, g

(* Initialized data is copied: there is no other so far.                      *)
LEMMA PlacedData ==
    ASSUME Sane, NEW h, NEW b, NEW n \in DOMAIN Sections, Placed(h, b, n), h.initData.size = 0,
           Sections[n].name \in {".data", ".rdata"}, Sections[n].size # 0
    PROVE  LET at == HeaderSize + Cardinality(DOMAIN b)
           IN  Placed([h EXCEPT !.initData = SegOf(Sections[n], at)], Copy(Sections[n], at, b), n + 1)
<1> DEFINE at == HeaderSize + Cardinality(DOMAIN b)
           c == Copy(Sections[n], at, b)
           seg == SegOf(Sections[n], at)
           g == [h EXCEPT !.initData = seg]
<1>1. /\ n \in Nat /\ n > 0 /\ \A k \in 1 .. (n + 1) - 1 : k \in 1 .. n - 1 \/ k = n
      /\ Sections[n].size \in Nat /\ Sections[n].paddr \in Nat
  BY SectionTypes
<1>2. IsNoff(b)
  BY DEF Placed
<1>3. at \in Nat /\ Extends(b, c) /\ IsNoff(c)
  BY <1>2, CopyBehind
<1>4. \A k \in 1 .. (n + 1) - 1 : Sections[k].size # 0 => Sections[k].name \in Known
  BY Zenon, <1>1 DEF Placed, Known
<1>5. seg \in Seg /\ seg.size = Sections[n].size
  BY Zenon, <1>1, <1>3 DEF Seg, SegOf
<1>6. WellFormed => \A k \in 1 .. n - 1 : Sections[k].name \in {".data", ".rdata"} => Sections[k].size = 0
  BY Zenon DEF Placed, Holds
<1>7. WellFormed => Holds(seg, c, {".data", ".rdata"}, n + 1)
  BY Zenon, <1>3, <1>6, HoldsNew DEF SegOf
<1>8. WellFormed => Holds(h.code, c, {".text"}, n + 1)
  <2>1. Sections[n].name \notin {".text"}
    OBVIOUS
  <2> HIDE DEF at, c
  <2>2. QED BY <1>3, <2>1, HoldsNext DEF Placed, Extends
<1> HIDE DEF at, c, seg
<1>9. /\ g \in [code : Seg, initData : Seg, uninitData : Seg]
      /\ g.initData = seg /\ g.code = h.code /\ g.uninitData = h.uninitData
      /\ h.code.size \in Nat /\ h.initData.size \in Nat /\ h.uninitData.size \in Nat
  BY <1>5 DEF Placed, Seg
<1> HIDE DEF g
<1>10. WellFormed /\ Contiguous => g.code.size + g.initData.size + g.uninitData.size = End(n + 1)
  <2>1. SUFFICES ASSUME WellFormed, Contiguous PROVE g.code.size + g.initData.size + g.uninitData.size = End(n + 1)
    OBVIOUS
  <2>2. End(n) \in Nat /\ End(n + 1) = End(n) + Sections[n].size
    BY <2>1, EndNext
  <2>3. h.code.size + h.initData.size + h.uninitData.size = End(n)
    BY Zenon, <2>1 DEF Placed
  <2>4. QED BY <1>1, <1>5, <1>9, <2>1, <2>2, <2>3
<1>11. Placed(g, c, n + 1)
  BY <1>3, <1>4, <1>7, <1>8, <1>9, <1>10 DEF Placed
<1>12. QED BY <1>11 DEF at, c, seg, g

(* What is said of the file stays true of it.                                 *)
LEMMA SameFile ==
    ASSUME coff' = coff
    PROVE  /\ Sections' = Sections /\ (WellFormed' <=> WellFormed) /\ (Contiguous' <=> Contiguous)
           /\ (UninitializedLast' <=> UninitializedLast)
<1>1. Sections' = Sections
  BY DEF Sections
<1>2. QED BY <1>1 DEF WellFormed, Contiguous, UninitializedLast, InFile

(* What has been placed stays placed as long as the file does.                *)
LEMMA PlacedStays ==
    ASSUME coff' = coff
    PROVE  /\ Placed(header', noff'.bytes, At') => Placed(header, noff.bytes, At)'
           /\ Placed(noff'.header, noff'.bytes, Len(Sections) + 1) => Placed(noff.header, noff.bytes, Len(Sections) + 1)'
<1>1. Sections' = Sections /\ (WellFormed' <=> WellFormed) /\ (Contiguous' <=> Contiguous)
  BY Zenon, SameFile
<1>2. Placed(header', noff'.bytes, At') => Placed(header, noff.bytes, At)'
  <2>1. /\ Holds(header.code, noff.bytes, {".text"}, At)' <=> Holds(header'.code, noff'.bytes, {".text"}, At')
        /\ Holds(header.initData, noff.bytes, {".data", ".rdata"}, At)' <=> Holds(header'.initData, noff'.bytes, {".data", ".rdata"}, At')
    BY ONLY Zenon, <1>1 DEF Holds
  <2>2. End(At)' = End(At')
    BY ONLY Zenon, <1>1 DEF End
  <2>3. IsNoff(noff.bytes)' <=> IsNoff(noff'.bytes)
    BY ONLY Zenon DEF IsNoff
  <2>4. QED BY ONLY Zenon, <1>1, <2>1, <2>2, <2>3 DEF Placed
<1>3. Placed(noff'.header, noff'.bytes, Len(Sections) + 1) => Placed(noff.header, noff.bytes, Len(Sections) + 1)'
  <2>1. /\ Holds(noff.header.code, noff.bytes, {".text"}, Len(Sections) + 1)' <=> Holds(noff'.header.code, noff'.bytes, {".text"}, Len(Sections) + 1)
        /\ Holds(noff.header.initData, noff.bytes, {".data", ".rdata"}, Len(Sections) + 1)' <=> Holds(noff'.header.initData, noff'.bytes, {".data", ".rdata"}, Len(Sections) + 1)
    BY ONLY <1>1 DEF Holds
  <2>2. End(Len(Sections) + 1)' = End(Len(Sections) + 1)
    BY ONLY Zenon, <1>1 DEF End
  <2>3. IsNoff(noff.bytes)' <=> IsNoff(noff'.bytes)
    BY ONLY Zenon DEF IsNoff
  <2>4. QED BY ONLY Zenon, <1>1, <2>1, <2>2, <2>3 DEF Placed
<1>4. QED BY <1>2, <1>3

(* After coff2noff the file is complete or gone.                              *)
NoffInv ==
    /\ phase \in {"coff2noff", "AddrSpace"} => failed = {}
    /\ phase = "coff2noff" =>
          /\ noff = [exists |-> TRUE, header |-> <<>>, bytes |-> noff.bytes]
          /\ section <= Len(Sections) + 1 /\ Placed(header, noff.bytes, At)
    /\ phase = "AddrSpace" => Placed(noff.header, noff.bytes, Len(Sections) + 1)
    /\ phase # "coff2noff" => /\ noff.exists <=> "coff2noff" \notin failed
                              /\ noff.exists => noff.header # <<>>

(* coff2noff starts with an empty file.                                       *)
LEMMA NoffInit == ASSUME Sane, Init PROVE NoffInv
<1>1. IsNoff(NoFile)
  <2>1. DOMAIN NoFile = HeaderSize .. HeaderSize + 0 - 1 /\ 0 \in Nat
    BY DEF NoFile, Sane, SizesAreNatural
  <2>2. QED BY <2>1 DEF IsNoff
<1>2. /\ section = 0 /\ noff = [exists |-> TRUE, header |-> <<>>, bytes |-> NoFile] /\ At = 1
      /\ header = [code |-> NoSegment, initData |-> NoSegment, uninitData |-> NoSegment]
      /\ phase = "coff2noff" /\ failed = {}
  BY DEF Init, At
<1>3. /\ header \in [code : Seg, initData : Seg, uninitData : Seg]
      /\ header.code.size = 0 /\ header.initData.size = 0 /\ header.uninitData.size = 0
  BY <1>2 DEF Seg, NoSegment
<1>4. \A k \in 1 .. At - 1 : FALSE
  BY <1>2
<1>5. End(At) = 0
  BY <1>2 DEF End
<1>6. Placed(header, noff.bytes, At)
  BY <1>1, <1>2, <1>3, <1>4, <1>5 DEF Placed, Holds
<1>7. section <= Len(Sections) + 1
  <2>1. Len(Sections) \in Nat
    BY Zenon, SectionTypes
  <2>2. section = 0
    BY Zenon, <1>2
  <2>3. QED BY ONLY <2>1, <2>2
<1>8. /\ phase = "coff2noff" /\ failed = {}
      /\ noff = [exists |-> TRUE, header |-> <<>>, bytes |-> noff.bytes]
  BY ONLY <1>2
<1>9. QED BY Zenon, <1>6, <1>7, <1>8 DEF NoffInv

(* Giving up leaves no file.                                                  *)
LEMMA GiveUpNoffKeeps == ASSUME GiveUpNoff PROVE NoffInv'
<1>1. noff'.exists = FALSE /\ "coff2noff" \in failed' /\ phase' = "coff2flat"
  BY Zenon DEF GiveUpNoff, NoNoff, Enter
<1>2. QED BY <1>1 DEF NoffInv

(* The loop goes on to the next section.                                      *)
LEMMA NoffGoesOn ==
    ASSUME Sane, NoffInv, phase = "coff2noff", phase' = phase, failed' = failed, coff' = coff,
           section \in DOMAIN Sections, section' = section + 1,
           noff' = [exists |-> TRUE, header |-> <<>>, bytes |-> noff'.bytes],
           Placed(header', noff'.bytes, section + 1)
    PROVE  NoffInv'
<1>1. section \in Nat /\ section > 0 /\ section <= Len(Sections) /\ Len(Sections) \in Nat
  BY SectionTypes
<1>2. At' = section + 1 /\ section' <= Len(Sections) + 1
  BY <1>1 DEF At
<1>3. Placed(header, noff.bytes, At)'
  BY <1>2, PlacedStays
<1>4. section' <= (Len(Sections) + 1)'
  BY <1>2, SameFile
<1>5. QED BY <1>3, <1>4 DEF NoffInv

(* The segments.                                                              *)
LEMMA CopySegmentKeeps ==
    ASSUME Sane, NoffInv, Text \/ Data
    PROVE  NoffInv'
<1>1. CASE GiveUpNoff
  BY <1>1, GiveUpNoffKeeps
<1>2. CASE ~GiveUpNoff
  <2> DEFINE at == HeaderSize + Cardinality(DOMAIN noff.bytes)
  <2>1. /\ phase = "coff2noff" /\ phase' = phase /\ failed' = failed /\ coff' = coff
        /\ section \in DOMAIN Sections /\ section' = section + 1 /\ Sections[section].size # 0
        /\ noff' = [noff EXCEPT !.bytes = Copy(Sections[section], at, @)]
        /\ \/ /\ Sections[section].name = ".text"
              /\ header' = [header EXCEPT !["code"] = SegOf(Sections[section], at)]
           \/ /\ Sections[section].name \in {".data", ".rdata"} /\ header.initData.size = 0
              /\ header' = [header EXCEPT !["initData"] = SegOf(Sections[section], at)]
    BY <1>2 DEF Text, Data, AtSection, CopySegment, This, SegOf, inNoffFile
  <2>2. /\ noff = [exists |-> TRUE, header |-> <<>>, bytes |-> noff.bytes] /\ Placed(header, noff.bytes, section)
    <3>1. section > 0
      BY <2>1, SectionTypes
    <3>2. QED BY <2>1, <3>1 DEF NoffInv, At
  <2>3. /\ noff' = [exists |-> TRUE, header |-> <<>>, bytes |-> noff'.bytes]
        /\ noff'.bytes = Copy(Sections[section], at, noff.bytes)
    <3> HIDE DEF at
    <3>1. PICK b : noff = [exists |-> TRUE, header |-> <<>>, bytes |-> b]
      BY <2>2, Zenon
    <3>2. PICK c : c = Copy(Sections[section], at, b)
      OBVIOUS
    <3>3. noff.bytes = b /\ noff' = [noff EXCEPT !.bytes = c]
      BY <2>1, <3>1, <3>2
    <3>4. noff' = [exists |-> TRUE, header |-> <<>>, bytes |-> c]
      BY Zenon, <3>1, <3>3
    <3>5. QED BY Zenon, <3>2, <3>3, <3>4
  <2>4. Placed(header', noff'.bytes, section + 1)
    BY <2>1, <2>2, <2>3, PlacedText, PlacedData
  <2>5. QED BY <2>1, <2>3, <2>4, NoffGoesOn
<1>3. QED BY <1>1, <1>2

(* The section of uninitialized data, and the second one.                     *)
LEMMA BssKeeps == ASSUME Sane, NoffInv, Bss PROVE NoffInv'
<1>1. CASE GiveUpNoff
  BY <1>1, GiveUpNoffKeeps
<1>2. CASE ~GiveUpNoff
  <2> DEFINE v == IF header.uninitData.size # 0
                  THEN [header.uninitData EXCEPT !.size = @ + Sections[section].size]
                  ELSE [header.uninitData EXCEPT !.virtualAddr = Sections[section].paddr,
                                                 !.size = Sections[section].size]
  <2>1. /\ phase = "coff2noff" /\ phase' = phase /\ failed' = failed /\ coff' = coff
        /\ section \in DOMAIN Sections /\ section' = section + 1 /\ noff' = noff
        /\ Sections[section].name \in {".bss", ".sbss"}
        /\ header' = [header EXCEPT !.uninitData = v]
    BY <1>2 DEF Bss, AtSection, This
  <2>2. /\ noff = [exists |-> TRUE, header |-> <<>>, bytes |-> noff.bytes] /\ Placed(header, noff.bytes, section)
    <3>1. section > 0
      BY <2>1, SectionTypes
    <3>2. QED BY <2>1, <3>1 DEF NoffInv, At
  <2>3. v \in Seg /\ v.size = header.uninitData.size + Sections[section].size
    <3>1. PICK u \in Seg : u = header.uninitData
      BY <2>2 DEF Placed
    <3>2. PICK z \in Nat, y \in Nat : z = Sections[section].size /\ y = Sections[section].paddr
      BY <2>1, SectionTypes
    <3>3. v = IF u.size # 0 THEN [u EXCEPT !.size = @ + z] ELSE [u EXCEPT !.virtualAddr = y, !.size = z]
      BY <3>1, <3>2
    <3> HIDE DEF v
    <3>4. v \in Seg /\ v.size = u.size + z
      <4>1. CASE u.size # 0
        BY <3>3, <4>1 DEF Seg
      <4>2. CASE u.size = 0
        <5>1. PICK w \in Seg : w = [u EXCEPT !.virtualAddr = y]
          BY Zenon DEF Seg
        <5>2. v = [w EXCEPT !.size = z]
          BY <3>3, <4>2, <5>1
        <5>3. QED BY <4>2, <5>2 DEF Seg
      <4>3. QED BY <4>1, <4>2
    <3>5. QED BY <3>1, <3>2, <3>4
  <2>4. Placed(header', noff'.bytes, section + 1)
    BY Zenon, <2>1, <2>2, <2>3, PlacedBss
  <2>5. QED BY <2>1, <2>2, <2>4, NoffGoesOn
<1>3. QED BY <1>1, <1>2

(* Every step.                                                                *)
LEMMA NoffStep == ASSUME Sane, NoffInv, [Next]_coffVars PROVE NoffInv'
<1>1. Kept
  BY StepKeeps
<1>2. CASE phase # "coff2noff"
  <2>1. Placed(noff.header, noff.bytes, Len(Sections) + 1) => Placed(noff.header, noff.bytes, Len(Sections) + 1)'
    BY <1>1, <1>2, PlacedStays DEF Kept
  <2>2. /\ noff' = noff /\ phase' # "coff2noff" /\ (phase' = "AddrSpace" => phase = "AddrSpace" /\ failed' = failed)
        /\ ("coff2noff" \in failed' <=> "coff2noff" \in failed)
    BY <1>1, <1>2 DEF Kept, HandsOver
  <2>3. QED BY <1>2, <2>1, <2>2 DEF NoffInv
<1>3. CASE GiveUpNoff
  BY <1>3, GiveUpNoffKeeps
<1>4. CASE ReadHeaders /\ ~GiveUpNoff
  <2>1. /\ section = 0 /\ section' = 1 /\ noff' = noff /\ header' = header /\ coff' = coff
        /\ phase = "coff2noff" /\ phase' = phase /\ failed' = failed
    BY <1>4 DEF ReadHeaders
  <2>2. At' = At
    BY <2>1 DEF At
  <2>3. Placed(header, noff.bytes, At)'
    BY <2>1, <2>2, PlacedStays DEF NoffInv
  <2>4. section' <= (Len(Sections) + 1)'
    BY <2>1, SameFile, SectionTypes
  <2>5. QED BY <2>1, <2>3, <2>4 DEF NoffInv
<1>5. CASE EmptySection
  <2>1. /\ section \in DOMAIN Sections /\ section' = section + 1 /\ noff' = noff /\ header' = header
        /\ phase = "coff2noff" /\ phase' = phase /\ failed' = failed /\ Sections[section].size = 0 /\ coff' = coff
    BY <1>5 DEF EmptySection, This
  <2>2. section > 0
    BY <2>1, SectionTypes
  <2>3. /\ noff = [exists |-> TRUE, header |-> <<>>, bytes |-> noff.bytes] /\ Placed(header, noff.bytes, section)
    BY <2>1, <2>2 DEF NoffInv, At
  <2>4. QED BY <2>1, <2>3, PlacedEmpty, NoffGoesOn
<1>6. CASE WriteHeader /\ ~GiveUpNoff
  <2>1. /\ section = Len(Sections) + 1 /\ noff' = [noff EXCEPT !.header = header] /\ coff' = coff
        /\ phase = "coff2noff" /\ phase' = "AddrSpace" /\ failed' = failed
    BY <1>6 DEF WriteHeader, Enter
  <2>2. At = Len(Sections) + 1
    BY <2>1, SectionTypes DEF At
  <2>3. /\ noff = [exists |-> TRUE, header |-> <<>>, bytes |-> noff.bytes] /\ failed = {}
        /\ Placed(header, noff.bytes, Len(Sections) + 1)
    BY <2>1, <2>2 DEF NoffInv
  <2>4. noff'.exists = TRUE /\ noff'.header = header /\ noff'.bytes = noff.bytes
    BY <2>1, <2>3
  <2>5. Placed(noff.header, noff.bytes, Len(Sections) + 1)'
    BY <2>1, <2>3, <2>4, PlacedStays
  <2>6. header # <<>>
    BY ONLY <2>3 DEF Placed
  <2>7. QED BY <2>1, <2>3, <2>4, <2>5, <2>6 DEF NoffInv
<1>7. CASE phase = "coff2noff" /\ UNCHANGED coffVars
  <2>1. coff' = coff /\ phase' = phase /\ section' = section /\ noff' = noff /\ header' = header /\ failed' = failed
    BY <1>7 DEF coffVars
  <2>2. At' = At /\ (Len(Sections) + 1)' = Len(Sections) + 1
    BY <2>1, SameFile DEF At
  <2>3. Placed(header, noff.bytes, At)'
    BY <1>7, <2>1, <2>2, PlacedStays DEF NoffInv
  <2>4. QED BY <1>7, <2>1, <2>2, <2>3 DEF NoffInv
<1>8. CASE Unknown
  BY <1>3, <1>8 DEF Unknown
<1>9. phase = "coff2noff" => \/ ReadHeaders \/ EmptySection \/ Text \/ Data \/ Bss \/ Unknown \/ WriteHeader
                             \/ UNCHANGED coffVars
  BY DEF Next, AddrSpace, FlatHeaders, FlatSection, FlatStack, LoadSection, Load, Loaded, load_section, disasm,
         OutHeaders, print_section
<1>10. QED BY <1>2, <1>3, <1>4, <1>5, <1>6, <1>7, <1>8, <1>9, CopySegmentKeeps, BssKeeps

-----------------------------------------------------------------------------
(* AddrSpace.                                                                 *)

(* An address is its page and its offset.                                     *)
LEMMA PageAndOffset ==
    ASSUME NEW a \in Nat, NEW p \in Nat \ {0}
    PROVE  a \div p \in Nat /\ a % p \in 0 .. p - 1 /\ a = (a \div p) * p + (a % p)
OBVIOUS

(* Multiplication is monotonic.                                               *)
LEMMA TimesGrows == ASSUME NEW x \in Nat, NEW y \in Nat, NEW p \in Nat, x <= y PROVE x * p <= y * p
OBVIOUS

(* An address below the end of the pages is on one of them.                   *)
LEMMA PageInRange ==
    ASSUME NEW a \in Nat, NEW p \in Nat \ {0}, NEW n \in Nat, a < n * p
    PROVE  a \div p \in 0 .. n - 1
<1>1. PICK q \in Nat, r \in 0 .. p - 1 : a \div p = q /\ a = q * p + r
  BY PageAndOffset
<1>2. n <= q => n * p <= q * p
  BY TimesGrows
<1>3. q * p \in Nat /\ n * p \in Nat /\ r \in Nat
  OBVIOUS
<1>4. ~(n <= q)
  BY <1>1, <1>2, <1>3
<1>5. QED BY <1>1, <1>4

(* Pages enough for a size.                                                   *)
LEMMA RoundsUp ==
    ASSUME NEW n \in Nat, NEW p \in Nat \ {0}
    PROVE  divRoundUp(n, p) \in Nat /\ divRoundUp(n, p) * p >= n
<1>1. PICK m \in Nat : m = n + p - 1
  OBVIOUS
<1>2. m \div p \in Nat /\ m % p \in 0 .. p - 1 /\ m = (m \div p) * p + (m % p)
  BY Zenon, PageAndOffset
<1>3. (m \div p) * p >= n
  BY <1>1, <1>2
<1>4. QED BY <1>1, <1>2, <1>3 DEF divRoundUp

(* Without gaps the highest end is that of the last section.                  *)
LEMMA TopIsEnd ==
    ASSUME Sane, Contiguous
    PROVE  Top = End(Len(Sections) + 1) /\ Top \in Nat
<1> DEFINE ends == {0} \cup {Sections[k].paddr + Sections[k].size : k \in DOMAIN Sections}
           last == End(Len(Sections) + 1)
<1>1. /\ Len(Sections) \in Nat /\ DOMAIN Sections = 1 .. Len(Sections)
      /\ \A k \in DOMAIN Sections : Sections[k].paddr \in Nat /\ Sections[k].size \in Nat
  BY SectionTypes
<1>2. last \in ends
  <2>1. CASE Len(Sections) = 0
    BY <2>1 DEF End
  <2>2. CASE Len(Sections) # 0
    <3>1. Len(Sections) \in DOMAIN Sections
      BY <1>1, <2>2
    <3>2. last = Sections[Len(Sections)].paddr + Sections[Len(Sections)].size
      BY <1>1, <2>2 DEF End
    <3>3. QED BY <3>1, <3>2
  <2>3. QED BY <2>1, <2>2
<1>3. ASSUME NEW k \in DOMAIN Sections PROVE Sections[k].paddr + Sections[k].size <= last
  <2>1. Len(Sections) + 1 \in 1 .. Len(Sections) + 1 /\ k \in 1 .. (Len(Sections) + 1) - 1
    BY <1>1
  <2>2. QED BY <2>1, EndsGrow
<1>4. last \in Nat /\ \A e \in ends : e \in Nat
  BY <1>1, <1>2
<1>5. \A e \in ends : last >= e
  BY <1>1, <1>3, <1>4
<1>6. Top = CHOOSE n \in ends : \A e \in ends : n >= e
  BY DEF Top
<1> HIDE DEF ends, last
<1>7. Top \in ends /\ \A e \in ends : Top >= e
  BY <1>2, <1>5, <1>6
<1>8. Top = last
  BY <1>2, <1>4, <1>5, <1>7
<1>9. QED BY <1>4, <1>8 DEF last

(* What ReadAt puts into memory of a segment: the section it is of, and no    *)
(* byte of another.                                                           *)
LEMMA SegReads ==
    ASSUME Sane, WellFormed, NEW seg \in Seg, NEW b, NEW names, Holds(seg, b, names, Len(Sections) + 1),
           NEW k \in DOMAIN Sections, NEW a \in Occupies(Sections[k])
    PROVE  /\ Sections[k].name \in names =>
                 a \in DOMAIN Segment(seg, b) /\ Segment(seg, b)[a] = Sections[k].scnptr + (a - Sections[k].paddr)
           /\ Sections[k].name \notin names => a \notin DOMAIN Segment(seg, b)
<1>1. /\ Len(Sections) \in Nat /\ DOMAIN Sections = 1 .. Len(Sections) /\ (Len(Sections) + 1) - 1 = Len(Sections)
      /\ \A j \in DOMAIN Sections : Sections[j].paddr \in Nat /\ Sections[j].size \in Nat
      /\ seg.virtualAddr \in Nat /\ seg.inFileAddr \in Nat /\ seg.size \in Nat
  BY SectionTypes DEF Seg
<1>2. a \in Sections[k].paddr .. Sections[k].paddr + Sections[k].size - 1 /\ Sections[k].size # 0 /\ a \in Nat
  BY <1>1 DEF Occupies
<1>3. /\ DOMAIN Segment(seg, b) = seg.virtualAddr .. seg.virtualAddr + seg.size - 1
      /\ \A x \in seg.virtualAddr .. seg.virtualAddr + seg.size - 1 :
            Segment(seg, b)[x] = b[seg.inFileAddr + (x - seg.virtualAddr)]
  BY Zenon DEF Segment
<1>4. CASE seg.size = 0 /\ \A j \in 1 .. Len(Sections) : Sections[j].name \in names => Sections[j].size = 0
  <2>1. seg.virtualAddr \in Nat /\ seg.size = 0
    BY Zenon, <1>1, <1>4
  <2>2. seg.virtualAddr .. seg.virtualAddr + seg.size - 1 = {}
    BY ONLY <2>1
  <2>3. QED BY Zenon, <1>1, <1>2, <1>3, <1>4, <2>2
<1>5. ASSUME NEW j \in 1 .. Len(Sections),
             /\ Sections[j].name \in names /\ Sections[j].size # 0
             /\ seg.virtualAddr = Sections[j].paddr /\ seg.size = Sections[j].size
             /\ \A i \in 0 .. Sections[j].size - 1 :
                   /\ seg.inFileAddr + i \in DOMAIN b
                   /\ b[seg.inFileAddr + i] = Sections[j].scnptr + i
             /\ \A i \in 1 .. Len(Sections) : Sections[i].name \in names /\ Sections[i].size # 0 => i = j
      PROVE  /\ Sections[k].name \in names =>
                 a \in DOMAIN Segment(seg, b) /\ Segment(seg, b)[a] = Sections[k].scnptr + (a - Sections[k].paddr)
             /\ Sections[k].name \notin names => a \notin DOMAIN Segment(seg, b)
  <2>1. CASE Sections[k].name \in names
    <3>1. k = j
      BY Zenon, <1>1, <1>2, <1>5, <2>1
    <3>2. PICK i \in 0 .. Sections[k].size - 1 : i = a - Sections[k].paddr
      <4>1. Sections[k].paddr \in Nat /\ Sections[k].size \in Nat
        BY Zenon, <1>1
      <4>2. a - Sections[k].paddr \in 0 .. Sections[k].size - 1
        BY ONLY <1>2, <4>1
      <4>3. QED BY Zenon, <4>2
    <3>3. b[seg.inFileAddr + i] = Sections[k].scnptr + i
      BY Zenon, <1>5, <3>1
    <3>4. a \in seg.virtualAddr .. seg.virtualAddr + seg.size - 1
      BY <1>2, <1>5, <3>1
    <3>5. Segment(seg, b)[a] = b[seg.inFileAddr + (a - seg.virtualAddr)] /\ seg.virtualAddr = Sections[k].paddr
      BY Zenon, <1>3, <1>5, <3>1, <3>4
    <3>6. QED BY Zenon, <1>3, <2>1, <3>2, <3>3, <3>4, <3>5
  <2>2. CASE Sections[k].name \notin names
    <3>1. k # j /\ j \in DOMAIN Sections \ {k}
      BY Zenon, <1>1, <1>5, <2>2
    <3>2. Occupies(Sections[j]) \cap Occupies(Sections[k]) = {}
      BY Zenon, <3>1 DEF WellFormed
    <3>3. a \notin Sections[j].paddr .. Sections[j].paddr + Sections[j].size - 1
      BY Zenon, <3>2 DEF Occupies
    <3>4. QED BY Zenon, <1>3, <1>5, <2>2, <3>3
  <2>3. QED BY Zenon, <2>1, <2>2
<1>6. QED BY Zenon, <1>1, <1>4, <1>5 DEF Holds

(* What AddrSpace puts into memory.                                           *)
Image(h, b) ==
    Over(Segment(h.initData, b), Over(Segment(h.code, b), Zeroed(PageSize * NumPhysPages)))

(* The memory that AddrSpace fills holds what the NOFF file does.             *)
LEMMA ImageHolds ==
    ASSUME Sane, WellFormed, NEW h, NEW b, Placed(h, b, Len(Sections) + 1),
           NEW k \in DOMAIN Sections, NEW a \in Occupies(Sections[k]), a < PageSize * NumPhysPages
    PROVE  Image(h, b)[a] = ByteAt(Sections[k], a)
<1> DEFINE name == Sections[k].name
           code == Segment(h.code, b)
           data == Segment(h.initData, b)
           zero == Zeroed(PageSize * NumPhysPages)
           byte == Sections[k].scnptr + (a - Sections[k].paddr)
<1>1. /\ Len(Sections) \in Nat /\ k \in 1 .. (Len(Sections) + 1) - 1
      /\ Sections[k].paddr \in Nat /\ Sections[k].size \in Nat
  BY SectionTypes
<1>2. Sections[k].size # 0 /\ a \in Nat
  BY <1>1 DEF Occupies
<1>3. name \in Known
  BY Zenon, <1>1, <1>2 DEF Placed
<1>4. /\ name \in {".text"} => a \in DOMAIN code /\ code[a] = byte
      /\ name \notin {".text"} => a \notin DOMAIN code
  BY Zenon, SegReads DEF Placed
<1>5. /\ name \in {".data", ".rdata"} => a \in DOMAIN data /\ data[a] = byte
      /\ name \notin {".data", ".rdata"} => a \notin DOMAIN data
  BY Zenon, SegReads DEF Placed
<1>6. a \in DOMAIN zero /\ zero[a] = 0
  BY <1>2 DEF Zeroed, Sane, SizesAreNatural
<1>7. Image(h, b) = Over(data, Over(code, zero))
  BY Zenon DEF Image
<1> HIDE DEF code, data, zero, byte
<1>8. CASE name \in {".data", ".rdata"}
  <2>1. Over(data, Over(code, zero))[a] = byte
    BY <1>5, <1>8, OverIn, Zenon
  <2>2. QED BY <1>7, <1>8, <2>1 DEF ByteAt, Uninitialized, byte
<1>9. CASE name = ".text"
  <2>1. a \in DOMAIN code /\ a \notin DOMAIN data /\ code[a] = byte
    BY Zenon, <1>4, <1>5, <1>9
  <2>2. a \in DOMAIN Over(code, zero) /\ Over(code, zero)[a] = byte
    BY Zenon, <2>1, OverIn
  <2>3. Over(data, Over(code, zero))[a] = byte
    BY <2>1, <2>2, OverOut
  <2>4. QED BY Zenon, <1>7, <1>9, <2>3 DEF ByteAt, Uninitialized, byte
<1>10. CASE name \in {".bss", ".sbss"}
  <2>1. a \notin DOMAIN code /\ a \notin DOMAIN data
    BY <1>4, <1>5, <1>10
  <2>2. a \in DOMAIN Over(code, zero) /\ Over(code, zero)[a] = 0
    BY <1>6, <2>1, OverOut
  <2>3. Over(data, Over(code, zero))[a] = 0
    BY Zenon, <2>1, <2>2, OverOut
  <2>4. QED BY Zenon, <1>7, <1>10, <2>3 DEF ByteAt, Uninitialized
<1>11. QED BY <1>3, <1>8, <1>9, <1>10 DEF Known

(* What the program can address is what the file says, and the stack is above *)
(* it.                                                                        *)
SpaceOK ==
    /\ WellFormed => \A k \in DOMAIN Sections : \A a \in Occupies(Sections[k]) :
          a < space.numPages * PageSize => UserByte(a) = ByteAt(Sections[k], a)
    /\ WellFormed /\ Contiguous =>
          space.stack + 16 = space.numPages * PageSize /\ space.stack + 16 >= Top + UserStackSize

SpaceInv ==
    phase \notin {"coff2noff", "AddrSpace"} /\ {"coff2noff", "AddrSpace"} \cap failed = {} => SpaceOK

(* AddrSpace loads what coff2noff wrote.                                      *)
LEMMA AddrSpaceLoads == ASSUME Sane, NoffInv, AddrSpace, "AddrSpace" \notin failed' PROVE SpaceOK'
<1> DEFINE h == noff.header
           size == h.code.size + h.initData.size + h.uninitData.size + UserStackSize
           n == divRoundUp(size, PageSize)
<1>1. /\ n <= NumPhysPages /\ coff' = coff
      /\ space' = [numPages |-> n, pageTable |-> PageTable(n), mainMemory |-> Image(h, noff.bytes),
                   stack |-> InitRegisters(n)]
  <2>1. failed' # failed \cup {"AddrSpace"}
    BY Zenon
  <2>2. QED BY <2>1, Zenon DEF AddrSpace, Image
<1>2. Placed(h, noff.bytes, Len(Sections) + 1)
  BY Zenon DEF NoffInv, AddrSpace
<1>3. /\ size \in Nat /\ PageSize \in Nat \ {0} /\ NumPhysPages \in Nat /\ UserStackSize \in Nat
      /\ h.code.size \in Nat /\ h.initData.size \in Nat /\ h.uninitData.size \in Nat
  <2>1. h \in [code : Seg, initData : Seg, uninitData : Seg]
    BY <1>2 DEF Placed
  <2>2. h.code \in Seg /\ h.initData \in Seg /\ h.uninitData \in Seg
    BY <2>1
  <2>3. h.code.size \in Nat /\ h.initData.size \in Nat /\ h.uninitData.size \in Nat
    BY <2>2 DEF Seg
  <2>4. PageSize \in Nat \ {0} /\ NumPhysPages \in Nat /\ UserStackSize \in Nat
    BY Zenon DEF Sane, SizesAreNatural
  <2>5. QED BY <2>3, <2>4
<1>4. n \in Nat /\ n * PageSize >= size
  BY <1>3, RoundsUp
<1> HIDE DEF n, size
<1>5. n * PageSize <= PageSize * NumPhysPages
  <2>1. n * PageSize <= NumPhysPages * PageSize
    BY Zenon, <1>1, <1>3, <1>4, TimesGrows
  <2>2. QED BY <1>3, <2>1
<1>6. space'.numPages = n /\ space'.stack = n * PageSize - 16 /\ space'.mainMemory = Image(h, noff.bytes)
      /\ \A i \in 0 .. n - 1 : space'.pageTable[i] = i
  <2>1. PageTable(n) = [i \in 0 .. n - 1 |-> i] /\ InitRegisters(n) = n * PageSize - 16
    BY Zenon DEF PageTable, InitRegisters
  <2>2. /\ space'.numPages = n /\ space'.stack = InitRegisters(n) /\ space'.mainMemory = Image(h, noff.bytes)
        /\ space'.pageTable = PageTable(n)
    BY <1>1
  <2>3. QED BY <2>1, <2>2
<1>7. ASSUME WellFormed, NEW k \in DOMAIN Sections, NEW a \in Occupies(Sections[k]), a < n * PageSize
      PROVE  UserByte(a)' = ByteAt(Sections[k], a)
  <2>1. a \in Nat
    BY SectionTypes DEF Occupies
  <2>2. a \div PageSize \in 0 .. n - 1 /\ a = (a \div PageSize) * PageSize + (a % PageSize)
    BY Zenon, <1>3, <1>4, <1>7, <2>1, PageInRange, PageAndOffset
  <2>3. UserByte(a)' = Image(h, noff.bytes)[a]
    BY Zenon, <1>6, <2>2 DEF UserByte
  <2>4. a < PageSize * NumPhysPages
    BY <1>3, <1>4, <1>5, <1>7, <2>1
  <2>5. Image(h, noff.bytes)[a] = ByteAt(Sections[k], a)
    BY <1>2, <1>7, <2>4, ImageHolds
  <2>6. QED BY <2>3, <2>5
<1>8. ASSUME WellFormed, Contiguous PROVE n * PageSize >= Top + UserStackSize
  <2>1. h.code.size + h.initData.size + h.uninitData.size = End(Len(Sections) + 1)
    BY <1>2, <1>8 DEF Placed
  <2>2. Top = End(Len(Sections) + 1) /\ Top \in Nat
    BY <1>8, TopIsEnd
  <2>3. size = Top + UserStackSize
    BY Zenon, <2>1, <2>2 DEF size
  <2>4. QED BY <1>4, <2>3
<1>9. Sections' = Sections /\ (WellFormed' <=> WellFormed) /\ (Contiguous' <=> Contiguous)
  BY <1>1, SameFile
<1>10. Top' = Top
  BY <1>9 DEF Top
<1>11. (n * PageSize - 16) + 16 = n * PageSize
  BY <1>3, <1>4
<1>12. QED BY <1>6, <1>7, <1>8, <1>9, <1>10, <1>11 DEF SpaceOK

(* What AddrSpace loaded stays.                                               *)
LEMMA SpaceStep == ASSUME Sane, NoffInv, SpaceInv, [Next]_coffVars PROVE SpaceInv'
<1>1. Kept
  BY StepKeeps
<1>2. CASE AddrSpace
  BY <1>2, AddrSpaceLoads DEF SpaceInv
<1>3. CASE phase = "coff2noff"
  <2>1. phase' \in {"coff2noff", "AddrSpace"} \/ "coff2noff" \in failed'
    BY Zenon, <1>3 DEF Next, ReadHeaders, EmptySection, Text, Data, Bss, Unknown, WriteHeader, CopySegment, GiveUpNoff,
               AddrSpace, FlatHeaders, FlatSection, FlatStack, LoadSection, Load, Loaded, load_section, disasm,
               OutHeaders, print_section, Enter, coffVars
  <2>2. QED BY Zenon, <2>1 DEF SpaceInv
<1>4. CASE phase = "AddrSpace" /\ ~AddrSpace
  <2>1. phase' = "AddrSpace"
    BY <1>4 DEF Next, ReadHeaders, EmptySection, Text, Data, Bss, Unknown, WriteHeader, AtSection,
               FlatHeaders, FlatSection, FlatStack, LoadSection, Load, Loaded, load_section, disasm,
               OutHeaders, print_section, coffVars
  <2>2. QED BY Zenon, <2>1 DEF SpaceInv
<1>5. CASE phase \notin {"coff2noff", "AddrSpace"}
  <2>1. coff' = coff /\ space' = space /\ failed \subseteq failed'
    BY <1>1, <1>5 DEF Kept
  <2>2. Sections' = Sections /\ (WellFormed' <=> WellFormed) /\ (Contiguous' <=> Contiguous) /\ Top' = Top
    BY Zenon, <2>1, SameFile DEF Top
  <2>3. SpaceOK => SpaceOK'
    BY Zenon, <2>1, <2>2 DEF SpaceOK, UserByte
  <2>4. QED BY <1>5, <2>1, <2>3 DEF SpaceInv
<1>6. QED BY <1>2, <1>3, <1>4, <1>5

-----------------------------------------------------------------------------
(* coff2flat.                                                                 *)

Linked == WellFormed /\ Contiguous /\ UninitializedLast

(* The first c bytes of the flat file are there: up to section n, or to the   *)
(* first that is uninitialized.                                               *)
FlatUpTo(f, n, c) ==
    /\ DOMAIN f = 0 .. c - 1
    /\ (\A j \in 1 .. n - 1 : Sections[j].name \notin Uninitialized) => c = End(n)
    /\ \A j \in 1 .. n - 1 : Sections[j].name \in Uninitialized => c <= Sections[j].paddr
    /\ \A j \in 1 .. n - 1 : Sections[j].name \notin Uninitialized =>
          \A a \in Occupies(Sections[j]) : a \in DOMAIN f /\ f[a] = ByteAt(Sections[j], a)

Flats(f, n) == Linked => \E c \in Nat : FlatUpTo(f, n, c)

FlatOK ==
    Linked => \A k \in DOMAIN Sections : \A a \in Occupies(Sections[k]) : flat[a] = ByteAt(Sections[k], a)

FlatInv ==
    /\ phase \in {"coff2noff", "AddrSpace"} => flat = NoFile
    /\ phase = "coff2flat" => Flats(flat, At) /\ section <= Len(Sections) + 1
    /\ phase \notin {"coff2noff", "AddrSpace", "coff2flat"} /\ "coff2flat" \notin failed => FlatOK

(* The flat file means the same as long as the object file does.              *)
LEMMA FlatsStay ==
    ASSUME coff' = coff
    PROVE  /\ Flats(flat', At') => Flats(flat, At)'
           /\ (Len(Sections) + 1)' = Len(Sections) + 1
           /\ flat' = flat /\ FlatOK => FlatOK'
BY Zenon, SameFile DEF Flats, FlatUpTo, Linked, End, FlatOK

(* An empty file, before the first section.                                   *)
LEMMA FlatsStart == Flats(NoFile, 1)
<1>1. DOMAIN NoFile = 0 .. 0 - 1 /\ End(1) = 0 /\ 0 \in Nat
  BY DEF NoFile, End
<1>2. \A j \in 1 .. 1 - 1 : FALSE
  OBVIOUS
<1>3. FlatUpTo(NoFile, 1, 0)
  BY Zenon, <1>1, <1>2 DEF FlatUpTo
<1>4. QED BY <1>1, <1>3 DEF Flats

(* An initialized section goes where it belongs: those before it are.         *)
LEMMA FlatsCopy ==
    ASSUME Sane, NEW f, NEW n \in DOMAIN Sections, Flats(f, n), Sections[n].name \notin Uninitialized
    PROVE  Flats(Copy(Sections[n], Cardinality(DOMAIN f), f), n + 1)
<1> SUFFICES ASSUME Linked PROVE \E c \in Nat : FlatUpTo(Copy(Sections[n], Cardinality(DOMAIN f), f), n + 1, c)
  BY DEF Flats
<1>1. PICK c \in Nat : FlatUpTo(f, n, c)
  BY Zenon DEF Flats
<1>2. /\ n \in Nat /\ n > 0 /\ Sections[n].paddr \in Nat /\ Sections[n].size \in Nat /\ Sections[n].scnptr \in Nat
      /\ Sections[n] \in Record
      /\ \A j \in 1 .. (n + 1) - 1 : j \in 1 .. n - 1 \/ j = n
      /\ \A j \in 1 .. n - 1 : j \in DOMAIN Sections /\ j < n
  BY SectionTypes
<1>3. \A j \in 1 .. n - 1 : Sections[j].name \notin Uninitialized
  BY Zenon, <1>2 DEF Linked, UninitializedLast
<1>4. c = End(n) /\ Sections[n].paddr = c /\ End(n + 1) = c + Sections[n].size
  BY <1>1, <1>3, EndNext DEF FlatUpTo, Linked
<1>5. Cardinality(DOMAIN f) = c
  <2>1. DOMAIN f = 0 .. 0 + c - 1
    BY <1>1 DEF FlatUpTo
  <2>2. QED BY Zenon, <2>1 DEF Sane, Numbers
<1> DEFINE g == Copy(Sections[n], c, f)
<1>6. Copied(Sections[n], c, f, g)
  BY Zenon, <1>2, CopyWrites
<1> HIDE DEF g
<1>7. DOMAIN g = 0 .. (c + Sections[n].size) - 1
  <2>1. PICK l \in Nat : l = Sections[n].size
    BY <1>2
  <2>2. (c .. c + l - 1) \cup (0 .. c - 1) = 0 .. (c + l) - 1
    OBVIOUS
  <2>3. QED BY Zenon, <1>1, <1>6, <2>1, <2>2 DEF Copied, FlatUpTo
<1>8. ASSUME NEW j \in 1 .. n - 1, NEW a \in Occupies(Sections[j])
      PROVE  a \in DOMAIN g /\ g[a] = ByteAt(Sections[j], a)
  <2>1. a \in DOMAIN f /\ f[a] = ByteAt(Sections[j], a) /\ DOMAIN f = 0 .. c - 1
    BY <1>1, <1>3, <1>8 DEF FlatUpTo
  <2>2. a \notin c .. c + Sections[n].size - 1
    BY <2>1
  <2>3. QED BY Zenon, <1>6, <2>1, <2>2 DEF Copied
<1>9. ASSUME NEW a \in Occupies(Sections[n])
      PROVE  a \in DOMAIN g /\ g[a] = ByteAt(Sections[n], a)
  <2>0. PICK l \in Nat : l = Sections[n].size
    BY Zenon, <1>2
  <2>a. a \in c .. c + l - 1
    BY <1>4, <2>0 DEF Occupies
  <2>1. PICK i \in 0 .. Sections[n].size - 1 : a = c + i
    <3>1. a - c \in 0 .. l - 1 /\ a = c + (a - c)
      BY <2>a
    <3>2. QED BY <2>0, <3>1
  <2>2. g[c + i] = Sections[n].scnptr + i
    BY Zenon, <1>6 DEF Copied
  <2>3. ByteAt(Sections[n], a) = Sections[n].scnptr + i
    BY <1>2, <1>4, <2>1 DEF ByteAt
  <2>4. a \in DOMAIN g
    BY <1>2, <1>7, <2>1
  <2>5. QED BY Zenon, <2>1, <2>2, <2>3, <2>4
<1>10. \A j \in 1 .. (n + 1) - 1 : Sections[j].name \notin Uninitialized
  BY Zenon, <1>2, <1>3
<1>11. \A j \in 1 .. (n + 1) - 1 : \A a \in Occupies(Sections[j]) : a \in DOMAIN g /\ g[a] = ByteAt(Sections[j], a)
  BY Zenon, <1>2, <1>8, <1>9
<1>12. FlatUpTo(g, n + 1, c + Sections[n].size)
  BY Zenon, <1>4, <1>7, <1>10, <1>11 DEF FlatUpTo
<1>13. c + Sections[n].size \in Nat
  BY <1>2
<1>14. QED BY Zenon, <1>5, <1>12, <1>13 DEF g

(* An uninitialized one is behind all that is in the file.                    *)
LEMMA FlatsSkip ==
    ASSUME Sane, NEW f, NEW n \in DOMAIN Sections, Flats(f, n), Sections[n].name \in Uninitialized
    PROVE  Flats(f, n + 1)
<1> SUFFICES ASSUME Linked PROVE \E c \in Nat : FlatUpTo(f, n + 1, c)
  BY DEF Flats
<1>1. PICK c \in Nat : FlatUpTo(f, n, c)
  BY Zenon DEF Flats
<1>a. n \in Nat /\ n > 0 /\ n <= Len(Sections) /\ Len(Sections) \in Nat /\ DOMAIN Sections = 1 .. Len(Sections)
  BY SectionTypes
<1>b. \A j \in 1 .. n - 1 : j \in DOMAIN Sections
  BY <1>a
<1>2. /\ n \in Nat /\ n > 0 /\ n \in 1 .. Len(Sections) + 1 /\ n \in 1 .. (n + 1) - 1
      /\ \A j \in 1 .. (n + 1) - 1 : j \in 1 .. n - 1 \/ j = n
      /\ \A j \in 1 .. n - 1 : Sections[j].paddr \in Nat /\ Sections[j].size \in Nat
  <2>1. /\ n \in 1 .. Len(Sections) + 1 /\ n \in 1 .. (n + 1) - 1
        /\ \A j \in 1 .. (n + 1) - 1 : j \in 1 .. n - 1 \/ j = n
    BY <1>a
  <2>2. QED BY <1>a, <1>b, <2>1, SectionTypes
<1>3. End(n) \in Nat /\ Sections[n].paddr = End(n)
  BY Zenon, EndNext DEF Linked
<1>4. c <= Sections[n].paddr
  <2>1. CASE \A j \in 1 .. n - 1 : Sections[j].name \notin Uninitialized
    BY <1>1, <1>3, <2>1 DEF FlatUpTo
  <2>2. ASSUME NEW j \in 1 .. n - 1, Sections[j].name \in Uninitialized PROVE c <= Sections[n].paddr
    <3>1. c <= Sections[j].paddr
      BY Zenon, <1>1, <2>2 DEF FlatUpTo
    <3>2. Sections[j].paddr + Sections[j].size <= End(n)
      BY Zenon, <1>2, EndsGrow DEF Linked
    <3>3. Sections[j].paddr \in Nat /\ Sections[j].size \in Nat /\ c \in Nat
      BY Zenon, <1>2
    <3>4. QED BY ONLY <1>3, <3>1, <3>2, <3>3
  <2>3. QED BY Zenon, <2>1, <2>2
<1>5. FlatUpTo(f, n + 1, c)
  BY Zenon, <1>1, <1>2, <1>4 DEF FlatUpTo
<1>6. QED BY <1>5

Stacked(f, t) == Over([p \in t + StackSize - 4 .. t + StackSize - 1 |-> 0], Over(f, Zeroed(t + StackSize)))

(* The word at the end of the stack is behind every section, and what the     *)
(* file skips reads as zero.                                                  *)
LEMMA StackIsBehind ==
    ASSUME Sane, NEW f, NEW g, Flats(f, Len(Sections) + 1),
           g = Stacked(f, Top), Linked,
           NEW k \in DOMAIN Sections, NEW a \in Occupies(Sections[k])
    PROVE  g[a] = ByteAt(Sections[k], a)
<1>1. PICK c \in Nat : FlatUpTo(f, Len(Sections) + 1, c)
  BY Zenon DEF Flats
<1>2. /\ Len(Sections) \in Nat /\ k \in 1 .. (Len(Sections) + 1) - 1
      /\ Sections[k].paddr \in Nat /\ Sections[k].size \in Nat /\ Len(Sections) + 1 \in 1 .. Len(Sections) + 1
  BY SectionTypes
<1>3. Top \in Nat /\ Sections[k].paddr + Sections[k].size <= Top
  BY <1>2, TopIsEnd, EndsGrow DEF Linked
<1>4. StackSize \in Nat /\ StackSize >= 4
  BY Zenon DEF Sane, SizesAreNatural
<1>5. PICK t \in Nat : t = Top + StackSize
  BY <1>3, <1>4
<1>6. a \in Nat /\ a < Sections[k].paddr + Sections[k].size /\ a >= Sections[k].paddr
  BY <1>2 DEF Occupies
<1>7. a \notin t - 4 .. t - 1 /\ a \in 0 .. t - 1
  <2>1. PICK x \in Nat : x = Top
    BY Zenon, <1>3
  <2>2. a < x
    BY <1>2, <1>3, <1>6, <2>1
  <2>3. t = x + StackSize
    BY Zenon, <1>5, <2>1
  <2>4. QED BY <1>4, <1>6, <2>2, <2>3
<1> DEFINE w == [p \in t - 4 .. t - 1 |-> 0]
           z == Zeroed(t)
<1>8. g = Over(w, Over(f, z)) /\ DOMAIN w = t - 4 .. t - 1 /\ DOMAIN z = 0 .. t - 1 /\ z[a] = 0
  <2>1. g = Over(w, Over(f, z))
    <3>1. PICK x \in Nat : x = Top
      BY <1>3
    <3>2. t = x + StackSize /\ x + StackSize - 4 = t - 4 /\ x + StackSize - 1 = t - 1
      BY <1>4, <1>5, <3>1
    <3>3. g = Stacked(f, x)
      BY Zenon, <3>1
    <3>4. QED BY <3>2, <3>3 DEF Stacked
  <2>2. DOMAIN w = t - 4 .. t - 1 /\ DOMAIN z = 0 .. t - 1 /\ z[a] = 0
    BY Zenon, <1>7 DEF Zeroed
  <2>3. QED BY Zenon, <2>1, <2>2
<1> HIDE DEF w, z
<1>9. a \in DOMAIN Over(f, z)
  BY <1>7, <1>8, OverReads
<1>10. g[a] = Over(f, z)[a]
  BY <1>7, <1>8, <1>9, OverOut
<1>11. CASE Sections[k].name \notin Uninitialized
  <2>1. a \in DOMAIN f /\ f[a] = ByteAt(Sections[k], a)
    BY Zenon, <1>1, <1>2, <1>11 DEF FlatUpTo
  <2>2. QED BY Zenon, <1>10, <2>1, OverIn
<1>12. CASE Sections[k].name \in Uninitialized
  <2>1. c <= Sections[k].paddr /\ DOMAIN f = 0 .. c - 1
    BY Zenon, <1>1, <1>2, <1>12 DEF FlatUpTo
  <2>2. a \notin DOMAIN f
    BY ONLY <1>2, <1>6, <2>1, c \in Nat
  <2>3. Over(f, z)[a] = 0
    BY <1>7, <1>8, <2>2, OverOut
  <2>4. QED BY Zenon, <1>10, <1>12, <2>3 DEF ByteAt
<1>13. QED BY <1>11, <1>12

(* The flat file holds what has been read, and in the end everything.         *)
LEMMA FlatStep == ASSUME Sane, FlatInv, [Next]_coffVars PROVE FlatInv'
<1>1. Kept
  BY StepKeeps
<1>2. /\ coff' = coff /\ failed \subseteq failed' /\ HandsOver(phase, phase')
      /\ phase' # phase => section' = 0
      /\ phase # "coff2flat" => flat' = flat
  BY Zenon, <1>1 DEF Kept
<1>3. /\ Flats(flat', At') => Flats(flat, At)'
      /\ (Len(Sections) + 1)' = Len(Sections) + 1
      /\ flat' = flat /\ FlatOK => FlatOK'
  BY Zenon, <1>2, FlatsStay
<1>4. Len(Sections) \in Nat /\ DOMAIN Sections = 1 .. Len(Sections) /\ section \in Nat
  BY Zenon, SectionTypes
<1>5. CASE phase \in {"coff2noff", "AddrSpace"}
  <2>1. phase' \in {"coff2noff", "AddrSpace"} \/ (phase' = "coff2flat" /\ section' = 0)
    BY Zenon, <1>2, <1>5 DEF HandsOver
  <2>2. flat' = NoFile
    BY Zenon, <1>2, <1>5 DEF FlatInv
  <2>3. CASE phase' = "coff2flat" /\ section' = 0
    <3>1. At' = 1
      BY <2>3 DEF At
    <3>2. QED BY <1>3, <1>4, <2>2, <2>3, <3>1, FlatsStart DEF FlatInv
  <2>4. NoFile' = NoFile
    BY Zenon DEF NoFile
  <2>5. QED BY Zenon, <2>1, <2>2, <2>3, <2>4 DEF FlatInv
<1>6. CASE phase \notin {"coff2noff", "AddrSpace", "coff2flat"}
  <2>1. phase' \notin {"coff2noff", "AddrSpace", "coff2flat"}
    BY <1>2, <1>6 DEF HandsOver
  <2>2. QED BY Zenon, <1>2, <1>3, <1>6, <2>1 DEF FlatInv
<1>7. CASE phase = "coff2flat"
  <2>1. Flats(flat, At) /\ section <= Len(Sections) + 1
    BY Zenon, <1>7 DEF FlatInv
  <2>2. CASE GiveUpFlat
    BY Zenon, <2>2 DEF GiveUpFlat, Enter, FlatInv
  <2>3. CASE UNCHANGED coffVars
    <3>1. At' = At /\ flat' = flat /\ phase' = phase /\ section' = section
      BY Zenon, <2>3 DEF At, coffVars
    <3>2. QED BY Zenon, <1>3, <1>7, <2>1, <3>1 DEF FlatInv
  <2>4. CASE FlatHeaders /\ ~GiveUpFlat
    <3>1. phase' = phase /\ section = 0 /\ section' = 1 /\ flat' = flat
      BY <2>4 DEF FlatHeaders
    <3>2. At' = At
      BY Zenon, <3>1 DEF At
    <3>3. QED BY <1>3, <1>4, <1>7, <2>1, <3>1, <3>2 DEF FlatInv
  <2>5. CASE FlatSection /\ ~GiveUpFlat
    <3>1. /\ phase' = phase /\ section' = section + 1 /\ section \in DOMAIN Sections
          /\ flat' = IF Sections[section].name \in Uninitialized THEN flat
                     ELSE Copy(Sections[section], Cardinality(DOMAIN flat), flat)
      BY Zenon, <2>5 DEF FlatSection, Uninitialized, This
    <3>2. At = section /\ At' = section + 1 /\ section + 1 <= Len(Sections) + 1
      BY <1>4, <3>1 DEF At
    <3>3. Flats(flat', section + 1)
      BY Zenon, <2>1, <3>1, <3>2, FlatsCopy, FlatsSkip
    <3>4. QED BY Zenon, <1>3, <1>7, <3>1, <3>2, <3>3 DEF FlatInv
  <2>6. CASE FlatStack /\ ~GiveUpFlat
    <3>1. /\ phase' = "load_program" /\ section = Len(Sections) + 1
          /\ flat' = Stacked(flat, Top)
      BY <2>6 DEF FlatStack, Enter, Stacked
    <3>2. At = Len(Sections) + 1
      BY <1>4, <3>1 DEF At
    <3>3. Linked => \A k \in DOMAIN Sections : \A a \in Occupies(Sections[k]) : flat'[a] = ByteAt(Sections[k], a)
      BY Zenon, <2>1, <3>1, <3>2, StackIsBehind
    <3>4. FlatOK'
      BY Zenon, <1>2, <3>3, SameFile DEF FlatOK, Linked
    <3>5. QED BY Zenon, <3>1, <3>4 DEF FlatInv
  <2>7. FlatHeaders \/ FlatSection \/ FlatStack \/ UNCHANGED coffVars
    BY Zenon, <1>7 DEF Next, ReadHeaders, EmptySection, Text, Data, Bss, Unknown, WriteHeader, AtSection, AddrSpace,
               LoadSection, Load, Loaded, load_section, disasm, OutHeaders, print_section
  <2>8. QED BY <2>2, <2>3, <2>4, <2>5, <2>6, <2>7
<1>8. QED BY Zenon, <1>5, <1>6, <1>7

-----------------------------------------------------------------------------
(* load_program, of the interpreter and of disasm.                            *)

Done(i) == {LoadOrder[j] : j \in 1 .. i}

(* The sections of the first i names are in memory m, and where nothing is to *)
(* be loaded it is still zero.                                                *)
LoadsAt(m, i, k) ==
    \A v \in Spans(Sections[k]) :
        /\ Sections[k].name \in Done(i) \ Uninitialized => v <= memoffset + MEMSIZE - 1
        /\ Sections[k].name \in Done(i) \cup Uninitialized /\ v \in memoffset .. memoffset + MEMSIZE - 1 =>
              m[v - memoffset] = VirtualByte(Sections[k], v)

Loads(m, i) ==
    WellFormed => /\ 0 .. MEMSIZE - 1 \subseteq DOMAIN m
                  /\ \A k \in DOMAIN Sections : LoadsAt(m, i, k)

(* The section of the next name goes to memory.                               *)
LoadOne(tool, m, i, m2) ==
    LET name == LoadOrder[i + 1]
        s    == Header(name)
        at   == s.vaddr - memoffset
    IN  \/ (Named(name) = {} \/ s.scnptr = 0) /\ m2 = m
        \/ /\ Named(name) # {} /\ s.scnptr # 0 /\ Fits(tool, s)
           /\ m2 = Over([p \in at .. at + s.size - 1 |-> getc(s.scnptr + (p - at))], m)

(* Nothing is loaded yet.                                                     *)
LEMMA LoadsStart == ASSUME Sane PROVE Loads(Zeroed(MEMSIZE), 0)
<1>1. MEMSIZE \in Nat /\ memoffset \in Nat
  BY DEF Sane, SizesAreNatural
<1>2. DOMAIN Zeroed(MEMSIZE) = 0 .. MEMSIZE - 1 /\ \A a \in 0 .. MEMSIZE - 1 : Zeroed(MEMSIZE)[a] = 0
  BY DEF Zeroed
<1>3. Done(0) = {}
  BY DEF Done
<1>4. ASSUME NEW v \in memoffset .. memoffset + MEMSIZE - 1 PROVE v - memoffset \in 0 .. MEMSIZE - 1
  BY <1>1
<1>5. ASSUME NEW k \in DOMAIN Sections PROVE LoadsAt(Zeroed(MEMSIZE), 0, k)
  BY Zenon, <1>2, <1>3, <1>4 DEF LoadsAt, VirtualByte
<1>6. QED BY Zenon, <1>2, <1>5 DEF Loads

(* Names are unique, so the first section of a name is the section.           *)
LEMMA HeaderIs ==
    ASSUME Sane, WellFormed, NEW k \in DOMAIN Sections
    PROVE  Named(Sections[k].name) = {k} /\ Header(Sections[k].name) = Sections[k]
<1>1. Named(Sections[k].name) = {k}
  BY Zenon DEF Named, WellFormed
<1>2. k <= k
  BY SectionTypes
<1>3. (CHOOSE n \in {k} : \A j \in {k} : n <= j) = k
  BY <1>2
<1>4. QED BY Zenon, <1>1, <1>3 DEF Header

(* A section that is not of the next name is not disturbed.                   *)
LEMMA LoadElsewhere ==
    ASSUME Sane, WellFormed, NEW m, NEW m2, NEW tool, NEW i \in Nat, LoadOne(tool, m, i, m2),
           0 .. MEMSIZE - 1 \subseteq DOMAIN m,
           NEW j \in DOMAIN Sections, LoadsAt(m, i, j), Sections[j].name # LoadOrder[i + 1]
    PROVE  LoadsAt(m2, i + 1, j)
<1>1. Done(i + 1) = Done(i) \cup {LoadOrder[i + 1]}
  <2>1. 1 .. i + 1 = (1 .. i) \cup {i + 1}
    OBVIOUS
  <2>2. QED BY <2>1, Zenon DEF Done
<1>2. ASSUME NEW v \in Spans(Sections[j]), v \in memoffset .. memoffset + MEMSIZE - 1
      PROVE  m2[v - memoffset] = m[v - memoffset]
  <2>1. CASE m2 = m
    BY Zenon, <2>1
  <2>2. CASE m2 # m
    <3> DEFINE name == LoadOrder[i + 1]
               s    == Header(name)
               at   == s.vaddr - memoffset
               w    == [p \in at .. at + s.size - 1 |-> getc(s.scnptr + (p - at))]
    <3>1. Named(name) # {} /\ m2 = Over(w, m)
      BY Zenon, <2>2 DEF LoadOne
    <3>2. PICK k \in Named(name) : TRUE
      BY Zenon, <3>1
    <3>3. k \in DOMAIN Sections /\ Sections[k].name = name /\ k # j
      BY Zenon, <3>2 DEF Named
    <3>4. s = Sections[k]
      BY Zenon, <3>3, HeaderIs
    <3>5. s.vaddr \in Nat /\ s.size \in Nat /\ MEMSIZE \in Nat /\ memoffset \in Nat
      BY Zenon, <3>3, <3>4, SectionTypes DEF Sane, SizesAreNatural
    <3>6. v \notin s.vaddr .. s.vaddr + s.size - 1
      BY Zenon, <3>3, <3>4 DEF WellFormed, Spans
    <3>7. v - memoffset \notin DOMAIN w
      <4>1. DOMAIN w = s.vaddr - memoffset .. (s.vaddr - memoffset) + s.size - 1
        BY Zenon
      <4>2. v \in Nat
        BY ONLY <1>2, <3>5
      <4>3. QED BY ONLY <3>5, <3>6, <4>1, <4>2
    <3>8. v - memoffset \in DOMAIN m
      <4>1. v - memoffset \in 0 .. MEMSIZE - 1
        BY <1>2, <3>5
      <4>2. QED BY Zenon, <4>1
    <3> HIDE DEF w, at
    <3>9. QED BY ONLY Zenon, <3>1, <3>7, <3>8, OverOut
  <2>3. QED BY Zenon, <2>1, <2>2
<1>3. QED BY Zenon, <1>1, <1>2 DEF LoadsAt

(* The one of that name is loaded, unless there is nothing of it in the file. *)
LEMMA LoadHere ==
    ASSUME Sane, WellFormed, NEW m, NEW m2, NEW tool, NEW i \in Nat, LoadOne(tool, m, i, m2),
           NEW k \in DOMAIN Sections, LoadsAt(m, i, k), Sections[k].name = LoadOrder[i + 1]
    PROVE  LoadsAt(m2, i + 1, k)
<1> DEFINE s == Sections[k]
<1>1. Named(LoadOrder[i + 1]) = {k} /\ Header(LoadOrder[i + 1]) = s
  BY Zenon, HeaderIs
<1>2. /\ s.vaddr \in Nat /\ s.size \in Nat /\ s.scnptr \in Nat /\ coff.length \in Nat
      /\ MEMSIZE \in Nat /\ memoffset \in Nat
  BY Zenon, SectionTypes DEF Sane, SizesAreNatural
<1>3. CASE s.scnptr = 0
  <2>1. m2 = m
    BY Zenon, <1>1, <1>3 DEF LoadOne
  <2>2. s.name \in Uninitialized \/ s.size = 0
    BY Zenon, <1>3 DEF WellFormed
  <2>3. CASE s.size = 0
    <3>1. Spans(s) = {}
      BY <1>2, <2>3 DEF Spans
    <3>2. QED BY Zenon, <3>1 DEF LoadsAt
  <2>4. CASE s.name \in Uninitialized
    BY Zenon, <2>1, <2>4 DEF LoadsAt
  <2>5. QED BY <2>2, <2>3, <2>4
<1>4. CASE s.scnptr # 0
  <2> DEFINE at == s.vaddr - memoffset
             w  == [p \in at .. at + s.size - 1 |-> getc(s.scnptr + (p - at))]
  <2>1. Fits(tool, s) /\ m2 = Over(w, m)
    BY Zenon, <1>1, <1>4 DEF LoadOne
  <2>2. s.name \notin Uninitialized /\ s.scnptr + s.size <= coff.length
    BY Zenon, <1>4 DEF WellFormed, InFile
  <2>3. ASSUME NEW v \in Spans(s)
        PROVE  v <= memoffset + MEMSIZE - 1 /\ m2[v - memoffset] = VirtualByte(s, v)
    <3>1. v \in s.vaddr .. s.vaddr + s.size - 1
      BY Zenon DEF Spans
    <3>2. v <= memoffset + MEMSIZE - 1
      <4>1. Fits(tool, s)
        BY Zenon, <2>1
      <4>2. QED BY ONLY <1>2, <3>1, <4>1 DEF Fits
    <3>3. s.scnptr + (v - s.vaddr) < coff.length
      BY ONLY <1>2, <2>2, <3>1
    <3>4. v - memoffset \in at .. at + s.size - 1 /\ (v - memoffset) - at = v - s.vaddr
      BY ONLY <1>2, <3>1
    <3>5. w[v - memoffset] = s.scnptr + (v - s.vaddr) /\ v - memoffset \in DOMAIN w
      <4> HIDE DEF at
      <4>1. QED BY Zenon, <3>3, <3>4 DEF getc
    <3>6. VirtualByte(s, v) = s.scnptr + (v - s.vaddr)
      BY Zenon, <2>2 DEF VirtualByte
    <3> HIDE DEF w
    <3>7. m2[v - memoffset] = w[v - memoffset]
      BY Zenon, <2>1, <3>5, OverIn
    <3>8. QED BY Zenon, <3>2, <3>5, <3>6, <3>7
  <2>4. QED BY Zenon, <2>3 DEF LoadsAt
<1>5. QED BY Zenon, <1>3, <1>4

(* One name more, for all sections.                                           *)
LEMMA LoadsNext ==
    ASSUME Sane, NEW m, NEW m2, NEW tool, NEW i \in Nat, Loads(m, i), LoadOne(tool, m, i, m2)
    PROVE  Loads(m2, i + 1)
<1> SUFFICES ASSUME WellFormed
             PROVE  0 .. MEMSIZE - 1 \subseteq DOMAIN m2 /\ \A k \in DOMAIN Sections : LoadsAt(m2, i + 1, k)
  BY Zenon DEF Loads
<1>1. 0 .. MEMSIZE - 1 \subseteq DOMAIN m /\ \A k \in DOMAIN Sections : LoadsAt(m, i, k)
  BY Zenon DEF Loads
<1>2. 0 .. MEMSIZE - 1 \subseteq DOMAIN m2
  <2>1. m2 = m \/ \E w : m2 = Over(w, m)
    BY Zenon DEF LoadOne
  <2>2. \A w : DOMAIN m \subseteq DOMAIN Over(w, m)
    BY DEF Over
  <2>3. QED BY <1>1, <2>1, <2>2
<1>3. QED BY Zenon, <1>1, <1>2, LoadElsewhere, LoadHere

Tools == {"load_program", "disasm"}
Earlier(tool) == IF tool = "disasm" THEN {"coff2noff", "AddrSpace", "coff2flat", "load_program"}
                 ELSE {"coff2noff", "AddrSpace", "coff2flat"}

LoadInvOf(tool) ==
    /\ phase \in Earlier(tool) => Loads(mem[tool], 0)
    /\ phase = tool => section <= 6 /\ Loads(mem[tool], section)
    /\ phase \notin Earlier(tool) \cup {tool} /\ tool \notin failed => Loads(mem[tool], 6)

LoadInv == DOMAIN mem = Tools /\ \A tool \in Tools : LoadInvOf(tool)

(* One step of load_program, whichever it is.                                 *)
LEMMA LoadStepOf ==
    ASSUME Sane, LoadInv, NEW tool \in Tools, NEW next, Load(tool, next), next \notin Earlier(tool) \cup {tool}
    PROVE  /\ DOMAIN mem' = Tools /\ LoadInvOf(tool)'
           /\ \A t \in Tools \ {tool} : mem'[t] = mem[t]
<1>1. section \in Nat /\ section < 6 /\ section + 1 \in Nat /\ coff' = coff /\ phase = tool
  BY ONLY Sane, Load(tool, next) DEF Sane, Load, LoadOrder
<1>2. Loads(mem[tool], section) /\ DOMAIN mem = Tools
  BY Zenon, <1>1 DEF LoadInv, LoadInvOf
<1>3. CASE section' = section + 1 /\ phase' = phase /\ LoadOne(tool, mem[tool], section, mem'[tool])
           /\ (mem' = mem \/ \E m : mem' = [mem EXCEPT ![tool] = m])
  <2>1. Loads(mem'[tool], section + 1)
    BY Zenon, <1>1, <1>2, <1>3, LoadsNext
  <2>2. Loads(mem[tool], section)'
    BY Zenon, <1>1, <1>3, <2>1, SameFile DEF Loads, LoadsAt, Spans, VirtualByte
  <2>3. tool \notin Earlier(tool) /\ section' <= 6
    BY <1>1, <1>3 DEF Tools, Earlier
  <2>4. LoadInvOf(tool)'
    BY Zenon, <1>1, <1>3, <2>2, <2>3 DEF LoadInvOf, Earlier
  <2>5. QED BY Zenon, <1>2, <1>3, <2>4
<1>4. CASE phase' = next /\ tool \in failed' /\ mem' = mem
  BY Zenon, <1>2, <1>4 DEF LoadInvOf, Earlier, Tools
<1>5. QED
  <2> DEFINE name == LoadOrder[section + 1]
             s    == Header(name)
             at   == s.vaddr - memoffset
             w    == [p \in at .. at + s.size - 1 |-> getc(s.scnptr + (p - at))]
  <2>1. CASE coff.magic /\ (Named(name) = {} \/ s.scnptr = 0)
    <3>1. section' = section + 1 /\ phase' = phase /\ mem' = mem
      BY Zenon, <2>1 DEF Load
    <3>2. LoadOne(tool, mem[tool], section, mem'[tool])
      BY Zenon, <2>1, <3>1 DEF LoadOne
    <3>3. QED BY Zenon, <1>3, <3>1, <3>2
  <2>2. CASE /\ ~(coff.magic /\ (Named(name) = {} \/ s.scnptr = 0)) /\ coff.magic /\ Fits(tool, s)
             /\ section' = section + 1 /\ phase' = phase /\ mem' = [mem EXCEPT ![tool] = Over(w, mem[tool])]
    <3>1. mem'[tool] = Over(w, mem[tool])
      BY <1>2, <2>2
    <3>2. LoadOne(tool, mem[tool], section, mem'[tool])
      BY <2>2, <3>1, Zenon DEF LoadOne
    <3>3. QED BY Zenon, <1>3, <2>2, <3>2
  <2>3. CASE phase' = next /\ failed' = failed \cup {tool} /\ mem' = mem
    BY <1>4, <2>3
  <2>4. QED BY Zenon, <2>1, <2>2, <2>3 DEF Load, Enter

(* Where nothing is loaded, all is as before.                                 *)
LEMMA LoadIdle ==
    ASSUME LoadInv, Kept, NEW t \in Tools, mem'[t] = mem[t],
           \/ phase # t
           \/ phase' = phase /\ section' = section
           \/ section = 6 /\ phase' \notin Earlier(t) \cup {t}
    PROVE  LoadInvOf(t)'
<1>1. coff' = coff /\ failed \subseteq failed' /\ HandsOver(phase, phase') /\ (phase' # phase => section' = 0)
  BY Zenon DEF Kept
<1>3. ASSUME NEW i PROVE Loads(mem[t], i) => Loads(mem[t], i)'
  BY Zenon, <1>1, SameFile DEF Loads, LoadsAt, Spans, VirtualByte
<1>4. LoadInvOf(t)
  BY Zenon DEF LoadInv
<1>5. CASE phase \in Earlier(t)
  <2>1. phase' \in Earlier(t) \/ (phase' = t /\ section' = 0)
    BY Zenon, <1>1, <1>5 DEF HandsOver, Earlier, Tools
  <2>2. Loads(mem[t], 0)'
    BY Zenon, <1>4, <1>5, <1>3 DEF LoadInvOf
  <2>3. QED BY <2>1, <2>2 DEF LoadInvOf, Earlier, Tools
<1>6. CASE phase = t
  <2>1. Loads(mem[t], section) /\ section <= 6
    BY Zenon, <1>4, <1>6 DEF LoadInvOf
  <2>2. CASE phase' = phase /\ section' = section
    <3>1. Loads(mem[t], section)'
      BY Zenon, <1>1, <2>1, <2>2, SameFile DEF Loads, LoadsAt, Spans, VirtualByte
    <3>2. QED BY Zenon, <1>6, <2>1, <2>2, <3>1 DEF LoadInvOf, Earlier, Tools
  <2>3. CASE section = 6 /\ phase' \notin Earlier(t) \cup {t}
    <3>1. Loads(mem[t], 6)'
      BY Zenon, <1>3, <2>1, <2>3
    <3>2. QED BY Zenon, <2>3, <3>1 DEF LoadInvOf, Earlier
  <2>4. QED BY Zenon, <1>6, <2>2, <2>3
<1>7. CASE phase \notin Earlier(t) \cup {t}
  <2>1. phase' \notin Earlier(t) \cup {t}
    BY Zenon, <1>1, <1>7 DEF HandsOver, Earlier, Tools
  <2>2. t \notin failed' => Loads(mem[t], 6)'
    BY Zenon, <1>1, <1>3, <1>4, <1>7 DEF LoadInvOf
  <2>3. QED BY Zenon, <2>1, <2>2 DEF LoadInvOf, Earlier
<1>8. QED BY Zenon, <1>5, <1>6, <1>7

(* Each tool's memory fills as its names are done.                            *)
LEMMA LoadStep == ASSUME Sane, LoadInv, [Next]_coffVars PROVE LoadInv'
<1>1. Kept
  BY StepKeeps
<1>2. CASE LoadSection
  <2>1. "load_program" \in Tools /\ "disasm" \notin Earlier("load_program") \cup {"load_program"} /\ phase = "load_program"
    BY Zenon, <1>2 DEF Tools, Earlier, LoadSection, Load
  <2>2. DOMAIN mem' = Tools /\ LoadInvOf("load_program")' /\ mem'["disasm"] = mem["disasm"]
    BY Zenon, <1>2, <2>1, LoadStepOf DEF LoadSection, Tools
  <2>3. LoadInvOf("disasm")'
    BY Zenon, <1>1, <2>1, <2>2, LoadIdle DEF Tools
  <2>4. QED BY Zenon, <2>2, <2>3 DEF LoadInv, Tools
<1>3. CASE load_section
  <2>1. "disasm" \in Tools /\ "out" \notin Earlier("disasm") \cup {"disasm"} /\ phase = "disasm"
    BY Zenon, <1>3 DEF Tools, Earlier, load_section, Load
  <2>2. DOMAIN mem' = Tools /\ LoadInvOf("disasm")' /\ mem'["load_program"] = mem["load_program"]
    BY Zenon, <1>3, <2>1, LoadStepOf DEF load_section, Tools
  <2>3. LoadInvOf("load_program")'
    BY Zenon, <1>1, <2>1, <2>2, LoadIdle DEF Tools
  <2>4. QED BY Zenon, <2>2, <2>3 DEF LoadInv, Tools
<1>4. CASE ~LoadSection /\ ~load_section
  <2>1. mem' = mem
    BY Zenon, <1>4 DEF Next, ReadHeaders, EmptySection, Text, Data, Bss, Unknown, WriteHeader, CopySegment, GiveUpNoff,
               AddrSpace, FlatHeaders, FlatSection, FlatStack, GiveUpFlat, Loaded, disasm,
               OutHeaders, print_section, coffVars
  <2>2. ASSUME NEW t \in Tools
        PROVE  \/ phase # t
               \/ phase' = phase /\ section' = section
               \/ section = 6 /\ phase' \notin Earlier(t) \cup {t}
    BY <1>4 DEF Next, ReadHeaders, EmptySection, Text, Data, Bss, Unknown, WriteHeader, AtSection,
               AddrSpace, FlatHeaders, FlatSection, FlatStack, Loaded, disasm, LoadOrder, Enter,
               OutHeaders, print_section, coffVars, Tools, Earlier
  <2>3. QED BY Zenon, <1>1, <2>1, <2>2, LoadIdle DEF LoadInv
<1>5. QED BY Zenon, <1>2, <1>3, <1>4

-----------------------------------------------------------------------------
(* disasm and out: the listings.                                              *)

(* A line: an address and the word there.                                     *)
Line == Nat \X [0 .. 3 -> Nat]

(* Words of four bytes.                                                       *)
LEMMA WordAndByte ==
    ASSUME NEW d \in Nat
    PROVE  d \div 4 \in Nat /\ d % 4 \in 0 .. 3 /\ d = 4 * (d \div 4) + (d % 4)
OBVIOUS

(* A listing shows what its parts show.                                       *)
LEMMA SeenBoth ==
    ASSUME NEW p \in Seq(Line), NEW q \in Seq(Line)
    PROVE  Seen(p \o q) = Seen(p) \cup Seen(q)
<1> DEFINE r == p \o q
<1>1. /\ r \in Seq(Line) /\ Len(p) \in Nat /\ Len(q) \in Nat
      /\ DOMAIN p = 1 .. Len(p) /\ DOMAIN q = 1 .. Len(q) /\ DOMAIN r = 1 .. Len(p) + Len(q)
      /\ \A k \in 1 .. Len(p) : r[k] = p[k]
      /\ \A k \in 1 .. Len(q) : r[Len(p) + k] = q[k]
  OBVIOUS
<1> HIDE DEF r
<1>2. ASSUME NEW k \in DOMAIN r PROVE k \in DOMAIN p \/ \E j \in DOMAIN q : k = Len(p) + j
  <2>1. k \in DOMAIN p \/ (k - Len(p) \in DOMAIN q /\ k = Len(p) + (k - Len(p)))
    BY <1>1
  <2>2. QED BY Zenon, <2>1
<1>3. \A j \in DOMAIN q : Len(p) + j \in DOMAIN r
  BY <1>1
<1>4. \A k \in DOMAIN p : k \in DOMAIN r
  BY <1>1
<1>5. ASSUME NEW x \in Seen(r) PROVE x \in Seen(p) \cup Seen(q)
  <2>1. PICK k \in DOMAIN r, b \in 0 .. 3 : x = <<r[k][1] + b, r[k][2][b]>>
    BY DEF Seen
  <2>2. CASE k \in DOMAIN p
    <3>1. r[k] = p[k]
      BY Zenon, <1>1, <2>2
    <3>2. QED BY ONLY <2>1, <2>2, <3>1 DEF Seen
  <2>3. CASE \E j \in DOMAIN q : k = Len(p) + j
    <3>1. PICK j \in DOMAIN q : k = Len(p) + j
      BY Zenon, <2>3
    <3>2. r[k] = q[j]
      BY Zenon, <1>1, <3>1
    <3>3. QED BY <2>1, <3>2 DEF Seen
  <2>4. QED BY Zenon, <1>2, <2>2, <2>3
<1>6. ASSUME NEW x \in Seen(p) PROVE x \in Seen(r)
  <2>1. PICK k \in DOMAIN p, b \in 0 .. 3 : x = <<p[k][1] + b, p[k][2][b]>>
    BY DEF Seen
  <2>2. r[k] = p[k] /\ k \in DOMAIN r
    BY Zenon, <1>1, <1>4
  <2>3. QED BY ONLY <2>1, <2>2 DEF Seen
<1>7. ASSUME NEW x \in Seen(q) PROVE x \in Seen(r)
  <2>1. PICK k \in DOMAIN q, b \in 0 .. 3 : x = <<q[k][1] + b, q[k][2][b]>>
    BY DEF Seen
  <2>2. r[Len(p) + k] = q[k] /\ Len(p) + k \in DOMAIN r
    BY Zenon, <1>1, <1>3
  <2>3. QED BY ONLY <2>1, <2>2 DEF Seen
<1>8. QED BY Zenon, <1>5, <1>6, <1>7 DEF r

Part(s) == [j \in DOMAIN Contents(s) |-> <<s.vaddr + 4 * (j - 1), Contents(s)[j]>>]
Count(s) == IF s.scnptr = 0 THEN 0 ELSE s.size \div 4

Word(q) == [b \in 0 .. 3 |-> IF q + b < coff.length THEN q + b ELSE 0]

(* The words that out reads.                                                  *)
LEMMA WordIs ==
    ASSUME NEW q \in Nat
    PROVE  Word(q) \in [0 .. 3 -> Nat] /\ \A b \in 0 .. 3 : q + b < coff.length => Word(q)[b] = q + b
<1>1. \A b \in 0 .. 3 : q + b \in Nat
  OBVIOUS
<1>2. QED BY <1>1 DEF Word

(* What out lists of one section.                                             *)
LEMMA PartIs ==
    ASSUME Sane, NEW k \in DOMAIN Sections
    PROVE  LET s == Sections[k]
           IN  /\ Part(s) \in Seq(Line) /\ Count(s) \in Nat /\ DOMAIN Part(s) = 1 .. Count(s)
               /\ \A j \in 1 .. Count(s) : \A b \in 0 .. 3 :
                     /\ Part(s)[j][1] = s.vaddr + 4 * (j - 1)
                     /\ s.scnptr + 4 * (j - 1) + b < coff.length => Part(s)[j][2][b] = s.scnptr + 4 * (j - 1) + b
<1> DEFINE s == Sections[k]
<1>1. s.vaddr \in Nat /\ s.size \in Nat /\ s.scnptr \in Nat /\ coff.length \in Nat
  BY Zenon, SectionTypes
<1>2. Count(s) \in Nat
  <2>1. s.size \div 4 \in Nat
    BY Zenon, <1>1, WordAndByte
  <2>2. QED BY Zenon, <2>1 DEF Count
<1>3. DOMAIN Contents(s) = 1 .. Count(s)
  BY Zenon DEF Contents, Count
<1>4. ASSUME NEW j \in 1 .. Count(s)
      PROVE  Part(s)[j] = <<s.vaddr + 4 * (j - 1), Word(s.scnptr + 4 * (j - 1))>>
  <2>1. Part(s)[j] = <<s.vaddr + 4 * (j - 1), Contents(s)[j]>>
    BY Zenon, <1>3 DEF Part
  <2>2. Contents(s)[j] = Word(s.scnptr + 4 * (j - 1))
    BY Zenon DEF Contents, Count, Word
  <2>3. QED BY Zenon, <2>1, <2>2
<1>5. ASSUME NEW j \in 1 .. Count(s)
      PROVE  /\ Part(s)[j] \in Line
             /\ \A b \in 0 .. 3 :
                  /\ Part(s)[j][1] = s.vaddr + 4 * (j - 1)
                  /\ s.scnptr + 4 * (j - 1) + b < coff.length => Part(s)[j][2][b] = s.scnptr + 4 * (j - 1) + b
  <2>1. s.vaddr + 4 * (j - 1) \in Nat /\ s.scnptr + 4 * (j - 1) \in Nat
    BY <1>1, <1>2
  <2>2. PICK x \in Nat, y \in Nat : x = s.vaddr + 4 * (j - 1) /\ y = s.scnptr + 4 * (j - 1)
    BY Zenon, <2>1
  <2>3. Part(s)[j] = <<x, Word(y)>>
    BY Zenon, <1>4, <2>2
  <2>4. Word(y) \in [0 .. 3 -> Nat] /\ \A b \in 0 .. 3 : y + b < coff.length => Word(y)[b] = y + b
    BY Zenon, WordIs
  <2>5. Part(s)[j] \in Line /\ Part(s)[j][1] = x /\ Part(s)[j][2] = Word(y)
    BY <2>3, <2>4 DEF Line
  <2>6. QED BY Zenon, <2>2, <2>4, <2>5
<1>6. Part(s) \in Seq(Line) /\ DOMAIN Part(s) = 1 .. Count(s)
  <2>1. Part(s) = [j \in 1 .. Count(s) |-> Part(s)[j]]
    BY <1>3 DEF Part
  <2>2. Part(s) \in [1 .. Count(s) -> Line]
    BY <1>5, <2>1
  <2>3. PICK n \in Nat : n = Count(s)
    BY <1>2
  <2>4. Part(s) \in [1 .. n -> Line]
    BY Zenon, <2>2, <2>3
  <2>5. QED BY <2>1, <2>3, <2>4
<1>7. QED BY Zenon, <1>2, <1>5, <1>6

(* The words of a section are shown with their addresses, and an              *)
(* uninitialized one has none.                                                *)
LEMMA PartShows ==
    ASSUME Sane, WellFormed, NEW k \in DOMAIN Sections
    PROVE  Seen(Part(Sections[k])) = IF k \in Initialized THEN Words(k) ELSE {}
<1> DEFINE s == Sections[k]
           P == Part(s)
<1>1. s.vaddr \in Nat /\ s.size \in Nat /\ s.scnptr \in Nat /\ coff.length \in Nat
  BY Zenon, SectionTypes
<1>2. /\ Count(s) \in Nat /\ DOMAIN P = 1 .. Count(s)
      /\ \A j \in 1 .. Count(s) : \A b \in 0 .. 3 :
            /\ P[j][1] = s.vaddr + 4 * (j - 1)
            /\ s.scnptr + 4 * (j - 1) + b < coff.length => P[j][2][b] = s.scnptr + 4 * (j - 1) + b
  BY Zenon, PartIs
<1> HIDE DEF P
<1>3. CASE s.name \in Uninitialized
  <2>1. Count(s) = 0
    BY Zenon, <1>3 DEF WellFormed, Count
  <2>2. DOMAIN P = {}
    BY <1>2, <2>1
  <2>3. Seen(P) = {}
    BY <2>2 DEF Seen
  <2>4. QED BY Zenon, <1>3, <2>3 DEF Initialized, P
<1>4. CASE s.name \notin Uninitialized
  <2>1. PICK x \in Nat, l \in Nat, f \in Nat : x = s.vaddr /\ l = s.size /\ f = s.scnptr
    BY Zenon, <1>1
  <2>2. f + l <= coff.length /\ (l # 0 => f # 0)
    BY Zenon, <1>4, <2>1 DEF WellFormed, InFile
  <2>3. Count(s) = l \div 4 /\ l \div 4 \in Nat /\ l % 4 \in 0 .. 3 /\ l = 4 * (l \div 4) + (l % 4)
    BY <2>1, <2>2, WordAndByte DEF Count
  <2>4. PICK q \in Nat, r \in 0 .. 3 : q = Count(s) /\ r = l % 4 /\ l = 4 * q + r
    BY Zenon, <2>3
  <2>a. l - r = 4 * q
    BY <2>4
  <2>5. ASSUME NEW j \in 1 .. q, NEW b \in 0 .. 3
        PROVE  P[j][1] + b = x + (4 * (j - 1) + b) /\ P[j][2][b] = f + (4 * (j - 1) + b)
    <3>1. f + 4 * (j - 1) + b < coff.length
      BY <1>1, <2>2, <2>4
    <3>2. P[j][1] = x + 4 * (j - 1) /\ P[j][2][b] = f + 4 * (j - 1) + b
      BY Zenon, <1>2, <2>1, <2>4, <3>1
    <3>3. QED BY <3>2
  <2>6. ASSUME NEW a \in Nat PROVE VirtualByte(s, a) = f + (a - x)
    BY Zenon, <1>4, <2>1 DEF VirtualByte
  <2> DEFINE At2 == {y \in Spans(s) : y - s.vaddr < s.size - (s.size % 4)}
  <2>7. Words(k) = {<<a, VirtualByte(s, a)>> : a \in At2}
    BY DEF Words
  <2>8. At2 = {y \in x .. x + l - 1 : y - x < l - r}
    BY Zenon, <2>1, <2>4 DEF Spans
  <2> HIDE DEF At2
  <2>9. ASSUME NEW w \in Seen(P) PROVE w \in Words(k)
    <3>a. PICK j \in DOMAIN P, b \in 0 .. 3 : w = <<P[j][1] + b, P[j][2][b]>>
      BY DEF Seen
    <3>1. j \in 1 .. q /\ w = <<P[j][1] + b, P[j][2][b]>>
      BY Zenon, <1>2, <2>4, <3>a
    <3>b. PICK d \in Nat : d = 4 * (j - 1) + b /\ d < 4 * q
      BY <3>1
    <3>2. PICK a \in Nat : a = x + (4 * (j - 1) + b)
      BY <3>b
    <3>c. a = x + d /\ d < l - r /\ d < l
      BY <2>4, <2>a, <3>b, <3>2
    <3>3. a \in At2
      <4>1. a \in x .. x + l - 1 /\ a - x < l - r
        BY <3>c
      <4>2. QED BY Zenon, <2>8, <4>1
    <3>4. VirtualByte(s, a) = f + (4 * (j - 1) + b)
      <4>1. a - x = d
        BY <3>c
      <4>2. QED BY Zenon, <2>6, <3>b, <4>1
    <3>5. w = <<a, VirtualByte(s, a)>>
      BY Zenon, <2>5, <3>1, <3>2, <3>4
    <3>6. QED BY Zenon, <2>7, <3>3, <3>5
  <2>10. ASSUME NEW w \in Words(k) PROVE w \in Seen(P)
    <3>1. PICK a \in At2 : w = <<a, VirtualByte(s, a)>>
      BY Zenon, <2>7
    <3>2. a \in Nat /\ a - x \in Nat /\ a - x < l - r
      BY <2>8
    <3>3. PICK d \in Nat : d = a - x
      BY Zenon, <3>2
    <3>4. PICK i \in Nat, b \in 0 .. 3 : d = 4 * i + b
      BY Zenon, WordAndByte
    <3>5. i + 1 \in 1 .. q /\ (i + 1) - 1 = i
      <4>1. 4 * i + b < 4 * q
        BY <2>a, <3>2, <3>3, <3>4
      <4>2. QED BY <4>1
    <3>6. P[i + 1][1] + b = x + (4 * i + b) /\ P[i + 1][2][b] = f + (4 * i + b)
      BY <2>5, <3>5
    <3>7. w = <<P[i + 1][1] + b, P[i + 1][2][b]>>
      BY <2>6, <3>1, <3>2, <3>3, <3>4, <3>6
    <3>8. i + 1 \in DOMAIN P
      BY Zenon, <1>2, <2>4, <3>5
    <3>9. QED BY <3>7, <3>8 DEF Seen
  <2>11. Seen(P) = Words(k)
    BY Zenon, <2>9, <2>10
  <2>12. QED BY Zenon, <1>4, <2>11 DEF Initialized, P
<1>5. QED BY Zenon, <1>3, <1>4

Shown(n) == UNION {Words(k) : k \in {j \in Initialized : j < n}}

(* A listing of the sections before n.                                        *)
Outs(list, n) == list \in Seq(Line) /\ (WellFormed => Seen(list) = Shown(n))

(* Nothing is listed yet.                                                     *)
LEMMA OutsStart == ASSUME Sane PROVE Outs(<<>>, 1)
<1>1. \A k \in DOMAIN <<>> : FALSE
  OBVIOUS
<1>2. Seen(<<>>) = {}
  BY <1>1 DEF Seen
<1>3. {j \in Initialized : j < 1} = {}
  BY SectionTypes DEF Initialized
<1>4. Shown(1) = {}
  BY <1>3 DEF Shown
<1>5. <<>> \in Seq(Line)
  OBVIOUS
<1>6. QED BY Zenon, <1>2, <1>4, <1>5 DEF Outs

(* One section more.                                                          *)
LEMMA OutsNext ==
    ASSUME Sane, NEW list, NEW n \in DOMAIN Sections, Outs(list, n)
    PROVE  Outs(list \o Part(Sections[n]), n + 1)
<1>1. list \in Seq(Line) /\ Part(Sections[n]) \in Seq(Line)
  BY Zenon, PartIs DEF Outs
<1>2. Seen(list \o Part(Sections[n])) = Seen(list) \cup Seen(Part(Sections[n]))
  BY Zenon, <1>1, SeenBoth
<1>3. \A j \in DOMAIN Sections : j < n + 1 <=> j < n \/ j = n
  BY SectionTypes
<1>4. Shown(n + 1) = Shown(n) \cup (IF n \in Initialized THEN Words(n) ELSE {})
  <2>1. {j \in Initialized : j < n + 1} = {j \in Initialized : j < n} \cup (IF n \in Initialized THEN {n} ELSE {})
    BY <1>3 DEF Initialized
  <2>2. QED BY Zenon, <2>1 DEF Shown
<1>5. list \o Part(Sections[n]) \in Seq(Line)
  BY <1>1
<1>6. QED BY Zenon, <1>2, <1>4, <1>5, PartShows DEF Outs

(* All are there in the end.                                                  *)
LEMMA OutsAll ==
    ASSUME Sane, WellFormed, NEW list, Outs(list, Len(Sections) + 1)
    PROVE  Seen(list) = UNION {Words(k) : k \in Initialized}
<1>1. {j \in Initialized : j < Len(Sections) + 1} = Initialized
  BY SectionTypes DEF Initialized
<1>2. QED BY Zenon, <1>1 DEF Outs, Shown

(* The listing of the text.                                                   *)
Lists(list) ==
    WellFormed => \A k \in DOMAIN Sections : \A v \in Spans(Sections[k]) :
        Sections[k].name = ".text" /\ Sections[k].vaddr = memoffset =>
            <<v, VirtualByte(Sections[k], v)>> \in Seen(list)

Listing == [k \in 1 .. (IF Named(".text") = {} THEN 0 ELSE divRoundUp(Header(".text").size, 4)) |->
               dis1(memoffset + 4 * (k - 1))]

(* disasm lists it from memoffset, by whole words and the last one too.       *)
LEMMA TextIsListed == ASSUME Sane, Loads(mem.disasm, 6) PROVE Lists(Listing)
<1> SUFFICES ASSUME WellFormed, NEW k \in DOMAIN Sections, NEW v \in Spans(Sections[k]),
                    Sections[k].name = ".text", Sections[k].vaddr = memoffset
             PROVE  <<v, VirtualByte(Sections[k], v)>> \in Seen(Listing)
  BY Zenon DEF Lists
<1>1. PICK l \in Nat : l = Sections[k].size
  BY Zenon, SectionTypes
<1>a. MEMSIZE \in Nat /\ memoffset \in Nat
  BY Zenon DEF Sane, SizesAreNatural
<1>2. PICK a \in Nat : a = v - memoffset /\ a < l /\ v = memoffset + a
  <2>1. v \in memoffset .. memoffset + l - 1
    BY Zenon, <1>1 DEF Spans
  <2>2. QED BY <1>1, <1>a, <2>1
<1>3. Named(".text") = {k} /\ Header(".text") = Sections[k]
  BY Zenon, HeaderIs
<1>4. a \in DOMAIN mem.disasm /\ mem.disasm[a] = VirtualByte(Sections[k], v)
  <2>1. ".text" \in Done(6) /\ ".text" \notin Uninitialized
    <3>1. LoadOrder[1] = ".text" /\ 1 \in 1 .. 6
      BY DEF LoadOrder
    <3>2. ".text" \in Done(6)
      BY Zenon, <3>1 DEF Done
    <3>3. QED BY Zenon, <3>2 DEF Uninitialized
  <2>2. v <= memoffset + MEMSIZE - 1
    BY Zenon, <2>1 DEF Loads, LoadsAt
  <2>3. v \in memoffset .. memoffset + MEMSIZE - 1 /\ a \in 0 .. MEMSIZE - 1
    BY <1>2, <1>a, <2>2
  <2>4. mem.disasm[v - memoffset] = VirtualByte(Sections[k], v) /\ 0 .. MEMSIZE - 1 \subseteq DOMAIN mem.disasm
    BY Zenon, <2>1, <2>3 DEF Loads, LoadsAt
  <2>5. QED BY Zenon, <1>2, <2>3, <2>4
<1>5. PICK i \in Nat, b \in 0 .. 3 : a = 4 * i + b
  BY Zenon, <1>2, WordAndByte
<1>6. i + 1 \in 1 .. divRoundUp(l, 4)
  <2>1. PICK n \in Nat : n = l + 4 - 1 /\ n = l + 3
    OBVIOUS
  <2>a. n \div 4 \in Nat /\ n % 4 \in 0 .. 3 /\ n = 4 * (n \div 4) + (n % 4)
    BY WordAndByte
  <2>b. divRoundUp(l, 4) = n \div 4
    BY Zenon, <2>1 DEF divRoundUp
  <2>2. PICK q \in Nat, r \in 0 .. 3 : q = divRoundUp(l, 4) /\ l + 3 = 4 * q + r
    BY Zenon, <2>1, <2>a, <2>b
  <2>3. 4 * i < 4 * q
    BY <1>2, <1>5, <2>2
  <2>4. i < q
    BY <2>3
  <2>5. QED BY <2>2, <2>4
<1>7. i + 1 \in DOMAIN Listing /\ Listing[i + 1] = dis1(memoffset + 4 * i)
  <2>1. Listing = [n \in 1 .. divRoundUp(l, 4) |-> dis1(memoffset + 4 * (n - 1))]
    BY Zenon, <1>1, <1>3 DEF Listing
  <2>2. (i + 1) - 1 = i
    OBVIOUS
  <2>3. QED BY Zenon, <1>6, <2>1, <2>2
<1>8. dis1(memoffset + 4 * i)[1] + b = v /\ dis1(memoffset + 4 * i)[2][b] = mem.disasm[a]
  <2>1. (memoffset + 4 * i) + b = v /\ ((memoffset + 4 * i) - memoffset) + b = a
    BY <1>2, <1>5, <1>a
  <2>2. fetch(a) = mem.disasm[a]
    BY Zenon, <1>4 DEF fetch
  <2>3. QED BY Zenon, <2>1, <2>2 DEF dis1
<1>9. <<v, VirtualByte(Sections[k], v)>> = <<Listing[i + 1][1] + b, Listing[i + 1][2][b]>>
  BY Zenon, <1>4, <1>7, <1>8
<1>10. QED BY ONLY b \in 0 .. 3, <1>7, <1>9 DEF Seen

LinesInv ==
    /\ DOMAIN lines = {"disasm", "out"}
    /\ phase \notin {"out", "done"} => lines.out = <<>>
    /\ phase \in {"out", "done"} /\ "disasm" \notin failed => Lists(lines.disasm)
    /\ phase = "out" => section <= Len(Sections) /\ Outs(lines.out, At)
    /\ phase = "done" /\ "out" \notin failed => Outs(lines.out, Len(Sections) + 1)

(* The listings mean the same as long as the file does.                       *)
LEMMA ListsStay ==
    ASSUME coff' = coff
    PROVE  /\ Lists(lines'.disasm) => Lists(lines.disasm)'
           /\ Outs(lines'.out, At') => Outs(lines.out, At)'
           /\ Outs(lines'.out, Len(Sections) + 1) => Outs(lines.out, Len(Sections) + 1)'
           /\ Len(Sections)' = Len(Sections)
<1>1. Sections' = Sections /\ (WellFormed' <=> WellFormed)
  BY Zenon, SameFile
<1>2. Lists(lines'.disasm) => Lists(lines.disasm)'
  <2>1. Seen(lines.disasm)' = Seen(lines'.disasm)
    BY ONLY DEF Seen
  <2>2. QED BY Zenon, <1>1, <2>1 DEF Lists, Spans, VirtualByte
<1>3. Initialized' = Initialized
  BY Zenon, <1>1 DEF Initialized
<1>4. ASSUME NEW k PROVE Words(k)' = Words(k)
  BY Zenon, <1>1 DEF Words, Spans, VirtualByte
<1>5. ASSUME NEW n PROVE Shown(n)' = Shown(n)
  BY Zenon, <1>3, <1>4 DEF Shown
<1>6. Shown(At)' = Shown(At') /\ Shown(Len(Sections) + 1)' = Shown(Len(Sections) + 1)
  BY Zenon, <1>1, <1>3, <1>4 DEF Shown
<1>7. Seen(lines.out)' = Seen(lines'.out)
  BY DEF Seen
<1>8. Outs(lines'.out, At') => Outs(lines.out, At)'
  BY Zenon, <1>1, <1>6, <1>7 DEF Outs
<1>9. Outs(lines'.out, Len(Sections) + 1) => Outs(lines.out, Len(Sections) + 1)'
  BY <1>1, <1>6, <1>7 DEF Outs
<1>10. QED BY <1>1, <1>2, <1>8, <1>9

(* Where nothing is listed.                                                   *)
LEMMA LinesIdle ==
    ASSUME Sane, LinesInv, Kept, lines' = lines,
           phase' \in {"out", "done"} => phase' = phase /\ section' = section /\ failed' = failed
    PROVE  LinesInv'
<1>1. coff' = coff /\ HandsOver(phase, phase')
  BY Zenon DEF Kept
<1>2. phase' \notin {"out", "done"} => phase \notin {"out", "done"}
  BY Zenon, <1>1 DEF HandsOver
<1>3. phase' \in {"out", "done"} => At' = At
  BY Zenon DEF At
<1>4. QED BY Zenon, <1>1, <1>2, <1>3, ListsStay DEF LinesInv

(* The listings grow section by section.                                      *)
LEMMA LinesStep == ASSUME Sane, LoadInv, LinesInv, [Next]_coffVars PROVE LinesInv'
<1>1. Kept
  BY StepKeeps
<1>2. coff' = coff /\ HandsOver(phase, phase')
  BY Zenon, <1>1 DEF Kept
<1>3. /\ Lists(lines'.disasm) => Lists(lines.disasm)'
      /\ Outs(lines'.out, At') => Outs(lines.out, At)'
      /\ Outs(lines'.out, Len(Sections) + 1) => Outs(lines.out, Len(Sections) + 1)'
      /\ Len(Sections)' = Len(Sections)
  BY Zenon, <1>2, ListsStay
<1>4. Len(Sections) \in Nat /\ DOMAIN Sections = 1 .. Len(Sections) /\ section \in Nat /\ DOMAIN lines = {"disasm", "out"}
  BY Zenon, SectionTypes DEF LinesInv
<1>5. CASE phase' = "out" /\ section' = 0 /\ lines'.out = <<>> /\ DOMAIN lines' = {"disasm", "out"}
           /\ ("disasm" \notin failed' => Lists(lines'.disasm))
  <2>1. At' = 1
    BY Zenon, <1>5 DEF At
  <2>2. Outs(lines'.out, At')
    BY <1>5, <2>1, OutsStart
  <2>3. section' <= Len(Sections)'
    BY ONLY <1>3, <1>4, <1>5
  <2>4. QED BY Zenon, <1>3, <1>5, <2>2, <2>3 DEF LinesInv
<1>6. CASE disasm
  <2>1. /\ phase' = "out" /\ section' = 0 /\ phase = "disasm" /\ section = 6
        /\ lines' = [lines EXCEPT !.disasm = Listing]
    BY <1>6 DEF disasm, Enter, LoadOrder, Listing
  <2>2. Loads(mem.disasm, 6)
    BY <2>1 DEF LoadInv, LoadInvOf, Tools
  <2>3. Lists(Listing)
    BY <2>2, TextIsListed
  <2>4. lines'.disasm = Listing /\ lines'.out = lines.out /\ DOMAIN lines' = DOMAIN lines
    BY <1>4, <2>1
  <2>5. lines.out = <<>>
    BY Zenon, <2>1 DEF LinesInv
  <2>6. QED BY <1>4, <1>5, <2>1, <2>3, <2>4, <2>5
<1>7. CASE load_section
  <2>1. phase = "disasm" /\ lines' = lines /\ (phase' = phase \/ (phase' = "out" /\ section' = 0 /\ "disasm" \in failed'))
    BY Zenon, <1>7 DEF load_section, Load, Enter
  <2>2. CASE phase' = phase
    BY <1>1, <2>1, <2>2, LinesIdle
  <2>3. CASE phase' = "out" /\ section' = 0 /\ "disasm" \in failed'
    BY Zenon, <1>4, <1>5, <2>1, <2>3 DEF LinesInv
  <2>4. QED BY Zenon, <2>1, <2>2, <2>3
<1>8. CASE OutHeaders
  <2>1. phase = "out" /\ section = 0 /\ lines' = lines /\ ("disasm" \notin failed' => "disasm" \notin failed)
    BY Zenon, <1>8 DEF OutHeaders
  <2>2. Outs(lines.out, 1) /\ ("disasm" \notin failed => Lists(lines.disasm)) /\ At = 1
    BY <2>1 DEF LinesInv, At
  <2>3. CASE phase' = "done" /\ "out" \in failed'
    BY Zenon, <1>3, <1>4, <2>1, <2>2, <2>3 DEF LinesInv
  <2>4. CASE phase' = "done" /\ Sections = <<>>
    <3>1. Len(Sections) + 1 = 1
      BY <2>4
    <3>2. QED BY Zenon, <1>3, <1>4, <2>1, <2>2, <2>4, <3>1 DEF LinesInv
  <2>5. CASE phase' = phase /\ section' = 1 /\ Sections # <<>>
    <3>1. At' = 1
      BY Zenon, <2>5 DEF At
    <3>2. 1 <= Len(Sections)
      <4>1. Sections \in Seq(Record)
        BY SectionTypes
      <4>2. QED BY <1>4, <2>5, <4>1
    <3>3. QED BY Zenon, <1>3, <1>4, <2>1, <2>2, <2>5, <3>1, <3>2 DEF LinesInv
  <2>6. QED BY Zenon, <1>8, <2>3, <2>4, <2>5 DEF OutHeaders, Enter
<1>9. CASE print_section
  <2>1. /\ phase = "out" /\ section \in DOMAIN Sections /\ failed' = failed
        /\ lines' = [lines EXCEPT !.out = @ \o Part(Sections[section])]
    BY <1>9 DEF print_section, Part, This
  <2>2. /\ lines'.out = lines.out \o Part(Sections[section]) /\ lines'.disasm = lines.disasm
        /\ DOMAIN lines' = DOMAIN lines
    BY <1>4, <2>1
  <2>3. At = section
    BY <1>4, <2>1 DEF At
  <2>4. Outs(lines'.out, section + 1) /\ ("disasm" \notin failed => Lists(lines.disasm))
    BY Zenon, <2>1, <2>2, <2>3, OutsNext DEF LinesInv
  <2>5. CASE section = Len(Sections) /\ phase' = "done"
    BY <1>3, <1>4, <2>1, <2>2, <2>4, <2>5 DEF LinesInv
  <2>6. CASE section # Len(Sections) /\ section' = section + 1 /\ phase' = phase
    <3>1. At' = section + 1 /\ section + 1 <= Len(Sections)
      BY <1>4, <2>1, <2>6 DEF At
    <3>2. QED BY <1>3, <1>4, <2>1, <2>2, <2>4, <2>6, <3>1 DEF LinesInv
  <2>7. QED BY <1>9, <2>5, <2>6 DEF print_section, Enter
<1>10. CASE ~disasm /\ ~load_section /\ ~OutHeaders /\ ~print_section
  <2>1. lines' = lines /\ (phase' \in {"out", "done"} => phase' = phase /\ section' = section /\ failed' = failed)
    BY Zenon, <1>10 DEF Next, ReadHeaders, EmptySection, Text, Data, Bss, Unknown, WriteHeader, CopySegment, GiveUpNoff,
               AtSection, AddrSpace, FlatHeaders, FlatSection, FlatStack, GiveUpFlat, LoadSection, Load, Loaded,
               Enter, coffVars
  <2>2. QED BY Zenon, <1>1, <2>1, LinesIdle
<1>11. QED BY Zenon, <1>6, <1>7, <1>8, <1>9, <1>10

-----------------------------------------------------------------------------
CoffInv == Sane /\ NoffInv /\ SpaceInv /\ FlatInv /\ LoadInv /\ LinesInv

(* The invariant holds when coff2noff starts,                                 *)
LEMMA CoffStarts == ASSUME Numbers, SizesAreNatural, Init PROVE CoffInv
<1>1. Sane
  BY Zenon DEF Init, Sane
<1>2. NoffInv
  BY <1>1, NoffInit
<1>3. SpaceInv
  BY Zenon DEF Init, SpaceInv
<1>4. FlatInv
  BY Zenon DEF Init, FlatInv
<1>5. LoadInv
  <2>1. mem = [load_program |-> Zeroed(MEMSIZE), disasm |-> Zeroed(MEMSIZE)] /\ phase = "coff2noff"
    BY Zenon DEF Init
  <2>2. DOMAIN mem = Tools /\ mem["load_program"] = Zeroed(MEMSIZE) /\ mem["disasm"] = Zeroed(MEMSIZE)
    BY Zenon, <2>1 DEF Tools
  <2>3. ASSUME NEW t \in Tools PROVE LoadInvOf(t)
    <3>1. Loads(mem[t], 0) /\ phase \in Earlier(t) /\ phase # t
      BY <1>1, <2>1, <2>2, LoadsStart DEF Tools, Earlier
    <3>2. QED BY Zenon, <3>1 DEF LoadInvOf
  <2>4. QED BY <2>2, <2>3 DEF LoadInv
<1>6. LinesInv
  BY Zenon DEF Init, LinesInv
<1>7. QED BY <1>1, <1>2, <1>3, <1>4, <1>5, <1>6 DEF CoffInv

(* and every step of every tool keeps it.                                     *)
LEMMA CoffStep == ASSUME CoffInv, [Next]_coffVars PROVE CoffInv'
<1>1. Kept
  BY StepKeeps
<1>2. QED BY <1>1, SaneStep, NoffStep, SpaceStep, FlatStep, LoadStep, LinesStep DEF CoffInv

(* What the tools have done when all are through.                             *)
LEMMA CoffInvSuffices == ASSUME CoffInv PROVE ImageIsLoaded
<1> SUFFICES ASSUME phase = "done" PROVE ImageIsLoaded
  BY Zenon DEF ImageIsLoaded
<1>1. noff.exists <=> "coff2noff" \notin failed
  BY Zenon DEF CoffInv, NoffInv
<1>2. noff.exists => noff.header # <<>>
  BY DEF CoffInv, NoffInv
<1>3. {"coff2noff", "AddrSpace"} \cap failed = {} => SpaceOK
  BY Zenon DEF CoffInv, SpaceInv
<1>4. "coff2flat" \notin failed => FlatOK
  BY Zenon DEF CoffInv, FlatInv
<1>5. "load_program" \notin failed => Loads(mem.load_program, 6)
  <2>1. LoadInvOf("load_program") /\ "done" \notin Earlier("load_program") \cup {"load_program"}
    BY Zenon DEF CoffInv, LoadInv, Tools, Earlier
  <2>2. QED BY <2>1 DEF LoadInvOf
<1>6. "disasm" \notin failed => Lists(lines.disasm)
  BY DEF CoffInv, LinesInv
<1>7. WellFormed /\ "out" \notin failed => Seen(lines.out) = UNION {Words(k) : k \in Initialized}
  BY Zenon, OutsAll DEF CoffInv, LinesInv
<1>8. Names = Done(6)
  <2>1. DOMAIN LoadOrder = 1 .. 6
    BY DEF LoadOrder
  <2>2. QED BY <2>1 DEF Names, Done
<1>9. ASSUME WellFormed, NEW k \in DOMAIN Sections, NEW a \in Occupies(Sections[k])
      PROVE  /\ {"coff2noff", "AddrSpace"} \cap failed = {} /\ a < space.numPages * PageSize =>
                   UserByte(a) = ByteAt(Sections[k], a)
             /\ "coff2flat" \notin failed /\ Contiguous /\ UninitializedLast => flat[a] = ByteAt(Sections[k], a)
  <2>1. {"coff2noff", "AddrSpace"} \cap failed = {} /\ a < space.numPages * PageSize =>
           UserByte(a) = ByteAt(Sections[k], a)
    BY Zenon, <1>3, <1>9 DEF SpaceOK
  <2>2. "coff2flat" \notin failed /\ Contiguous /\ UninitializedLast => flat[a] = ByteAt(Sections[k], a)
    BY Zenon, <1>4, <1>9 DEF FlatOK, Linked
  <2>3. QED BY Zenon, <2>1, <2>2
<1>a. ASSUME WellFormed, NEW k \in DOMAIN Sections, NEW v \in Spans(Sections[k])
      PROVE  /\ "load_program" \notin failed /\ Sections[k].name \in Names
                /\ v \in memoffset .. memoffset + MEMSIZE - 1 =>
                   mem.load_program[v - memoffset] = VirtualByte(Sections[k], v)
             /\ "disasm" \notin failed /\ Sections[k].name = ".text" /\ Sections[k].vaddr = memoffset =>
                   <<v, VirtualByte(Sections[k], v)>> \in Seen(lines.disasm)
  <2>1. "load_program" \notin failed /\ Sections[k].name \in Names /\ v \in memoffset .. memoffset + MEMSIZE - 1 =>
           mem.load_program[v - memoffset] = VirtualByte(Sections[k], v)
    BY Zenon, <1>5, <1>8, <1>a DEF Loads, LoadsAt
  <2>2. "disasm" \notin failed /\ Sections[k].name = ".text" /\ Sections[k].vaddr = memoffset =>
           <<v, VirtualByte(Sections[k], v)>> \in Seen(lines.disasm)
    BY Zenon, <1>6, <1>a DEF Lists
  <2>3. QED BY Zenon, <2>1, <2>2
<1>10. WellFormed /\ Contiguous /\ {"coff2noff", "AddrSpace"} \cap failed = {} =>
          space.stack + 16 = space.numPages * PageSize /\ space.stack + 16 >= Top + UserStackSize
  BY Zenon, <1>3 DEF SpaceOK
<1>11. QED BY Zenon, <1>1, <1>2, <1>7, <1>9, <1>a, <1>10 DEF ImageIsLoaded

-----------------------------------------------------------------------------
(* The facts about numbers, and the theorem.                                  *)
INSTANCE FiniteSetTheorems
INSTANCE WellFoundedInduction

(* A set of natural numbers has a least member.                               *)
LEMMA LeastMember == ASSUME NEW T \in SUBSET Nat, T # {} PROVE \E m \in T : \A n \in T : m <= n
<1>1. PICK m \in T : \A n \in T : ~(<<n, m>> \in OpToRel(<, Nat))
  BY NatLessThanWellFounded, WFMin, Zenon
<1>2. ASSUME NEW n \in T PROVE m <= n
  <2>1. n \in Nat /\ m \in Nat
    BY Zenon
  <2>2. ~(n < m)
    BY Zenon, <1>1, <2>1 DEF OpToRel
  <2>3. QED BY <2>1, <2>2
<1>3. QED BY Zenon, <1>2

(* An interval from m has as many members as its length.                      *)
LEMMA IntervalSize == ASSUME NEW m \in Nat, NEW n \in Nat PROVE Cardinality(m .. m + n - 1) = n
<1>1. m \in Int /\ m + n - 1 \in Int
  OBVIOUS
<1>2. Cardinality(m .. m + n - 1) = IF m > m + n - 1 THEN 0 ELSE (m + n - 1) - m + 1
  BY Zenon, <1>1, FS_Interval
<1>3. QED BY <1>2

(* Both facts hold.                                                           *)
LEMMA NumbersHold == Numbers
BY Zenon, LeastMember, IntervalSize DEF Numbers

(* Whatever the object file, and wherever a tool gives up, every tool that    *)
(* reports success has put each byte of each section that it can address      *)
(* where the file says: coff2noff with AddrSpace and coff2flat by physical    *)
(* address from 0, load_program, disasm and out by virtual address, the first *)
(* two from memoffset.                                                        *)
THEOREM ImageIsAlwaysLoaded == Spec => []ImageIsLoaded
<1>1. Init => CoffInv
  BY Zenon, CoffAssumption, NumbersHold, CoffStarts
<1>2. CoffInv /\ [Next]_coffVars => CoffInv'
  BY Zenon, CoffStep
<1>3. CoffInv => ImageIsLoaded
  BY CoffInvSuffices
<1>4. QED BY <1>1, <1>2, <1>3, PTL DEF Spec
=============================================================================
