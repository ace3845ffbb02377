------------------------------ MODULE MCMachine ------------------------------
(* The two simulators and the loaders of user programs, on small instances:   *)
(* a behaviour runs a text, or takes an object file through the tools.        *)
(* Words have 8 bits; there are four registers and two pages of four words.   *)
EXTENDS Coff

CONSTANTS W, NumGPRegs, Start

VARIABLES machine, text, exception, status

machineVars == <<machine, text, exception, status>>

Cpu == INSTANCE Mips
Sim == INSTANCE Simulators

-----------------------------------------------------------------------------
(* Texts: the instruction under test, and what it takes to see it land.       *)

Raw(op, rs, rt, rd, shamt, funct, imm, target) ==
    [op |-> op, rs |-> rs, rt |-> rt, rd |-> rd, shamt |-> shamt, funct |-> funct,
     imm |-> imm, target |-> target]
Special(funct, rs, rt, rd) == Raw(0, rs, rt, rd, 0, funct, 0, 0)
Immediate(op, rs, rt, imm) == Raw(op, rs, rt, 0, 0, 0, imm, 0)

Page(vpn, frame, valid, readOnly) ==
    [virtualPage |-> vpn, physicalPage |-> frame, valid |-> valid, readOnly |-> readOnly,
     use |-> FALSE, dirty |-> FALSE]
Straight == <<Page(0, 0, TRUE, FALSE), Page(1, 1, TRUE, FALSE)>>

(* Data bytes that all differ from their neighbours.                          *)
Filled == [a \in 0 .. Cpu!MemorySize - 1 |-> (3 * a + (a \div 4)) % 4]

Registers(r1, r2, pc) ==
    [k \in 0 .. Cpu!NumTotalRegs - 1 |->
        CASE k = 1 -> r1 [] k = 2 -> r2 [] k = Cpu!PCReg -> pc
          [] k = Cpu!NextPCReg -> Cpu!AsWord(pc + 4) [] OTHER -> 0]

Booted(r1, r2, pc, table, tlb, program) ==
    LET first == IF table[1].physicalPage < NumPhysPages THEN table[1].physicalPage * PageSize ELSE 0
    IN  [machine |-> [registers |-> Registers(r1, r2, pc), mainMemory |-> Filled, table |-> table, tlb |-> tlb],
         text |-> [a \in {first + 4 * (k - 1) : k \in DOMAIN program} |->
                      program[1 + ((a - first) \div 4)]]]

Edge == {0, 1, 2, 3, 16, 63, 64, 127, 128, 129, 200, 255}
Few == {0, 1, 127, 128, 255}

(* Register operations, immediate operations, shifts by a constant.           *)
Arithmetic ==
    {Booted(s, t, 0, Straight, FALSE, <<Special(f, 1, 2, 3)>>) :
        s \in Edge, t \in Edge, f \in {0, 4, 6, 7} \cup 16 .. 19 \cup 24 .. 27 \cup 32 .. 39 \cup 42 .. 43}

Immediates ==
    {Booted(s, 0, 0, Straight, FALSE, <<Immediate(op, 1, 2, imm)>>) :
             s \in Edge, op \in 8 .. 15, imm \in {0, 1, 7, 8, 15}}

Shifts ==
    {Booted(0, t, 0, Straight, FALSE, <<Raw(0, 0, 2, 3, n, f, 0, 0)>>) :
             t \in Edge, n \in {1, 4, 7}, f \in {0, 2, 3}}

(* Undefined opcodes, system calls, writes to R0.                             *)
Special0 ==
    {Booted(1, r2, 0, Straight, FALSE, <<Special(f, 1, 1, 0)>>) : r2 \in {0, 1}, f \in {1, 12, 13, 33, 35}}
    \cup {Booted(1, 1, 0, Straight, FALSE, <<Immediate(op, 1, 2, 0)>>) : op \in {16, 20, 39, 63}}

(* Branches and jumps, and the delay slot; at the top of the address space    *)
(* too, where the pc wraps around.                                            *)
Wrapped == <<Page(15, 0, TRUE, FALSE), Page(0, 1, TRUE, FALSE)>>
Slot == Immediate(9, 1, 1, 8)
Branches ==
    {Booted(s, t, pc, table, pc # 0, <<b, Slot, Slot, Slot>>) :
        s \in Few, t \in {0, 127}, pc \in {0}, table \in {Straight},
        b \in {Immediate(op, 1, 2, imm) : op \in 4 .. 7, imm \in {1, 15}}
              \cup {Raw(1, 1, rt, 0, 0, 0, imm, 0) : rt \in {0, 1, 2, 16, 17}, imm \in {1, 15}}
              \cup {Raw(op, 0, 0, 0, 0, 0, 0, x) : op \in {2, 3}, x \in 0 .. 3}
              \cup {Special(8, 2, 0, 0), Special(9, 2, 0, 3), Special(9, 1, 0, 3)}}
    \cup {Booted(s, 0, 240, Wrapped, TRUE, <<Slot, b, Slot, Slot>>) :
        s \in {0, 128}, b \in {Immediate(4, 1, 2, 15), Raw(1, 1, 17, 0, 0, 0, 1, 0), Raw(2, 0, 0, 0, 0, 0, 0, 1)}}

(* Loads and stores, at every alignment, through tables good and bad.         *)
Swapped == <<Page(0, 1, TRUE, FALSE), Page(1, 0, TRUE, FALSE)>>
Tables == {<<t, FALSE>> : t \in {Straight, Swapped,
                                 <<Page(0, 0, TRUE, FALSE), Page(1, 1, FALSE, FALSE)>>,
                                 <<Page(0, 0, TRUE, FALSE), Page(1, 1, TRUE, TRUE)>>,
                                 <<Page(0, 0, TRUE, FALSE), Page(1, 9, TRUE, FALSE)>>,
                                 <<Page(0, 0, FALSE, FALSE), Page(1, 1, TRUE, FALSE)>>}}
          \cup {<<t, TRUE>> : t \in {Straight, Swapped, <<Page(0, 0, TRUE, FALSE), Page(3, 1, TRUE, FALSE)>>,
                                     <<Page(0, 0, TRUE, FALSE), Page(1, 1, FALSE, FALSE)>>}}
MemoryOps == {32, 33, 34, 35, 36, 37, 38, 40, 41, 42, 43, 46}
Memory ==
    {Booted(base, v, 0, t[1], t[2], <<Immediate(op, 1, 2, imm), Slot>>) :
        base \in {4, 16, 17, 18, 19, 22, 32}, v \in {228, 27}, t \in Tables, op \in MemoryOps, imm \in {0, 15}}

(* A load, and an instruction that uses, changes or traps on its register.    *)
Delays ==
    {Booted(base, 6, 0, Straight, FALSE, <<Immediate(op, 1, 2, 0), use, Slot, Special(33, 2, 2, 3)>>) :
        base \in {16, 20, 24}, op \in {32, 33, 35, 36, 37},
        use \in {Special(33, 2, 2, 3), Special(33, 1, 1, 2), Special(32, 2, 1, 2), Special(12, 0, 0, 0),
                 Special(24, 2, 2, 0), Immediate(9, 2, 2, 1), Special(8, 2, 0, 0), Immediate(4, 2, 1, 1),
                 Special(26, 1, 2, 0)}
               \cup {Immediate(m, 1, 2, 4) : m \in MemoryOps}}

MCStart == <<Arithmetic, Immediates, Shifts, Special0, Branches, Memory, Delays>>

-----------------------------------------------------------------------------
(* Object files: up to six sections in one order, with or without gaps, some  *)
(* of them empty; cut short, or of the wrong kind.  Physical addresses start  *)
(* at 0; virtual ones there too, as Nachos links them, or at or just below    *)
(* memoffset, as the interpreter wants them.                                  *)
RECURSIVE Laid(_, _, _, _, _)
Laid(parts, paddr, base, scnptr, gap) ==
    IF parts = <<>> THEN <<>>
    ELSE LET name == Head(parts)[1]
             size == Head(parts)[2]
             bss  == name \in {".bss", ".sbss"}
         IN  <<[name |-> name, paddr |-> paddr, vaddr |-> base + paddr, size |-> size, scnptr |-> IF bss THEN 0 ELSE scnptr]>>
             \o Laid(Tail(parts), paddr + size + gap, base, IF bss THEN scnptr ELSE scnptr + size, gap)

Coffed(parts, base, gap, short, magic, omagic) ==
    [magic |-> magic, omagic |-> omagic, sections |-> Laid(parts, 0, base, 2, gap),
     length |-> (LET sizes == [k \in DOMAIN parts |-> IF parts[k][1] \in {".bss", ".sbss"} THEN 0 ELSE parts[k][2]]
                     Sum[k \in 0 .. Len(parts)] == IF k = 0 THEN 2 ELSE Sum[k - 1] + sizes[k]
                 IN  Sum[Len(parts)] - short)]

MCCoffs ==
    {Coffed(<<<<".text", 6>>, <<d[1], d[2]>>, <<e, y>>, <<".bss", b>>, <<".sbss", z>>>>, base, gap, short, TRUE, TRUE) :
        d \in {<<".data", 0>>, <<".rdata", 3>>}, e \in {".data", ".sdata"}, y \in {0, 3},
        b \in {0, 2}, z \in {0, 2}, base \in {0, memoffset - 3, memoffset}, gap \in {0, 1}, short \in {0, 1}}
    \cup {Coffed(<<<<".text", 4>>>>, base, 0, 0, m[1], m[2]) : base \in {0, memoffset}, m \in {<<FALSE, TRUE>>, <<TRUE, FALSE>>}}
    \cup {Coffed(<<>>, 0, 0, 0, TRUE, TRUE)}
    \cup {Coffed(<<<<".text", 14>>, <<".data", 12>>, <<".bss", 1>>>>, base, 0, 0, TRUE, TRUE) : base \in {0, memoffset}}
    \cup {Coffed(<<<<".text", 4>>, <<".data", 40>>>>, 0, 0, 0, TRUE, TRUE), Coffed(<<<<".text", 28>>>>, 0, 10, 0, TRUE, TRUE)}
    \cup {Coffed(<<<<".text", 4>>, <<".rdata", 4>>, <<".data", 8>>, <<".sdata", 4>>, <<".sbss", 1>>, <<".bss", 1>>>>,
                 base, 0, 0, TRUE, TRUE) : base \in {0, memoffset}}

-----------------------------------------------------------------------------
RunsText ==
    /\ Sim!Init
    /\ phase = "off" /\ coff = 0 /\ section = 0 /\ noff = 0 /\ header = 0
    /\ space = 0 /\ flat = 0 /\ mem = 0 /\ lines = 0 /\ failed = {}

LoadsFile ==
    /\ Init
    /\ machine = Booted(0, 0, 0, Straight, FALSE, <<Slot>>).machine
    /\ text = <<>> /\ exception = "NoException" /\ status = "off"

ToolsInit == RunsText \/ LoadsFile

ToolsNext ==
    \/ status # "off" /\ Sim!Next /\ UNCHANGED coffVars
    \/ phase # "off" /\ Next /\ UNCHANGED machineVars

ToolsSpec == ToolsInit /\ [][ToolsNext]_<<machineVars, coffVars>>

(* Every arithmetic instruction of OneInstruction but OR, and SRL and SRLV of *)
(* a negative word, computes what its name says over the integers, and traps  *)
(* exactly when the result does not fit.                                      *)
ResultsAreExact == Sim!ResultsAreExact

(* A load lands after the next instruction, even when that one traps, or at   *)
(* once when an interrupt comes first, with the bytes the program's address   *)
(* space holds.                                                               *)
LoadsAreDelayed == Sim!LoadsAreDelayed

(* A store changes the bytes it names and no other, and a page is dirty       *)
(* exactly when a store to it went through.                                   *)
StoresAreExact == Sim!StoresAreExact

(* After a trap all but the load that lands is as before the instruction, and *)
(* the pcs go where branches and jumps say, one instruction late.             *)
TrapsArePrecise == Sim!TrapsArePrecise

(* The machine and the stand-alone interpreter do the same.                   *)
SimulatorsAgree == Sim!SimulatorsAgree

(* The trace and the disassembler show the registers an instruction uses.     *)
LinesTellTheOperands == Sim!LinesTellTheOperands

(* OR takes the bits of both its sources, as the listing says.                *)
OrTakesBoth == Sim!OrTakesBoth
=============================================================================
