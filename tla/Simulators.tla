----------------------------- MODULE Simulators -----------------------------
(* The machine of Nachos and the stand-alone interpreter on the same program. *)
EXTENDS Machine, Disasm

(* The interpreter's view of a machine: a load that is on its way has landed, *)
(* and an address is where it is in memory.                                   *)
Landed(m) == DelayedLoad(m, 0, 0).registers
View(m) == [Reg |-> [k \in 0 .. NumGPRegs - 1 |-> Landed(m)[k]],
            HI |-> Reg(m, HiReg), LO |-> Reg(m, LoReg), mem |-> m.mainMemory,
            pc |-> Reg(m, PCReg), npc |-> NextPC(m), xpc |-> Reg(m, PrevPCReg), stop |-> FALSE]

OneToOne(m) == ~m.tlb /\ \A k \in DOMAIN m.table : m.table[k].physicalPage = k - 1

(* What the two are known to do differently: the unaligned accesses, OR, the  *)
(* logical shifts of negative words, the logical operations with a negative   *)
(* immediate, a division by zero, a jump between regions.                     *)
Shared(m, i) ==
    /\ i.opCode \notin {"OP_LWL", "OP_LWR", "OP_SWL", "OP_SWR", "OP_OR"}
    /\ i.opCode \in {"OP_SRL", "OP_SRLV"} => ~Negative(Reg(m, i.rt))
    /\ i.opCode \in {"OP_ANDI", "OP_ORI", "OP_XORI"} => ~Negative(i.extra)
    /\ i.opCode \in {"OP_DIV", "OP_DIVU"} => Reg(m, i.rt) # 0
    /\ i.opCode \in {"OP_J", "OP_JAL"} => Region(Reg(m, PCReg)) = Region(AsWord(NextPC(m) + 4))
    /\ ~LinksItself(i)

(* No jump in the delay slot of a taken one.                                  *)
Jumping == {"OP_J", "OP_JAL", "OP_JR", "OP_JALR", "OP_BEQ", "OP_BNE", "OP_BLEZ", "OP_BGTZ",
            "OP_BLTZ", "OP_BGEZ", "OP_BLTZAL", "OP_BGEZAL"}
InStep(m, i) == i.opCode \in Jumping => NextPC(m) = AsWord(Reg(m, PCReg) + 4)

(* An instruction that leaves the register of a pending load alone.           *)
Respects(m, i) == Reg(m, LoadReg) = 0 \/ Reg(m, LoadReg) \notin {i.rs, i.rt, i.rd}

(* A program that waits for its loads, as the compiler's does, runs the same  *)
(* on Machine::OneInstruction and on runprogram, instruction by instruction:  *)
(* the registers, memory and both pcs agree, and the high word of every       *)
(* result but a product's.  Both have their memory at the same addresses:     *)
(* memoffset of int.h is left out.                                            *)
SimulatorsAgree ==
    [][Executes /\ OneToOne(machine) /\ Shared(machine, Instr) /\ Respects(machine, Instr)
       /\ InStep(machine, Instr) =>
        LET e == RunProgram(View(machine), Coded(text[Fetch.physAddr]))
            m == View(machine')
        IN  /\ ~e.stop
            /\ \A k \in 1 .. NumGPRegs - 1 : e.Reg[k] = m.Reg[k]
            /\ e.LO = m.LO /\ e.mem = m.mem /\ e.pc = m.pc /\ e.npc = m.npc
            /\ Instr.opCode \notin {"OP_MULT", "OP_MULTU"} => e.HI = m.HI
      ]_machineVars

Misprinted == {"OP_MFLO", "OP_MTHI", "OP_JALR", "OP_BLEZ", "OP_BGTZ"}
Links == {"OP_JAL", "OP_BGEZAL", "OP_BLTZAL"}
PrintsTarget(i) == i.opCode \in Jumping \ {"OP_JR", "OP_JALR"}

(* The line that "-d m" prints for an instruction tells what it works on:     *)
(* whatever is in a register that is not shown, the rest of the outcome is    *)
(* the same, and only a linking jump changes such a register.  The            *)
(* disassembler prints the same operation and the same registers, but for     *)
(* those it is known to misprint, and the address where a branch goes.        *)
LinesTellTheOperands ==
    [][Executes =>
        LET i      == Instr
            line   == dump_ascii(text[Fetch.physAddr], Reg(machine, PCReg))
            hidden == (1 .. R31) \ (Traced(i) \cup (IF i.opCode \in Links THEN {R31} ELSE {}))
            With(k, v) == Execute(Set(Fetch.m, k, v), i)
        IN  /\ \A k \in hidden :
                   /\ Reg(Outcome.m, k) = Reg(machine, k)
                   /\ LET other == With(k, Complement(Reg(machine, k)))
                      IN  [other EXCEPT !.m = Set(@, k, Reg(machine, k))] = Outcome
            /\ line.name \in {i.opCode, "nop"}
            /\ line.name # "nop" /\ i.opCode \notin Misprinted =>
                   /\ Listed(line, i) \ {0} = Traced(i) \ {0}
                   /\ PrintsTarget(i) /\ InStep(machine, i) /\ Shared(machine, i) =>
                          Outcome.pcAfter \in {AsWord(NextPC(machine) + 4), line.to}
      ]_machineVars
=============================================================================
