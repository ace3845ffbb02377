------------------------------ MODULE Machine ------------------------------
(* The simulated machine running a user program: the loop of Machine::Run,    *)
(* one instruction and one tick of the clock at a time, up to the exception   *)
(* the kernel ends it with.  Of the tick only what it does to the machine is  *)
(* here: an interrupt that is due finishes the load on its way.  The          *)
(* program's text is kept as decoded fields, beside mainMemory.               *)
EXTENDS Mips

CONSTANT Start      \* a sequence of sets: the machines and texts a run may begin with

VARIABLES machine,      \* registers, mainMemory, table and tlb
          text,         \* the instruction at each physical word that holds one
          exception,    \* the one last raised
          status        \* "run", "halt", "abort"; "off" when no program is loaded

machineVars == <<machine, text, exception, status>>

SC_Halt == 0

Init ==
    /\ \E k \in DOMAIN Start : \E s \in Start[k] : machine = s.machine /\ text = s.text
    /\ exception = "NoException"
    /\ status = "run"

DelayedLoad(m, nextReg, nextValue) ==
    LET landed == [m.registers EXCEPT ![m.registers[LoadReg]] = m.registers[LoadValueReg]]
    IN  [m EXCEPT !.registers = [landed EXCEPT ![LoadReg] = nextReg, ![LoadValueReg] = nextValue, ![0] = 0]]

(* The kernel serves Halt; anything else fails an assertion.                  *)
ExceptionHandler(m, which) ==
    status' = IF which = "SyscallException" /\ Reg(m, 2) = SC_Halt THEN "halt" ELSE "abort"

(* Mutant: the load that is still on its way is not waited for.               *)
RaiseExceptionAtOnce(m, which, badVAddr) ==
    LET trapped == Set(m, BadVAddrReg, badVAddr)
    IN  /\ machine' = trapped
        /\ exception' = which
        /\ ExceptionHandler(trapped, which)

RaiseException(m, which, badVAddr) ==
    LET trapped == DelayedLoad(Set(m, BadVAddrReg, badVAddr), 0, 0)
    IN  /\ machine' = trapped
        /\ exception' = which
        /\ ExceptionHandler(trapped, which)

(* The machine after the instruction, its load delayed and its pcs advanced.  *)
Advanced(out) ==
    LET m == DelayedLoad(out.m, out.loadReg, out.loadValue)
    IN  [m EXCEPT !.registers = [@ EXCEPT ![PrevPCReg] = m.registers[PCReg],
                                          ![PCReg]     = m.registers[NextPCReg],
                                          ![NextPCReg] = out.pcAfter]]

Fetch == Translate(machine, Reg(machine, PCReg), 4, FALSE)
FetchFaults == Fetch.exception # "NoException"
HasText == ~FetchFaults /\ Fetch.physAddr \in DOMAIN text
Instr == Decode(text[Fetch.physAddr])
Outcome == Execute(Fetch.m, Instr)

Stores == {"OP_SB", "OP_SH", "OP_SW", "OP_SWL", "OP_SWR"}
Loads == {"OP_LB", "OP_LBU", "OP_LH", "OP_LHU", "OP_LW", "OP_LWL", "OP_LWR"}

(* A store over an instruction leaves a word that is no modelled instruction. *)
KeepText ==
    LET at == Translate(Fetch.m, Address(machine, Instr), 1, TRUE).physAddr
    IN  text' = IF Instr.opCode \in Stores
                THEN [a \in DOMAIN text \ {at - (at % 4)} |-> text[a]] ELSE text

NoFetch ==
    /\ status = "run" /\ FetchFaults
    /\ RaiseException(machine, Fetch.exception, Reg(machine, PCReg))
    /\ UNCHANGED text

(* interrupt->OneTick(): CheckIfDue calls DelayedLoad(0, 0) before it calls a *)
(* handler.  The kernel's own clock decides whether one is due: either way.   *)
OneTick(m, fires) == IF fires THEN DelayedLoad(m, 0, 0) ELSE m

Completes(out, fires) ==
    /\ out.exception = "NoException"
    /\ machine' = OneTick(Advanced(out), fires)
    /\ KeepText
    /\ UNCHANGED <<exception, status>>

(* With no load on its way an interrupt changes nothing.                      *)
Ticks == IF Instr.opCode \in Loads THEN BOOLEAN ELSE {FALSE}

Executes == status = "run" /\ HasText /\ \E fires \in Ticks : Completes(Outcome, fires)

Trapped(out) ==
    /\ out.exception \notin {"NoException", "ASSERT", "SIGFPE"}
    /\ RaiseException(out.m, out.exception, out.badVAddr)
    /\ UNCHANGED text

Traps == status = "run" /\ HasText /\ Trapped(Outcome)

(* An assertion or the host's own trap ends the simulator.                    *)
Killed(out) ==
    /\ out.exception \in {"ASSERT", "SIGFPE"}
    /\ status' = "abort"
    /\ exception' = out.exception
    /\ UNCHANGED <<machine, text>>

Dies == status = "run" /\ HasText /\ Killed(Outcome)

OneInstruction == NoFetch \/ Executes \/ Traps \/ Dies

(* The program has ended, or has left the text that is modelled.              *)
Ended == (IF status = "run" THEN ~(FetchFaults \/ HasText) ELSE TRUE) /\ UNCHANGED machineVars

Next == OneInstruction \/ Ended

Spec == Init /\ [][Next]_machineVars

-----------------------------------------------------------------------------
(* What instructions mean, in integers and sets of bits.  s and t are the     *)
(* values of rs and rt, x the extra field, v the new value of the target.     *)

Ones(v) == {k \in 0 .. W - 1 : (v \div 2^k) % 2 = 1}
Moved(v, n) == {k \in 0 .. W - 1 : k - n \in Ones(v)}
SignMoved(v, n) == {k \in 0 .. W - 1 : (IF k + n >= W THEN W - 1 ELSE k + n) \in Ones(v)}
Fits(n) == n \in -(2^(W - 1)) .. 2^(W - 1) - 1

Checked == {"OP_ADD", "OP_ADDI", "OP_SUB"}
Exact(op, s, t, x) == CASE op = "OP_ADD"  -> Signed(s) + Signed(t)
                        [] op = "OP_ADDI" -> Signed(s) + Signed(x)
                        [] op = "OP_SUB"  -> Signed(s) - Signed(t)

(* SRL and SRLV of a negative word, and OR, are left out: they do something   *)
(* else in this simulator.                                                    *)
Target(i) == IF opTable[text[Fetch.physAddr].op + 1][1] = "SPECIAL" THEN i.rd ELSE i.rt

Means(op, s, t, x, v) ==
    CASE op \in Checked   -> Signed(v) = Exact(op, s, t, x)
      [] op = "OP_ADDU"   -> v \in {s + t, s + t - 2^W}
      [] op = "OP_ADDIU"  -> v \in {s + x, s + x - 2^W}
      [] op = "OP_SUBU"   -> v \in {s - t, s - t + 2^W}
      [] op = "OP_AND"    -> Ones(v) = Ones(s) \cap Ones(t)
      [] op = "OP_NOR"    -> Ones(v) \cup Ones(s) \cup Ones(t) = 0 .. W - 1 /\ Ones(v) \cap (Ones(s) \cup Ones(t)) = {}
      [] op = "OP_XOR"    -> Ones(v) = (Ones(s) \cup Ones(t)) \ (Ones(s) \cap Ones(t))
      [] op = "OP_ANDI"   -> Ones(v) = Ones(s) \cap Ones(x) \cap 0 .. HalfBits - 1
      [] op = "OP_ORI"    -> Ones(v) = Ones(s) \cup (Ones(x) \cap 0 .. HalfBits - 1)
      [] op = "OP_XORI"   -> \A k \in 0 .. W - 1 : k \in Ones(v) <=> (k \in Ones(s)) # (k < HalfBits /\ k \in Ones(x))
      [] op = "OP_LUI"    -> Ones(v) = Moved(x, HalfBits)
      [] op = "OP_SLT"    -> v \in {0, 1} /\ (v = 1 <=> Signed(s) < Signed(t))
      [] op = "OP_SLTI"   -> v \in {0, 1} /\ (v = 1 <=> Signed(s) < Signed(x))
      [] op = "OP_SLTU"   -> v \in {0, 1} /\ (v = 1 <=> s < t)
      [] op = "OP_SLTIU"  -> v \in {0, 1} /\ (v = 1 <=> s < x)
      [] op = "OP_SLL"    -> Ones(v) = Moved(t, x)
      [] op = "OP_SLLV"   -> Ones(v) = Moved(t, s % W)
      [] op = "OP_SRA"    -> Ones(v) = SignMoved(t, x)
      [] op = "OP_SRAV"   -> Ones(v) = SignMoved(t, s % W)
      [] op = "OP_SRL"    -> ~Negative(t) => Ones(v) = Moved(t, -x)
      [] op = "OP_SRLV"   -> ~Negative(t) => Ones(v) = Moved(t, -(s % W))
      [] OTHER            -> TRUE

MeansHiLo(op, s, t, hi, lo) ==
    CASE op = "OP_MULT"  -> Signed(hi) * 2^W + lo = Signed(s) * Signed(t)
      [] op = "OP_MULTU" -> hi * 2^W + lo = s * t
      [] op = "OP_DIV"   -> IF t = 0 THEN hi = 0 /\ lo = 0
                            ELSE /\ Signed(lo) * Signed(t) + Signed(hi) = Signed(s)
                                 /\ Abs(Signed(hi)) < Abs(Signed(t))
                                 /\ hi # 0 => Negative(hi) = Negative(s)
      [] op = "OP_DIVU"  -> IF t = 0 THEN hi = 0 /\ lo = 0 ELSE lo * t + hi = s /\ hi < t
      [] OTHER           -> TRUE

(* Every arithmetic instruction of OneInstruction but OR, and SRL and SRLV of *)
(* a negative word, computes what its name says over the integers, and ADD,   *)
(* ADDI and SUB raise OverflowException exactly when the result does not fit  *)
(* a word (a result that a delayed load, or register 0, takes over is not     *)
(* looked at).                                                                *)
ResultsAreExact ==
    [][(Executes \/ Traps) =>
        LET i == Instr
            s == Reg(machine, i.rs)
            t == IF i.rt \in 0 .. NumGPRegs - 1 THEN Reg(machine, i.rt) ELSE 0
            d == Target(i)
        IN  /\ i.opCode \in Checked =>
                   (exception' = "OverflowException" <=> ~Fits(Exact(i.opCode, s, t, i.extra)))
            /\ Executes =>
                   /\ d \notin {0, Reg(machine, LoadReg)} /\ d < NumGPRegs =>
                          Means(i.opCode, s, t, i.extra, Reg(machine', d))
                   /\ MeansHiLo(i.opCode, s, t, Reg(machine', HiReg), Reg(machine', LoReg))
      ]_machineVars

(* The listing's format for OR names both sources: rd gets the bits of rs and *)
(* of rt.                                                                     *)
OrTakesBoth ==
    [][Executes /\ Instr.opCode = "OP_OR" /\ Instr.rd \notin {0, Reg(machine, LoadReg)} =>
        Ones(Reg(machine', Instr.rd)) = Ones(Reg(machine, Instr.rs)) \cup Ones(Reg(machine, Instr.rt))
      ]_machineVars

-----------------------------------------------------------------------------
(* Memory byte by byte: byte k of a word, and where the byte at a virtual     *)
(* address is.                                                                *)
ByteOf(v, k) == (v \div 2^(ByteBits * k)) % 2^ByteBits
Entry(m, a) == CHOOSE e \in DOMAIN m.table : m.table[e].valid /\ m.table[e].virtualPage = a \div PageSize
Place(m, a) == m.table[Entry(m, a)].physicalPage * PageSize + (a % PageSize)
Size(op) == CASE op \in {"OP_LB", "OP_LBU", "OP_SB"} -> 1
              [] op \in {"OP_LH", "OP_LHU", "OP_SH"} -> 2
              [] OTHER -> 4

(* v holds the bytes of memory the load names, widened by their sign or by 0. *)
IsLoaded(m, i, v) ==
    LET a       == Address(m, i)
        B(k)    == m.mainMemory[Place(m, a + k)]
        top     == B(Size(i.opCode) - 1)
        signed  == i.opCode \in {"OP_LB", "OP_LH"}
        fill    == IF signed /\ top >= 2^(ByteBits - 1) THEN 2^ByteBits - 1 ELSE 0
    IN  \A k \in 0 .. 3 : ByteOf(v, k) =
            IF i.opCode = "OP_LWR" THEN (IF k = 0 THEN B(3) ELSE ByteOf(Merged(m, i), k))
            ELSE IF k < Size(i.opCode) THEN B(k) ELSE fill

(* A load gives its register the bytes the program's own address space holds  *)
(* there, once.  Without an interrupt it is on its way after its instruction, *)
(* so that the next one still reads the old value; an interrupt finishes it   *)
(* at once.  A value on its way lands with the next instruction, also when    *)
(* that one traps, and only a finished load of the same register takes its    *)
(* place.  R0 stays zero (DelayedLoad, CheckIfDue, and RaiseException's       *)
(* "finish anything in progress").                                            *)
LoadsAreDelayed ==
    [][(NoFetch \/ Executes \/ Traps) =>
        LET r         == Reg(machine, LoadReg)
            load      == Executes /\ Instr.opCode \in Loads
            lands(x)  == Reg(machine', x) = Reg(machine, LoadValueReg)
            onItsWay  == /\ Reg(machine', LoadReg) = Instr.rt
                         /\ IsLoaded(machine, Instr, Reg(machine', LoadValueReg))
                         /\ Instr.rt # r => Reg(machine', Instr.rt) = Reg(machine, Instr.rt)
                         /\ r # 0 => lands(r)
            finished  == /\ Reg(machine', LoadReg) = 0
                         /\ Instr.rt # 0 => IsLoaded(machine, Instr, Reg(machine', Instr.rt))
                         /\ r \notin {0, Instr.rt} => lands(r)
        IN  /\ Reg(machine', 0) = 0
            /\ IF load THEN \A fires \in BOOLEAN : Completes(Outcome, fires) => IF fires THEN finished ELSE onItsWay
               ELSE Reg(machine', LoadReg) = 0 /\ (r # 0 => lands(r))
      ]_machineVars

(* The bytes a store writes: which byte of rt goes to which byte of memory.   *)
StoredByte(i) == IF i.opCode = "OP_SWR" THEN [k \in {3} |-> 0]
                 ELSE [k \in 0 .. Size(i.opCode) - 1 |-> k]

(* A store changes the bytes it names and no other, in pages that are mapped  *)
(* and not read-only; a page is marked dirty by a store that went through and *)
(* by nothing else, so memory and the dirty bits of Translate never disagree. *)
StoresAreExact ==
    [][(NoFetch \/ Executes \/ Traps) =>
        LET i     == Instr
            a     == Address(machine, i)
            store == Executes /\ i.opCode \in Stores
            where == [k \in DOMAIN StoredByte(i) |-> Place(machine, a + k)]
        IN  /\ \A b \in DOMAIN machine.mainMemory :
                   IF store /\ \E k \in DOMAIN where : where[k] = b
                   THEN \A k \in DOMAIN where : where[k] = b =>
                            machine'.mainMemory[b] = ByteOf(Reg(machine, i.rt), StoredByte(i)[k])
                   ELSE machine'.mainMemory[b] = machine.mainMemory[b]
            /\ store => ~machine.table[Entry(machine, a)].readOnly
            /\ \A e \in DOMAIN machine.table :
                   machine'.table[e].dirty = (machine.table[e].dirty \/ (store /\ e = Entry(machine, a)))
      ]_machineVars

(* The instruction after the delay slot, for one that may jump.               *)
Taken(i, s, t) ==
    CASE i.opCode = "OP_BEQ" -> s = t
      [] i.opCode = "OP_BNE" -> s # t
      [] i.opCode \in {"OP_BGEZ", "OP_BGEZAL"} -> Signed(s) >= 0
      [] i.opCode \in {"OP_BLTZ", "OP_BLTZAL"} -> Signed(s) < 0
      [] i.opCode = "OP_BGTZ" -> Signed(s) > 0
      [] i.opCode = "OP_BLEZ" -> Signed(s) <= 0
      [] OTHER -> FALSE

LinksItself(i) == \/ i.opCode \in {"OP_BGEZAL", "OP_BLTZAL"} /\ i.rs = R31
                  \/ i.opCode = "OP_JALR" /\ i.rs = i.rd

(* A trap is precise: the pcs, the memory and every register are as they were *)
(* before the instruction, but for the load that lands, so the kernel could   *)
(* run it again.  Any other instruction moves the pcs by one, and a taken     *)
(* branch or a jump changes only where the one after next is (a linking jump  *)
(* through the register it links in is not defined on the processor).         *)
TrapsArePrecise ==
    [][/\ (NoFetch \/ Traps) =>
             /\ machine'.mainMemory = machine.mainMemory
             /\ \A k \in 1 .. LoadReg - 1 : k # Reg(machine, LoadReg) => Reg(machine', k) = Reg(machine, k)
             /\ exception' \in {"PageFaultException", "ReadOnlyException", "AddressErrorException"} =>
                    Reg(machine', BadVAddrReg) \in
                        {Reg(machine, PCReg), IF FetchFaults THEN 0 ELSE Address(machine, Instr)}
       /\ Executes =>
             LET i    == Instr
                 next == NextPC(machine)
                 t    == IF i.rt < NumGPRegs THEN Reg(machine, i.rt) ELSE 0
             IN  /\ Reg(machine', PrevPCReg) = Reg(machine, PCReg)
                 /\ Reg(machine', PCReg) = next
                 /\ ~LinksItself(i) => NextPC(machine') =
                        IF i.opCode \in {"OP_JR", "OP_JALR"} THEN Reg(machine, i.rs)
                        ELSE IF i.opCode \in {"OP_J", "OP_JAL"}
                             THEN Region((next + 4) % 2^W) + 4 * i.extra
                        ELSE IF Taken(i, Reg(machine, i.rs), t) THEN (next + 4 * Signed(i.extra)) % 2^W
                        ELSE (next + 4) % 2^W
      ]_machineVars
=============================================================================
