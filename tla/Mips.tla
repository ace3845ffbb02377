-------------------------------- MODULE Mips --------------------------------
(* The instructions of the simulated MIPS processor (mipssim.cc).  A machine  *)
(* m is a record of registers, mainMemory, table and tlb.  An instruction is  *)
(* an operator on m and the decoded fields i; its outcome is the machine it   *)
(* leaves, pcAfter, the load to be delayed, and the exception it raises.      *)
(* "ASSERT" and "SIGFPE" end the simulator itself.                            *)
EXTENDS Translate

CONSTANT NumGPRegs

StackReg     == NumGPRegs - 3
R31          == NumGPRegs - 1
HiReg        == NumGPRegs
LoReg        == NumGPRegs + 1
PCReg        == NumGPRegs + 2
NextPCReg    == NumGPRegs + 3
PrevPCReg    == NumGPRegs + 4
LoadReg      == NumGPRegs + 5
LoadValueReg == NumGPRegs + 6
BadVAddrReg  == NumGPRegs + 7
NumTotalRegs == NumGPRegs + 8

Reg(m, k) == m.registers[k]
NextPC(m) == m.registers[NextPCReg]
Set(m, k, v) == [m EXCEPT !.registers[k] = v]
IndexToAddr(x) == Left(x, 2)

(* The ways an instruction ends.                                              *)
Done(m) == [m |-> m, pcAfter |-> AsWord(NextPC(m) + 4), loadReg |-> 0, loadValue |-> 0,
            exception |-> "NoException", badVAddr |-> 0]
Put(m, k, v) == Done(Set(m, k, v))
Raise(m, exception, addr) == [Done(m) EXCEPT !.exception = exception, !.badVAddr = addr]
Goto(m, addr) == [Done(m) EXCEPT !.pcAfter = addr]
Branch(m, i, taken) == IF taken THEN Goto(m, AsWord(NextPC(m) + IndexToAddr(i.extra))) ELSE Done(m)
Link(m, k) == Set(m, k, AsWord(NextPC(m) + 4))
Bool(b) == IF b THEN 1 ELSE 0

(* Decoding.  A raw instruction is the record of its bit fields.              *)
IFMT == 1
JFMT == 2
RFMT == 3
IFormat(ops) == [k \in DOMAIN ops |-> <<ops[k], IFMT>>]
Times(n, op) == [k \in 1 .. n |-> op]

opTable ==
    <<<<"SPECIAL", RFMT>>, <<"BCOND", IFMT>>, <<"OP_J", JFMT>>, <<"OP_JAL", JFMT>>>>
    \o IFormat(<<"OP_BEQ", "OP_BNE", "OP_BLEZ", "OP_BGTZ",
                 "OP_ADDI", "OP_ADDIU", "OP_SLTI", "OP_SLTIU",
                 "OP_ANDI", "OP_ORI", "OP_XORI", "OP_LUI">>
               \o Times(4, "OP_UNIMP") \o Times(12, "OP_RES") \o
               <<"OP_LB", "OP_LH", "OP_LWL", "OP_LW", "OP_LBU", "OP_LHU", "OP_LWR", "OP_RES",
                 "OP_SB", "OP_SH", "OP_SWL", "OP_SW", "OP_RES", "OP_RES", "OP_SWR", "OP_RES">>
               \o Times(4, "OP_UNIMP") \o Times(4, "OP_RES")
               \o Times(4, "OP_UNIMP") \o Times(4, "OP_RES"))

specialTable ==
    <<"OP_SLL", "OP_RES", "OP_SRL", "OP_SRA", "OP_SLLV", "OP_RES", "OP_SRLV", "OP_SRAV",
      "OP_JR", "OP_JALR", "OP_RES", "OP_RES", "OP_SYSCALL", "OP_UNIMP", "OP_RES", "OP_RES",
      "OP_MFHI", "OP_MTHI", "OP_MFLO", "OP_MTLO">> \o Times(4, "OP_RES") \o
    <<"OP_MULT", "OP_MULTU", "OP_DIV", "OP_DIVU">> \o Times(4, "OP_RES") \o
    <<"OP_ADD", "OP_ADDU", "OP_SUB", "OP_SUBU", "OP_AND", "OP_OR", "OP_XOR", "OP_NOR",
      "OP_RES", "OP_RES", "OP_SLT", "OP_SLTU">> \o Times(20, "OP_RES")

BCond(rt) == CASE rt = 0  -> "OP_BLTZ"
               [] rt = 1  -> "OP_BGEZ"
               [] rt = 16 -> "OP_BLTZAL"
               [] rt = 17 -> "OP_BGEZAL"
               [] OTHER   -> "OP_UNIMP"

(* The fields used later, with extra taken from the part the format names.    *)
Decode(raw) ==
    LET entry == opTable[raw.op + 1]
    IN  [rs |-> raw.rs, rt |-> raw.rt, rd |-> raw.rd,
         opCode |-> CASE entry[1] = "SPECIAL" -> specialTable[raw.funct + 1]
                      [] entry[1] = "BCOND"   -> BCond(raw.rt)
                      [] OTHER                -> entry[1],
         extra |-> CASE entry[2] = IFMT -> Extended(raw.imm, HalfBits)
                     [] entry[2] = RFMT -> raw.shamt
                     [] entry[2] = JFMT -> raw.target]

(* Arithmetic, comparisons and logic.                                         *)

(* Mutant: the sum is stored before it is checked.                            *)
OP_ADDStoresFirst(m, i) ==
    LET s   == Reg(m, i.rs)
        t   == Reg(m, i.rt)
        sum == AsWord(s + t)
    IN  IF Negative(s) = Negative(t) /\ Negative(s) # Negative(sum)
        THEN Raise(Set(m, i.rd, sum), "OverflowException", 0) ELSE Put(m, i.rd, sum)

OP_ADD(m, i) ==
    LET s   == Reg(m, i.rs)
        t   == Reg(m, i.rt)
        sum == AsWord(s + t)
    IN  IF Negative(s) = Negative(t) /\ Negative(s) # Negative(sum)
        THEN Raise(m, "OverflowException", 0) ELSE Put(m, i.rd, sum)

OP_ADDI(m, i) ==
    LET s   == Reg(m, i.rs)
        sum == AsWord(s + i.extra)
    IN  IF Negative(s) = Negative(i.extra) /\ Negative(i.extra) # Negative(sum)
        THEN Raise(m, "OverflowException", 0) ELSE Put(m, i.rt, sum)

OP_SUB(m, i) ==
    LET s    == Reg(m, i.rs)
        t    == Reg(m, i.rt)
        diff == AsWord(s - t)
    IN  IF Negative(s) # Negative(t) /\ Negative(s) # Negative(diff)
        THEN Raise(m, "OverflowException", 0) ELSE Put(m, i.rd, diff)

OP_ADDIU(m, i) == Put(m, i.rt, AsWord(Reg(m, i.rs) + i.extra))
OP_ADDU(m, i) == Put(m, i.rd, AsWord(Reg(m, i.rs) + Reg(m, i.rt)))
OP_SUBU(m, i) == Put(m, i.rd, AsWord(Reg(m, i.rs) - Reg(m, i.rt)))
OP_AND(m, i) == Put(m, i.rd, Reg(m, i.rs) & Reg(m, i.rt))
OP_ANDI(m, i) == Put(m, i.rt, Reg(m, i.rs) & Low(i.extra, HalfBits))
OP_NOR(m, i) == Put(m, i.rd, Complement(Reg(m, i.rs) | Reg(m, i.rt)))
OP_OR(m, i) == Put(m, i.rd, Reg(m, i.rs) | Reg(m, i.rs))
OP_ORI(m, i) == Put(m, i.rt, Reg(m, i.rs) | Low(i.extra, HalfBits))
OP_XOR(m, i) == Put(m, i.rd, Reg(m, i.rs) ^^ Reg(m, i.rt))
OP_XORI(m, i) == Put(m, i.rt, Reg(m, i.rs) ^^ Low(i.extra, HalfBits))
OP_LUI(m, i) == Put(m, i.rt, Left(i.extra, HalfBits))
OP_SLT(m, i) == Put(m, i.rd, Bool(Signed(Reg(m, i.rs)) < Signed(Reg(m, i.rt))))
OP_SLTI(m, i) == Put(m, i.rt, Bool(Signed(Reg(m, i.rs)) < Signed(i.extra)))
OP_SLTIU(m, i) == Put(m, i.rt, Bool(Reg(m, i.rs) < i.extra))
OP_SLTU(m, i) == Put(m, i.rd, Bool(Reg(m, i.rs) < Reg(m, i.rt)))

(* Shifts.  SRL and SRLV shift an int, as SRA and SRAV do.                    *)
ShiftCount(m, i) == Reg(m, i.rs) % W
OP_SLL(m, i) == Put(m, i.rd, Left(Reg(m, i.rt), i.extra))
OP_SLLV(m, i) == Put(m, i.rd, Left(Reg(m, i.rt), ShiftCount(m, i)))
OP_SRA(m, i) == Put(m, i.rd, Right(Reg(m, i.rt), i.extra))
OP_SRAV(m, i) == Put(m, i.rd, Right(Reg(m, i.rt), ShiftCount(m, i)))
OP_SRL(m, i) == Put(m, i.rd, Right(Reg(m, i.rt), i.extra))
OP_SRLV(m, i) == Put(m, i.rd, Right(Reg(m, i.rt), ShiftCount(m, i)))

(* Multiplication and division, into Hi and Lo.                               *)
PutHiLo(m, hi, lo) == Done(Set(Set(m, HiReg, hi), LoReg, lo))

(* One pass over the bits of a: b, shifted, is added where a has a bit.       *)
RECURSIVE MultLoop(_, _, _, _, _, _)
MultLoop(n, a, bHi, bLo, hi, lo) ==
    LET odd  == a % 2 = 1
        sum  == IF odd THEN AsWord(lo + bLo) ELSE lo
        high == IF odd THEN AsWord(hi + bHi + Bool(sum < bLo)) ELSE hi
    IN  IF n = 0 THEN <<hi, lo>>
        ELSE IF odd /\ a = 1 THEN <<high, sum>>
        ELSE MultLoop(n - 1, Right(a, 1), AsWord(2 * bHi) + Bool(Negative(bLo)), Left(bLo, 1), high, sum)

(* Mutant: the low word of a negative product never carries into the high one. *)
MultNoCarry(a, b, signedArith) ==
    LET minus(x)  == signedArith /\ Negative(x)
        sizeOf(x) == IF minus(x) THEN Minus(x) ELSE x
        p         == MultLoop(W, sizeOf(a), 0, sizeOf(b), 0, 0)
    IN  IF a = 0 \/ b = 0 THEN <<0, 0>>
        ELSE IF minus(a) = minus(b) THEN p
        ELSE <<Complement(p[1]), Minus(p[2])>>

Mult(a, b, signedArith) ==
    LET minus(x)  == signedArith /\ Negative(x)
        sizeOf(x) == IF minus(x) THEN Minus(x) ELSE x
        p         == MultLoop(W, sizeOf(a), 0, sizeOf(b), 0, 0)
    IN  IF a = 0 \/ b = 0 THEN <<0, 0>>
        ELSE IF minus(a) = minus(b) THEN p
        ELSE <<AsWord(Complement(p[1]) + Bool(p[2] = 0)), Minus(p[2])>>

OP_MULT(m, i) == LET p == Mult(Reg(m, i.rs), Reg(m, i.rt), TRUE) IN PutHiLo(m, p[1], p[2])
OP_MULTU(m, i) == LET p == Mult(Reg(m, i.rs), Reg(m, i.rt), FALSE) IN PutHiLo(m, p[1], p[2])

(* The host's signed division traps when the quotient does not fit a word.    *)
OP_DIV(m, i) ==
    LET s == Signed(Reg(m, i.rs))
        t == Signed(Reg(m, i.rt))
    IN  IF t = 0 THEN PutHiLo(m, 0, 0)
        ELSE IF Quotient(s, t) = 2^(W - 1) THEN Raise(m, "SIGFPE", 0)
        ELSE PutHiLo(m, AsWord(Remainder(s, t)), AsWord(Quotient(s, t)))

OP_DIVU(m, i) ==
    LET s == Reg(m, i.rs)
        t == Reg(m, i.rt)
    IN  IF t = 0 THEN PutHiLo(m, 0, 0) ELSE PutHiLo(m, s % t, s \div t)

OP_MFHI(m, i) == Put(m, i.rd, Reg(m, HiReg))
OP_MFLO(m, i) == Put(m, i.rd, Reg(m, LoReg))
OP_MTHI(m, i) == Put(m, HiReg, Reg(m, i.rs))
OP_MTLO(m, i) == Put(m, LoReg, Reg(m, i.rs))

(* Branches and jumps; the instruction after them is executed first.          *)
OP_BEQ(m, i) == Branch(m, i, Reg(m, i.rs) = Reg(m, i.rt))
OP_BNE(m, i) == Branch(m, i, Reg(m, i.rs) # Reg(m, i.rt))
OP_BGEZ(m, i) == Branch(m, i, ~Negative(Reg(m, i.rs)))
OP_BGEZAL(m, i) == OP_BGEZ(Link(m, R31), i)
OP_BGTZ(m, i) == Branch(m, i, Signed(Reg(m, i.rs)) > 0)
OP_BLEZ(m, i) == Branch(m, i, Signed(Reg(m, i.rs)) <= 0)
OP_BLTZ(m, i) == Branch(m, i, Negative(Reg(m, i.rs)))
OP_BLTZAL(m, i) == OP_BLTZ(Link(m, R31), i)

Region(addr) == addr - Low(addr, W - 4)
OP_J(m, i) == Goto(m, Region(AsWord(NextPC(m) + 4)) | IndexToAddr(i.extra))
OP_JAL(m, i) == OP_J(Link(m, R31), i)
OP_JR(m, i) == Goto(m, Reg(m, i.rs))
OP_JALR(m, i) == OP_JR(Link(m, i.rd), i)

(* Loads give the value to the instruction after the next.                    *)
Address(m, i) == AsWord(Reg(m, i.rs) + i.extra)
Loaded(r, addr, rt) ==
    IF r.exception # "NoException" THEN Raise(r.m, r.exception, addr)
    ELSE [Done(r.m) EXCEPT !.loadReg = rt, !.loadValue = r.value]
Fetched(m, i, size) == Loaded(ReadMem(m, Address(m, i), size), Address(m, i), i.rt)

OP_LB(m, i) == [Fetched(m, i, 1) EXCEPT !.loadValue = Extended(@, ByteBits)]
OP_LBU(m, i) == [Fetched(m, i, 1) EXCEPT !.loadValue = Low(@, ByteBits)]

HalfLoad(m, i) ==
    IF Address(m, i) % 2 # 0 THEN Raise(m, "AddressErrorException", Address(m, i))
    ELSE Fetched(m, i, 2)
OP_LH(m, i) == [HalfLoad(m, i) EXCEPT !.loadValue = Extended(@, HalfBits)]
OP_LHU(m, i) == [HalfLoad(m, i) EXCEPT !.loadValue = Low(@, HalfBits)]

OP_LW(m, i) ==
    IF Address(m, i) % 4 # 0 THEN Raise(m, "AddressErrorException", Address(m, i))
    ELSE Fetched(m, i, 4)

(* The unaligned loads merge with the register's value, or the one about to   *)
(* be loaded into it; only aligned addresses pass their assertion.            *)
Merged(m, i) == IF Reg(m, LoadReg) = i.rt THEN Reg(m, LoadValueReg) ELSE Reg(m, i.rt)
Upper(x, bits) == x - Low(x, bits)

LeftBits(addr) == ByteBits * (addr % 4)
RightBits(addr) == ByteBits * (3 - (addr % 4))

MergeLoad(m, i) == IF Address(m, i) % 4 # 0 THEN Raise(m, "ASSERT", 0) ELSE Fetched(m, i, 4)

OP_LWL(m, i) ==
    [MergeLoad(m, i) EXCEPT !.loadValue =
        Low(Merged(m, i), LeftBits(Address(m, i))) | Left(@, LeftBits(Address(m, i)))]

OP_LWR(m, i) ==
    [MergeLoad(m, i) EXCEPT !.loadValue =
        Upper(Merged(m, i), W - RightBits(Address(m, i))) | RightUnsigned(@, RightBits(Address(m, i)))]

Written(w, addr) == IF w.exception # "NoException" THEN Raise(w.m, w.exception, addr) ELSE Done(w.m)
Stored(m, addr, size, value) == Written(WriteMem(m, addr, size, value), addr)

OP_SB(m, i) == Stored(m, Address(m, i), 1, Reg(m, i.rt))
OP_SH(m, i) == Stored(m, Address(m, i), 2, Reg(m, i.rt))
OP_SW(m, i) == Stored(m, Address(m, i), 4, Reg(m, i.rt))

(* The unaligned stores read the word, and write back what they merged.       *)
WrittenBack(r, addr, value) ==
    IF r.exception # "NoException" THEN Raise(r.m, r.exception, addr) ELSE Stored(r.m, addr, 4, value)
LeftWritten(r, addr, v) ==
    WrittenBack(r, addr, Upper(r.value, W - LeftBits(addr)) | RightUnsigned(v, LeftBits(addr)))
RightWritten(r, addr, v) ==
    WrittenBack(r, addr, Low(r.value, RightBits(addr)) | Left(v, RightBits(addr)))

OP_SWL(m, i) ==
    IF Address(m, i) % 4 # 0 THEN Raise(m, "ASSERT", 0)
    ELSE LeftWritten(ReadMem(m, Address(m, i), 4), Address(m, i), Reg(m, i.rt))

OP_SWR(m, i) ==
    IF Address(m, i) % 4 # 0 THEN Raise(m, "ASSERT", 0)
    ELSE RightWritten(ReadMem(m, Address(m, i), 4), Address(m, i), Reg(m, i.rt))

OP_SYSCALL(m, i) == Raise(m, "SyscallException", 0)
OP_RES(m, i) == Raise(m, "IllegalInstrException", 0)
OP_UNIMP(m, i) == OP_RES(m, i)

(* The switch on the opcode.                                                  *)
Execute(m, i) ==
    CASE i.opCode = "OP_ADD"     -> OP_ADD(m, i)
      [] i.opCode = "OP_ADDI"    -> OP_ADDI(m, i)
      [] i.opCode = "OP_ADDIU"   -> OP_ADDIU(m, i)
      [] i.opCode = "OP_ADDU"    -> OP_ADDU(m, i)
      [] i.opCode = "OP_AND"     -> OP_AND(m, i)
      [] i.opCode = "OP_ANDI"    -> OP_ANDI(m, i)
      [] i.opCode = "OP_BEQ"     -> OP_BEQ(m, i)
      [] i.opCode = "OP_BGEZ"    -> OP_BGEZ(m, i)
      [] i.opCode = "OP_BGEZAL"  -> OP_BGEZAL(m, i)
      [] i.opCode = "OP_BGTZ"    -> OP_BGTZ(m, i)
      [] i.opCode = "OP_BLEZ"    -> OP_BLEZ(m, i)
      [] i.opCode = "OP_BLTZ"    -> OP_BLTZ(m, i)
      [] i.opCode = "OP_BLTZAL"  -> OP_BLTZAL(m, i)
      [] i.opCode = "OP_BNE"     -> OP_BNE(m, i)
      [] i.opCode = "OP_DIV"     -> OP_DIV(m, i)
      [] i.opCode = "OP_DIVU"    -> OP_DIVU(m, i)
      [] i.opCode = "OP_J"       -> OP_J(m, i)
      [] i.opCode = "OP_JAL"     -> OP_JAL(m, i)
      [] i.opCode = "OP_JALR"    -> OP_JALR(m, i)
      [] i.opCode = "OP_JR"      -> OP_JR(m, i)
      [] i.opCode = "OP_LB"      -> OP_LB(m, i)
      [] i.opCode = "OP_LBU"     -> OP_LBU(m, i)
      [] i.opCode = "OP_LH"      -> OP_LH(m, i)
      [] i.opCode = "OP_LHU"     -> OP_LHU(m, i)
      [] i.opCode = "OP_LUI"     -> OP_LUI(m, i)
      [] i.opCode = "OP_LW"      -> OP_LW(m, i)
      [] i.opCode = "OP_LWL"     -> OP_LWL(m, i)
      [] i.opCode = "OP_LWR"     -> OP_LWR(m, i)
      [] i.opCode = "OP_MFHI"    -> OP_MFHI(m, i)
      [] i.opCode = "OP_MFLO"    -> OP_MFLO(m, i)
      [] i.opCode = "OP_MTHI"    -> OP_MTHI(m, i)
      [] i.opCode = "OP_MTLO"    -> OP_MTLO(m, i)
      [] i.opCode = "OP_MULT"    -> OP_MULT(m, i)
      [] i.opCode = "OP_MULTU"   -> OP_MULTU(m, i)
      [] i.opCode = "OP_NOR"     -> OP_NOR(m, i)
      [] i.opCode = "OP_OR"      -> OP_OR(m, i)
      [] i.opCode = "OP_ORI"     -> OP_ORI(m, i)
      [] i.opCode = "OP_RES"     -> OP_RES(m, i)
      [] i.opCode = "OP_SB"      -> OP_SB(m, i)
      [] i.opCode = "OP_SH"      -> OP_SH(m, i)
      [] i.opCode = "OP_SLL"     -> OP_SLL(m, i)
      [] i.opCode = "OP_SLLV"    -> OP_SLLV(m, i)
      [] i.opCode = "OP_SLT"     -> OP_SLT(m, i)
      [] i.opCode = "OP_SLTI"    -> OP_SLTI(m, i)
      [] i.opCode = "OP_SLTIU"   -> OP_SLTIU(m, i)
      [] i.opCode = "OP_SLTU"    -> OP_SLTU(m, i)
      [] i.opCode = "OP_SRA"     -> OP_SRA(m, i)
      [] i.opCode = "OP_SRAV"    -> OP_SRAV(m, i)
      [] i.opCode = "OP_SRL"     -> OP_SRL(m, i)
      [] i.opCode = "OP_SRLV"    -> OP_SRLV(m, i)
      [] i.opCode = "OP_SUB"     -> OP_SUB(m, i)
      [] i.opCode = "OP_SUBU"    -> OP_SUBU(m, i)
      [] i.opCode = "OP_SW"      -> OP_SW(m, i)
      [] i.opCode = "OP_SWL"     -> OP_SWL(m, i)
      [] i.opCode = "OP_SWR"     -> OP_SWR(m, i)
      [] i.opCode = "OP_SYSCALL" -> OP_SYSCALL(m, i)
      [] i.opCode = "OP_UNIMP"   -> OP_UNIMP(m, i)
      [] i.opCode = "OP_XOR"     -> OP_XOR(m, i)
      [] i.opCode = "OP_XORI"    -> OP_XORI(m, i)
=============================================================================
