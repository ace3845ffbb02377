----------------------------- MODULE Interpreter -----------------------------
(* The stand-alone interpreter (bin/execute.c): a second simulator of the     *)
(* same processor.  Its state e is a record of Reg, HI, LO, mem, pc, npc and  *)
(* stop; a load is not delayed, nothing is translated, and no sum overflows.  *)
EXTENDS Mips, TLC

(* The codes of encode.h.                                                     *)
normalCodes ==
    <<"I_SPECIAL", "I_BCOND", "OP_J", "OP_JAL", "OP_BEQ", "OP_BNE", "OP_BLEZ", "OP_BGTZ",
      "OP_ADDI", "OP_ADDIU", "OP_SLTI", "OP_SLTIU", "OP_ANDI", "OP_ORI", "OP_XORI", "OP_LUI">>
    \o Times(4, "I_COP") \o Times(12, "none") \o
    <<"OP_LB", "OP_LH", "OP_LWL", "OP_LW", "OP_LBU", "OP_LHU", "OP_LWR", "none",
      "OP_SB", "OP_SH", "OP_SWL", "OP_SW", "none", "none", "OP_SWR", "none">>
    \o Times(4, "I_LWC") \o Times(4, "none") \o Times(4, "I_SWC") \o Times(4, "none")

specialCodes ==
    <<"OP_SLL", "none", "OP_SRL", "OP_SRA", "OP_SLLV", "none", "OP_SRLV", "OP_SRAV",
      "OP_JR", "OP_JALR", "none", "none", "OP_SYSCALL", "I_BREAK", "none", "none",
      "OP_MFHI", "OP_MTHI", "OP_MFLO", "OP_MTLO">> \o Times(4, "none") \o
    <<"OP_MULT", "OP_MULTU", "OP_DIV", "OP_DIVU">> \o Times(4, "none") \o
    <<"OP_ADD", "OP_ADDU", "OP_SUB", "OP_SUBU", "OP_AND", "OP_OR", "OP_XOR", "OP_NOR",
      "none", "none", "OP_SLT", "OP_SLTU">> \o Times(20, "none")

bcondCodes == (0 :> "OP_BLTZ") @@ (1 :> "OP_BGEZ") @@ (16 :> "OP_BLTZAL") @@ (17 :> "OP_BGEZAL")

(* The operation and the fields that runprogram takes from an instruction.    *)
Coded(raw) ==
    LET op == normalCodes[raw.op + 1]
    IN  [rs |-> raw.rs, rt |-> raw.rt, rd |-> raw.rd,
         opCode |-> CASE op = "I_SPECIAL" -> specialCodes[raw.funct + 1]
                      [] op = "I_BCOND"   -> (IF raw.rt \in DOMAIN bcondCodes THEN bcondCodes[raw.rt] ELSE "none")
                      [] OTHER            -> op,
         extra |-> CASE op = "I_SPECIAL"         -> raw.shamt
                     [] op \in {"OP_J", "OP_JAL"} -> raw.target
                     [] OTHER                    -> Extended(raw.imm, HalfBits)]

SetReg(e, k, v) == [e EXCEPT !.Reg[k] = v]
u(e) == [e EXCEPT !.stop = TRUE]

Funct(e, i) ==
    LET s == e.Reg[i.rs]
        t == e.Reg[i.rt]
    IN  CASE i.opCode = "OP_SLL"  -> SetReg(e, i.rd, Left(t, i.extra))
          [] i.opCode = "OP_SRL"  -> SetReg(e, i.rd, RightUnsigned(t, i.extra))
          [] i.opCode = "OP_SRA"  -> SetReg(e, i.rd, Right(t, i.extra))
          [] i.opCode = "OP_SLLV" -> SetReg(e, i.rd, Left(t, s % W))
          [] i.opCode = "OP_SRLV" -> SetReg(e, i.rd, RightUnsigned(t, s % W))
          [] i.opCode = "OP_SRAV" -> SetReg(e, i.rd, Right(t, s % W))
          [] i.opCode = "OP_JR"   -> [e EXCEPT !.npc = s]
          [] i.opCode = "OP_JALR" -> SetReg([e EXCEPT !.npc = s], i.rd, AsWord(e.xpc + 8))
          [] i.opCode = "OP_MFHI" -> SetReg(e, i.rd, e.HI)
          [] i.opCode = "OP_MTHI" -> [e EXCEPT !.HI = s]
          [] i.opCode = "OP_MFLO" -> SetReg(e, i.rd, e.LO)
          [] i.opCode = "OP_MTLO" -> [e EXCEPT !.LO = s]

(* The high word is put together from halves, without the carries.            *)
HighWord(a, b) ==
    LET high(x) == RightUnsigned(x, HalfBits)
        low(x)  == Low(x, HalfBits)
    IN  AsWord(high(a) * high(b) + Right(AsWord(high(a) * low(b)), HalfBits)
                                 + Right(AsWord(high(b) * low(a)), HalfBits))

I_MULT(e, s, t) ==
    LET a  == IF Negative(s) THEN Minus(s) ELSE s
        b  == IF Negative(t) THEN Minus(t) ELSE t
        lo == AsWord(a * b)
    IN  IF Negative(s) = Negative(t) THEN [e EXCEPT !.LO = lo, !.HI = HighWord(a, b)]
        ELSE [e EXCEPT !.LO = Minus(lo), !.HI = AsWord(Complement(HighWord(a, b)) + Bool(lo = 0))]

I_MULTU(e, s, t) == [e EXCEPT !.LO = AsWord(s * t), !.HI = HighWord(s, t)]

(* Division by zero, and a quotient that does not fit, trap on the host.      *)
I_DIV(e, s, t) ==
    LET a == Signed(s)
        b == Signed(t)
    IN  IF b = 0 \/ (b = -1 /\ a = -(2^(W - 1))) THEN u(e)
        ELSE [e EXCEPT !.LO = AsWord(Quotient(a, b)), !.HI = AsWord(Remainder(a, b))]

I_DIVU(e, s, t) == IF t = 0 THEN u(e) ELSE [e EXCEPT !.LO = s \div t, !.HI = s % t]

(* Mutant: a set-less-than of unsigned words compares signed ones.            *)
SumsSigned(e, i) ==
    LET s == e.Reg[i.rs]
        t == e.Reg[i.rt]
    IN  SetReg(e, i.rd,
            CASE i.opCode \in {"OP_ADD", "OP_ADDU"} -> AsWord(s + t)
              [] i.opCode \in {"OP_SUB", "OP_SUBU"} -> AsWord(s - t)
              [] i.opCode = "OP_AND" -> s & t
              [] i.opCode = "OP_OR"  -> s | t
              [] i.opCode = "OP_XOR" -> s ^^ t
              [] i.opCode = "OP_NOR" -> Complement(s | t)
              [] i.opCode \in {"OP_SLT", "OP_SLTU"} -> Bool(Signed(s) < Signed(t)))

Sums(e, i) ==
    LET s == e.Reg[i.rs]
        t == e.Reg[i.rt]
    IN  SetReg(e, i.rd,
            CASE i.opCode \in {"OP_ADD", "OP_ADDU"} -> AsWord(s + t)
              [] i.opCode \in {"OP_SUB", "OP_SUBU"} -> AsWord(s - t)
              [] i.opCode = "OP_AND"  -> s & t
              [] i.opCode = "OP_OR"   -> s | t
              [] i.opCode = "OP_XOR"  -> s ^^ t
              [] i.opCode = "OP_NOR"  -> Complement(s | t)
              [] i.opCode = "OP_SLT"  -> Bool(Signed(s) < Signed(t))
              [] i.opCode = "OP_SLTU" -> Bool(s < t))

JumpIf(e, i, taken) == IF taken THEN [e EXCEPT !.npc = AsWord(e.xpc + 4 + IndexToAddr(i.extra))] ELSE e

I_BCOND(e, i) ==
    LET linked == SetReg(e, R31, AsWord(e.xpc + 8))
    IN  CASE i.opCode = "OP_BLTZ"   -> JumpIf(e, i, Signed(e.Reg[i.rs]) < 0)
          [] i.opCode = "OP_BGEZ"   -> JumpIf(e, i, Signed(e.Reg[i.rs]) >= 0)
          [] i.opCode = "OP_BLTZAL" -> JumpIf(linked, i, Signed(linked.Reg[i.rs]) < 0)
          [] i.opCode = "OP_BGEZAL" -> JumpIf(linked, i, Signed(linked.Reg[i.rs]) >= 0)

Jumps(e, i) ==
    LET there == [e EXCEPT !.npc = Region(e.xpc) | IndexToAddr(i.extra)]
    IN  CASE i.opCode = "OP_J"    -> there
          [] i.opCode = "OP_JAL"  -> SetReg(there, R31, AsWord(e.xpc + 8))
          [] i.opCode = "OP_BEQ"  -> JumpIf(e, i, e.Reg[i.rs] = e.Reg[i.rt])
          [] i.opCode = "OP_BNE"  -> JumpIf(e, i, e.Reg[i.rs] # e.Reg[i.rt])
          [] i.opCode = "OP_BLEZ" -> JumpIf(e, i, Signed(e.Reg[i.rs]) <= 0)
          [] i.opCode = "OP_BGTZ" -> JumpIf(e, i, Signed(e.Reg[i.rs]) > 0)

(* The logical ones take the immediate with its sign.                         *)
Immediately(e, i) ==
    LET s == e.Reg[i.rs]
    IN  SetReg(e, i.rt,
            CASE i.opCode \in {"OP_ADDI", "OP_ADDIU"} -> AsWord(s + i.extra)
              [] i.opCode = "OP_SLTI"  -> Bool(Signed(s) < Signed(i.extra))
              [] i.opCode = "OP_SLTIU" -> Bool(s < i.extra)
              [] i.opCode = "OP_ANDI"  -> s & i.extra
              [] i.opCode = "OP_ORI"   -> s | i.extra
              [] i.opCode = "OP_XORI"  -> s ^^ i.extra
              [] i.opCode = "OP_LUI"   -> Left(i.extra, HalfBits))

(* int.h reaches the byte at addr as (mem-memoffset)[addr], and e.mem is that *)
(* shifted array: a function of addresses.  The addresses are the machine's,  *)
(* from 0, and not those from memoffset on, so that one program can run on    *)
(* both.  Memory is read at any alignment; no unaligned store is implemented. *)
Read(e, addr, size) == Bytes(e.mem, addr, size)
Where(e, i) == AsWord(e.Reg[i.rs] + i.extra)

LoadsNow(e, i) ==
    LET a    == Where(e, i)
        word == Read(e, a - (a % 4), 4)
    IN  SetReg(e, i.rt,
            CASE i.opCode = "OP_LB"  -> Extended(Read(e, a, 1), ByteBits)
              [] i.opCode = "OP_LH"  -> Extended(Read(e, a, 2), HalfBits)
              [] i.opCode = "OP_LWL" -> e.Reg[i.rt] | Left(word, ByteBits * (a % 4))
              [] i.opCode = "OP_LW"  -> Read(e, a, 4)
              [] i.opCode = "OP_LBU" -> Read(e, a, 1)
              [] i.opCode = "OP_LHU" -> Read(e, a, 2)
              [] i.opCode = "OP_LWR" ->
                    (IF a % 4 = 0 THEN 0 ELSE Upper(e.Reg[i.rt], ByteBits * (a % 4)))
                    | Right(word, ByteBits * ((-a) % 4)))

StoresNow(e, i) ==
    LET a    == Where(e, i)
        size == CASE i.opCode = "OP_SB" -> 1 [] i.opCode = "OP_SH" -> 2 [] OTHER -> 4
    IN  IF i.opCode \in {"OP_SWL", "OP_SWR"} THEN u(e)
        ELSE [e EXCEPT !.mem = [b \in DOMAIN @ |->
                 IF b \in a .. a + size - 1
                 THEN Low(RightUnsigned(e.Reg[i.rt], ByteBits * (b - a)), ByteBits) ELSE @[b]]]

(* One turn of the loop of runprogram.  SYSCALL and BREAK, which go to the    *)
(* host, have no arm.                                                         *)
RunProgram(before, i) ==
    LET e == [before EXCEPT !.xpc = before.pc, !.pc = before.npc, !.npc = AsWord(before.npc + 4), !.Reg[0] = 0]
        s == e.Reg[i.rs]
        t == e.Reg[i.rt]
    IN  CASE i.opCode \in {"OP_SLL", "OP_SRL", "OP_SRA", "OP_SLLV", "OP_SRLV", "OP_SRAV", "OP_JR", "OP_JALR",
                           "OP_MFHI", "OP_MTHI", "OP_MFLO", "OP_MTLO"} -> Funct(e, i)
          [] i.opCode = "OP_MULT"  -> I_MULT(e, s, t)
          [] i.opCode = "OP_MULTU" -> I_MULTU(e, s, t)
          [] i.opCode = "OP_DIV"   -> I_DIV(e, s, t)
          [] i.opCode = "OP_DIVU"  -> I_DIVU(e, s, t)
          [] i.opCode \in {"OP_ADD", "OP_ADDU", "OP_SUB", "OP_SUBU", "OP_AND", "OP_OR", "OP_XOR", "OP_NOR",
                           "OP_SLT", "OP_SLTU"} -> Sums(e, i)
          [] i.opCode \in {"OP_BLTZ", "OP_BGEZ", "OP_BLTZAL", "OP_BGEZAL"} -> I_BCOND(e, i)
          [] i.opCode \in {"OP_J", "OP_JAL", "OP_BEQ", "OP_BNE", "OP_BLEZ", "OP_BGTZ"} -> Jumps(e, i)
          [] i.opCode \in {"OP_ADDI", "OP_ADDIU", "OP_SLTI", "OP_SLTIU", "OP_ANDI", "OP_ORI", "OP_XORI", "OP_LUI"} ->
                Immediately(e, i)
          [] i.opCode \in {"OP_LB", "OP_LH", "OP_LWL", "OP_LW", "OP_LBU", "OP_LHU", "OP_LWR"} -> LoadsNow(e, i)
          [] i.opCode \in {"OP_SB", "OP_SH", "OP_SWL", "OP_SW", "OP_SWR"} -> StoresNow(e, i)
          [] i.opCode \in {"none", "I_COP", "I_LWC", "I_SWC"} -> u(e)
=============================================================================
