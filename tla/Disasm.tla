------------------------------- MODULE Disasm -------------------------------
(* How an instruction is printed: by OneInstruction under "-d m" (opStrings   *)
(* in mipssim.h), and by the disassembler (bin/d.c and bin/opstrings.c).  A   *)
(* line is an operation and the fields of the instruction that it shows.      *)
EXTENDS Interpreter, Sequences

Range(s) == {s[k] : k \in DOMAIN s}

Showing(ops, args) == [op \in ops |-> args]

opStrings ==
       Showing({"OP_ADD", "OP_ADDU", "OP_AND", "OP_NOR", "OP_OR", "OP_SLT", "OP_SLTU", "OP_SUB", "OP_SUBU", "OP_XOR"},
               <<"rd", "rs", "rt">>)
    @@ Showing({"OP_ADDI", "OP_ADDIU", "OP_ANDI", "OP_ORI", "OP_SLTI", "OP_SLTIU", "OP_XORI"}, <<"rt", "rs", "extra">>)
    @@ Showing({"OP_BEQ", "OP_BNE"}, <<"rs", "rt", "extra">>)
    @@ Showing({"OP_BGEZ", "OP_BGEZAL", "OP_BGTZ", "OP_BLEZ", "OP_BLTZ", "OP_BLTZAL"}, <<"rs", "extra">>)
    @@ Showing({"OP_DIV", "OP_DIVU", "OP_MULT", "OP_MULTU"}, <<"rs", "rt">>)
    @@ Showing({"OP_J", "OP_JAL"}, <<"extra">>)
    @@ Showing({"OP_JALR", "OP_JR"}, <<"rd", "rs">>)
    @@ Showing({"OP_LB", "OP_LBU", "OP_LH", "OP_LHU", "OP_LW", "OP_LWL", "OP_LWR",
                "OP_SB", "OP_SH", "OP_SW", "OP_SWL", "OP_SWR"}, <<"rt", "extra", "rs">>)
    @@ Showing({"OP_LUI"}, <<"rt", "extra">>)
    @@ Showing({"OP_MFHI", "OP_MFLO"}, <<"rd">>)
    @@ Showing({"OP_MTHI", "OP_MTLO"}, <<"rs">>)
    @@ Showing({"OP_SLL", "OP_SRA", "OP_SRL"}, <<"rd", "rt", "extra">>)
    @@ Showing({"OP_SLLV", "OP_SRAV", "OP_SRLV"}, <<"rd", "rt", "rs">>)
    @@ Showing({"OP_RES", "OP_SYSCALL", "OP_UNIMP"}, <<>>)

(* Mutant: the case of rt runs into that of rd.                               *)
TypeToRegFalls(field, i) == IF field = "rt" THEN i.rd ELSE i[field]

TypeToReg(field, i) == i[field]

(* The registers that the trace of an instruction names.                      *)
RegFields(args) == SelectSeq(args, LAMBDA field : field # "extra")
Traced(i) == {TypeToReg(field, i) : field \in Range(RegFields(opStrings[i.opCode]))}
-----------------------------------------------------------------------------
(* The names of bin/opstrings.c; a code that has none is printed in octal.    *)
Octal(n) == Times(n, "octal")

normalops ==
    <<"special", "bcond", "OP_J", "OP_JAL", "OP_BEQ", "OP_BNE", "OP_BLEZ", "OP_BGTZ",
      "OP_ADDI", "OP_ADDIU", "OP_SLTI", "OP_SLTIU", "OP_ANDI", "OP_ORI", "OP_XORI", "OP_LUI">>
    \o Times(4, "cop") \o Octal(12) \o
    <<"OP_LB", "OP_LH", "OP_LWL", "OP_LW", "OP_LBU", "OP_LHU", "OP_LWR", "octal",
      "OP_SB", "OP_SH", "OP_SWL", "OP_SW", "octal", "octal", "OP_SWR", "octal">>
    \o Times(4, "lwc") \o Octal(4) \o Times(4, "swc") \o Octal(4)

specialops ==
    <<"OP_SLL", "octal", "OP_SRL", "OP_SRA", "OP_SLLV", "octal", "OP_SRLV", "OP_SRAV",
      "OP_JR", "OP_JALR", "octal", "octal", "OP_SYSCALL", "break", "octal", "octal",
      "OP_MFHI", "OP_MTHI", "OP_MFLO", "OP_MTLO">> \o Octal(4) \o
    <<"OP_MULT", "OP_MULTU", "OP_DIV", "OP_DIVU">> \o Octal(4) \o
    <<"OP_ADD", "OP_ADDU", "OP_SUB", "OP_SUBU", "OP_AND", "OP_OR", "OP_XOR", "OP_NOR",
      "octal", "octal", "OP_SLT", "OP_SLTU">> \o Octal(20)

(* The operands dump_ascii prints for a special operation.  MFLO is listed    *)
(* with those that read rs, MTHI with those that write rd.                    *)
SpecialArgs(op) ==
    CASE op \in {"OP_SLL", "OP_SRL", "OP_SRA"} -> <<"rd", "rt", "extra">>
      [] op \in {"OP_SLLV", "OP_SRLV", "OP_SRAV"} -> <<"rd", "rt", "rs">>
      [] op \in {"OP_JR", "OP_JALR", "OP_MFLO", "OP_MTLO"} -> <<"rs">>
      [] op \in {"OP_MFHI", "OP_MTHI"} -> <<"rd">>
      [] op \in {"OP_MULT", "OP_MULTU", "OP_DIV", "OP_DIVU"} -> <<"rs", "rt">>
      [] op \in {"OP_ADD", "OP_ADDU", "OP_SUB", "OP_SUBU", "OP_AND", "OP_OR", "OP_XOR", "OP_NOR",
                 "OP_SLT", "OP_SLTU"} -> <<"rd", "rs", "rt">>
      [] OTHER -> <<>>

(* For any other one; there is no case for BLEZ and BGTZ.                     *)
NormalArgs(op) ==
    CASE op \in {"OP_J", "OP_JAL"} -> <<"extra">>
      [] op \in {"OP_BEQ", "OP_BNE"} -> <<"rt", "rs", "extra">>
      [] op \in {"OP_ADDI", "OP_ADDIU", "OP_SLTI", "OP_SLTIU", "OP_ANDI", "OP_ORI", "OP_XORI"} ->
            <<"rt", "rs", "extra">>
      [] op = "OP_LUI" -> <<"rt", "extra">>
      [] op \in {"OP_LB", "OP_LH", "OP_LWL", "OP_LW", "OP_LBU", "OP_LHU", "OP_LWR",
                 "OP_SB", "OP_SH", "OP_SWL", "OP_SW", "OP_SWR", "I_LWC", "I_SWC"} -> <<"rt", "extra", "rs">>
      [] OTHER -> <<>>

(* The address printed for a branch or a jump at pc.                          *)
Printed(i, pc) ==
    IF i.opCode \in {"OP_J", "OP_JAL"} THEN Region(pc) | IndexToAddr(i.extra)
    ELSE AsWord(IndexToAddr(i.extra) + pc + 4)

DumpBcond(i, pc) ==
    [name |-> IF i.opCode = "none" THEN "BCOND" ELSE i.opCode, args |-> <<"rs", "extra">>, to |-> Printed(i, pc)]

dump_ascii(raw, pc) ==
    LET i  == Coded(raw)
        op == normalCodes[raw.op + 1]
    IN  CASE \A f \in DOMAIN raw : raw[f] = 0 -> [name |-> "nop", args |-> <<>>, to |-> 0]
          [] op = "I_SPECIAL" /\ (\E f \in DOMAIN raw : raw[f] # 0) ->
                [name |-> specialops[raw.funct + 1], args |-> SpecialArgs(i.opCode), to |-> 0]
          [] op = "I_BCOND" -> DumpBcond(i, pc)
          [] OTHER -> [name |-> normalops[raw.op + 1], args |-> NormalArgs(op), to |-> Printed(i, pc)]

(* The registers that a line of dump_ascii names.                             *)
Listed(line, i) == {i[field] : field \in Range(RegFields(line.args))}
=============================================================================
