------------------------------- MODULE MCAlu ---------------------------------
(***************************************************************************)
(* Registers of four bits, two of them and the status word, and every data *)
(* instruction with the operands and immediates that make a difference.    *)
(***************************************************************************)
EXTENDS Alu, Bitwise

MCAnd(x, y) == x & y
MCOr(x, y)  == x | y
MCXor(x, y) == x ^^ y

Of(ops, c) == {[op |-> o, ra |-> 1, rb |-> 2, rc |-> 1, c |-> c] : o \in ops}

MCInstructions ==
  Of({"ADD", "SUB", "MUL", "AND", "OR", "XOR", "SLT", "SLTU", "SRAV", "SHLV",
      "SHRV", "ROL", "ROR", "CLZ", "CLO", "MOVZ", "MOVN", "CMP", "JLE", "BEQ",
      "BNE", "MULT", "MULTU", "DIV", "DIVU", "MFHI", "MFLO", "MTHI", "MTLO"}, 0)
  \cup UNION {Of({"ADDIU", "SLTI", "SLTIU", "ANDI", "ORI", "XORI", "LUI",
                  "LD", "LH", "LB", "LHU", "LBU", "ST", "SH", "SB"}, c) : c \in {1, 3}}
  \cup UNION {Of({"SRA", "SHL", "SHR", "ROLI", "RORI"}, c) : c \in {0, 1, 3, 4, 6}}
  \cup {[op |-> "CMP", ra |-> 1, rb |-> 1, rc |-> 1, c |-> 0]}
  \cup Of({"MFC0", "MTC0", "C0MOV"}, EPC) \cup Of({"MFC0", "MTC0"}, PC)
  (* The status word as the source, the target and an operand of CMP.      *)
  \cup {[op |-> o, ra |-> 1, rb |-> SW, rc |-> 2, c |-> 0] : o \in {"ADD", "CMP", "MTLO"}}
  \cup {[op |-> o, ra |-> SW, rb |-> 1, rc |-> 2, c |-> 0] : o \in {"ADD", "XOR", "MOVN", "CMP"}}
==============================================================================
