-------------------------------- MODULE Alu ----------------------------------
(***************************************************************************)
(* The data instructions of run_loop (simulator/cpu.c): loads and stores,  *)
(* arithmetic, shifts, comparison and the jumps that follow it, multiply,  *)
(* divide and the moves of the coprocessor's registers.                    *)
(*                                                                         *)
(* A register has BITS bits, 32 in the code; a half word half of them and  *)
(* a byte a quarter.  What C leaves open is what the build does on its     *)
(* host: sums wrap, a shift counts modulo BITS, a division that has no     *)
(* result ends the process.  Calls and PC are the business of RunLoop: a   *)
(* jump only says here whether it is taken, and PC, which the guest can    *)
(* read and write as a register of the coprocessor, holds any word.        *)
(***************************************************************************)
EXTENDS Integers

CONSTANTS
  BITS,         (* the width of a register                               *)
  Registers,    (* the general registers guests compute in, SW included  *)
  Instructions, (* the instructions guests are made of                   *)
  MaxTurns,     (* bound: instructions in a run                          *)
  BitAnd(_, _), (* C's x & y,                                            *)
  BitOr(_, _),  (* x | y                                                 *)
  BitXor(_, _)  (* and x ^ y                                             *)

WORD == 2^BITS
Word == 0 .. WORD - 1
HALF == BITS \div 2
BYTE == BITS \div 4

(* The status word is a general register, of which N, Z and V are bits.    *)
SW == 15
N == 0
Z == 1
V == 3

(* The coprocessor's registers; PC is not among those kept here.           *)
PC  == 0
EPC == 1
HI  == 2
LO  == 3
Coprocessor == {EPC, HI, LO}

ASSUME WidthAssumption ==
  /\ BITS \in Nat /\ BITS % 4 = 0 /\ BITS > 0
  /\ MaxTurns \in Nat /\ SW \in Registers

BitOf(x, k) == (x \div 2^k) % 2

(* C's bitwise operators take words to words, bit by bit.                  *)
ASSUME BitwiseAssumption ==
  \A x, y \in Word :
    /\ BitAnd(x, y) \in Word /\ BitOr(x, y) \in Word /\ BitXor(x, y) \in Word
    /\ \A k \in 0 .. BITS - 1 :
         /\ (BitOf(BitAnd(x, y), k) = 1) = (BitOf(x, k) = 1 /\ BitOf(y, k) = 1)
         /\ (BitOf(BitOr(x, y), k) = 1) = (BitOf(x, k) = 1 \/ BitOf(y, k) = 1)
         /\ (BitOf(BitXor(x, y), k) = 1) = (BitOf(x, k) # BitOf(y, k))

(* What the fields of an instruction hold: c12 is a shift's count, c16 has *)
(* half a word's bits.  A register of the coprocessor is one of its four:  *)
(* the code indexes what lies behind them in the host's memory by the rest.*)
ASSUME InstructionAssumption ==
  \A i \in Instructions :
    /\ i.ra \in Registers /\ i.rb \in Registers /\ i.rc \in Registers /\ i.c \in Nat
    /\ i.op \notin {"SRA", "SHL", "SHR", "ROLI", "RORI"} => i.c < 2^HALF
    /\ i.op \in {"MFC0", "MTC0", "C0MOV"} => i.c \in Coprocessor \cup {PC}

VARIABLES
  regs,        (* cpu->core.regs                                           *)
  cop,         (* cpu->cp.regs                                             *)
  mem,         (* the bytes of one word of the guest's memory              *)
  jumped,      (* the last instruction sent the guest elsewhere            *)
  alive,       (* the host's process is                                    *)
  turns,       (* the instructions executed                                *)
  (* History of what was computed, for the properties only.                *)
  last,        (* the last instruction that computed a value               *)
  compared,    (* those of the CMP that N and Z come from                  *)
  multiplied,  (* those of the MULT or MULTU that HI and LO come from      *)
  divided      (* those of the DIV that they come from                     *)

history == <<last, compared, multiplied, divided>>
vars == <<regs, cop, mem, jumped, alive, turns,
          last, compared, multiplied, divided>>

NoResult == [op |-> "none", x |-> 0, y |-> 0, r |-> 0]

-----------------------------------------------------------------------------
(* Words.                                                                  *)

(* Seeded fault: results keep their carry.                                 *)
Unwrapped(n) == n

Wrap(n) == n % WORD

Signed(x) == IF 2 * x >= WORD THEN x - WORD ELSE x

(* A field of n bits as a word: c16 and c12, LB and LH.                    *)
SignExtend(v, n) == IF 2 * v >= 2^n THEN Wrap(v - 2^n) ELSE v

MSB == 2^(BITS - 1)

(* The host's shift instructions take the count modulo the width.          *)
Count(n) == n % BITS
Shl(x, n) == Wrap(x * 2^Count(n))
Shr(x, n) == x \div 2^Count(n)
Sar(x, n) == Wrap(Signed(x) \div 2^Count(n))

(* Seeded fault: the word is shifted as an unsigned one.                   *)
SraUnsigned(x, n) == BitOr(BitAnd(x, MSB), Shr(x, n))

ROL32(x, n) == BitOr(Shl(x, n), Shr(x, BITS - n))
ROR32(x, n) == BitOr(Shr(x, n), Shl(x, BITS - n))
SRA32(x, n) == BitOr(BitAnd(x, MSB), Sar(x, n))

(* `n & 0x80000000 == 0` is n & 0, so the loop of CLZ is never entered;    *)
(* `n & 0x80000000 == 0x80000000` is n & 1, and one shift clears that bit. *)
CLZ32(x) == 0
CLO32(x) == x % 2

Abs(i) == IF i < 0 THEN -i ELSE i

(* Seeded fault: the quotient is rounded down.                             *)
QuotientFloor(i, j) == IF j < 0 THEN (-i) \div (-j) ELSE i \div j

(* C's division truncates towards zero.                                    *)
Quotient(i, j) == IF (i < 0) = (j < 0) THEN Abs(i) \div Abs(j)
                                       ELSE - (Abs(i) \div Abs(j))
Remainder(i, j) == i - j * Quotient(i, j)

Bit(b) == IF b THEN 1 ELSE 0

(* The value of an instruction of two operands.                            *)
Value(op, x, y) ==
  CASE op \in {"ADD", "ADDU"} -> Wrap(x + y)
    [] op \in {"SUB", "SUBU"} -> Wrap(x - y)
    [] op = "MUL"  -> Wrap(x * y)
    [] op = "AND"  -> BitAnd(x, y)
    [] op = "OR"   -> BitOr(x, y)
    [] op = "XOR"  -> BitXor(x, y)
    [] op = "SLT"  -> Bit(Signed(x) < Signed(y))
    [] op = "SLTU" -> Bit(x < y)
    [] op = "SRAV" -> SRA32(x, y)
    [] op = "SHLV" -> Shl(x, y)
    [] op = "SHRV" -> Shr(x, y)
    [] op = "ROL"  -> ROL32(x, y)
    [] op = "ROR"  -> ROR32(x, y)
    [] op = "CLZ"  -> CLZ32(x)
    [] op = "CLO"  -> CLO32(x)

(* The immediate forms, each with the form it is the same as.              *)
Plain ==
  [ADDIU |-> "ADDU", SLTI |-> "SLT", SLTIU |-> "SLTU", ANDI |-> "AND",
   ORI |-> "OR", XORI |-> "XOR", SRA |-> "SRAV", SHL |-> "SHLV",
   SHR |-> "SHRV", ROLI |-> "ROL", RORI |-> "ROR"]

(* Seeded fault: the immediate of the logical instructions is signed too.  *)
ImmediateSigned(op, c) ==
  IF op \in {"SRA", "SHL", "SHR", "ROLI", "RORI"} THEN c ELSE SignExtend(c, HALF)

(* c16 is sign-extended, and cut to its field again by ANDI, ORI and XORI; *)
(* c12 is a shift's count.                                                 *)
Immediate(op, c) ==
  IF op \in {"ADDIU", "SLTI", "SLTIU"} THEN SignExtend(c, HALF) ELSE c

-----------------------------------------------------------------------------
(* Any registers, whatever ran before; the status word as vm_create        *)
(* clears it.                                                              *)
Init ==
  /\ regs \in [Registers -> Word] /\ regs[SW] = 0
  /\ cop = [r \in Coprocessor |-> 0]
  /\ mem = [i \in 0 .. 3 |-> 0]
  /\ jumped = FALSE /\ alive = TRUE /\ turns = 0
  /\ last = NoResult /\ compared = <<>> /\ multiplied = <<>> /\ divided = <<>>

(* Fetch and decode: the fields of the instruction i.                      *)
Executes(i, ops) ==
  /\ alive /\ turns < MaxTurns
  /\ i.op \in ops
  /\ turns' = turns + 1
  /\ alive' = TRUE

(* The word x with its bit k set or cleared.                               *)
WithBit(x, k, b) == x + (Bit(b) - BitOf(x, k)) * 2^k

(* `t > 0xFFFFFFFF`: the sum, an int, has been extended to 64 bits, so it  *)
(* exceeds 32 of them when it is negative.  Nothing clears V.              *)
Flagged(op, v) ==
  IF op \in {"ADD", "MUL"} /\ v >= MSB
  THEN [regs EXCEPT ![SW] = WithBit(regs[SW], V, TRUE)] ELSE regs

(* Register a gets the value v, after the flags have been set in r.  What  *)
(* is written to SW takes the place of what a comparison left there.       *)
Assign(r, a, v) ==
  /\ regs' = [r EXCEPT ![a] = v]
  /\ compared' = IF a = SW THEN <<>> ELSE compared

Computes(i, op, x, y) ==
  /\ Assign(Flagged(i.op, Value(op, x, y)), i.ra, Value(op, x, y))
  /\ last' = [op |-> i.op, x |-> x, y |-> y, r |-> Value(op, x, y)]
  /\ jumped' = FALSE
  /\ UNCHANGED <<cop, mem, multiplied, divided>>

ThreeRegisters(i) ==
  /\ Executes(i, {"ADD", "ADDU", "SUB", "SUBU", "MUL", "AND", "OR", "XOR",
                  "SLT", "SLTU", "SRAV", "SHLV", "SHRV", "ROL", "ROR"})
  /\ Computes(i, i.op, regs[i.rb], regs[i.rc])

CountBits(i) ==
  /\ Executes(i, {"CLZ", "CLO"})
  /\ Computes(i, i.op, regs[i.rb], 0)

WithImmediate(i) ==
  /\ Executes(i, DOMAIN Plain)
  /\ Computes(i, Plain[i.op], regs[i.rb], Immediate(i.op, i.c))

LoadUpper(i) ==
  /\ Executes(i, {"LUI"})
  /\ Assign(regs, i.ra, Wrap(i.c * 2^HALF))
  /\ jumped' = FALSE
  /\ UNCHANGED <<cop, mem, last, multiplied, divided>>

MoveIf(i) ==
  /\ Executes(i, {"MOVZ", "MOVN"})
  /\ Assign(regs, i.ra, IF (i.op = "MOVZ") = (regs[i.rc] = 0)
                        THEN regs[i.rb] ELSE regs[i.ra])
  /\ jumped' = FALSE
  /\ UNCHANGED <<cop, mem, last, multiplied, divided>>

-----------------------------------------------------------------------------
(* Memory, whose lowest byte comes first on the host.                      *)

Width(op) == CASE op \in {"LD", "ST"} -> 4
               [] op \in {"LH", "LHU", "SH"} -> 2
               [] op \in {"LB", "LBU", "SB"} -> 1

(* base + rb + c16, within the memory.                                     *)
At(i) == Wrap(regs[i.rb] + SignExtend(i.c, HALF))
InMemory(i) == At(i) + Width(i.op) <= 4

(* The bytes from a upwards as one number, and back.                       *)
Fetched(a, n) == IF n = 4 THEN mem[0] + 2^BYTE * (mem[1] + 2^BYTE * (mem[2] + 2^BYTE * mem[3]))
                 ELSE IF n = 2 THEN mem[a] + 2^BYTE * mem[a + 1] ELSE mem[a]

Load(i) ==
  /\ Executes(i, {"LD", "LH", "LHU", "LB", "LBU"})
  /\ InMemory(i)
  /\ LET v == Fetched(At(i), Width(i.op))
     IN  Assign(regs, i.ra, IF i.op \in {"LH", "LB"}
                            THEN SignExtend(v, Width(i.op) * BYTE) ELSE v)
  /\ jumped' = FALSE
  /\ UNCHANGED <<cop, mem, last, multiplied, divided>>

Store(i) ==
  /\ Executes(i, {"ST", "SH", "SB"})
  /\ InMemory(i)
  /\ mem' = [k \in DOMAIN mem |->
               IF k \in At(i) .. At(i) + Width(i.op) - 1
               THEN (regs[i.ra] \div 2^(BYTE * (k - At(i)))) % 2^BYTE ELSE mem[k]]
  /\ jumped' = FALSE
  /\ UNCHANGED <<regs, cop, history>>

-----------------------------------------------------------------------------
(* Comparison and jumps.                                                   *)

(* Seeded fault: Z is not cleared by operands that differ.                 *)
CompareKeepsZ(i) ==
  /\ Executes(i, {"CMP"})
  /\ LET t == Signed(Wrap(regs[i.ra] - regs[i.rb]))
     IN  regs' = [regs EXCEPT ![SW] =
                    WithBit(WithBit(regs[SW], N, t < 0), Z, t = 0 \/ BitOf(regs[SW], Z) = 1)]
  /\ compared' = <<regs[i.ra], regs[i.rb]>>
  /\ jumped' = FALSE
  /\ UNCHANGED <<cop, mem, last, multiplied, divided>>

(* The difference of two ints is an int again.                             *)
Compare(i) ==
  /\ Executes(i, {"CMP"})
  /\ LET t == Signed(Wrap(regs[i.ra] - regs[i.rb]))
     IN  regs' = [regs EXCEPT ![SW] = WithBit(WithBit(regs[SW], N, t < 0), Z, t = 0)]
  /\ compared' = <<regs[i.ra], regs[i.rb]>>
  /\ jumped' = FALSE
  /\ UNCHANGED <<cop, mem, last, multiplied, divided>>

Flag(k) == BitOf(regs[SW], k) = 1

Taken(op) ==
  CASE op = "JEQ" -> ~ Flag(N) /\ Flag(Z)
    [] op = "JNE" -> ~ Flag(Z)
    [] op = "JLT" -> Flag(N) /\ ~ Flag(Z)
    [] op = "JGT" -> ~ Flag(N) /\ ~ Flag(Z)
    [] op = "JLE" -> Flag(N) \/ Flag(Z)
    [] op = "JGE" -> ~ Flag(N) \/ Flag(Z)

Jump(i) ==
  /\ Executes(i, {"JEQ", "JNE", "JLT", "JGT", "JLE", "JGE"})
  /\ jumped' = Taken(i.op)
  /\ UNCHANGED <<regs, cop, mem, history>>

BranchOnRegisters(i) ==
  /\ Executes(i, {"BEQ", "BNE"})
  /\ jumped' = ((i.op = "BEQ") = (regs[i.ra] = regs[i.rb]))
  /\ UNCHANGED <<regs, cop, mem, history>>

-----------------------------------------------------------------------------
(* The coprocessor.                                                        *)

HiLo(h, l) == cop' = [cop EXCEPT ![HI] = h, ![LO] = l]

(* Seeded fault: HI never gets a sign.                                     *)
MultiplyKeepsNoSign(i) ==
  /\ Executes(i, {"MULT", "MULTU"})
  /\ HiLo(0, Wrap(regs[i.ra] * regs[i.rb]))
  /\ multiplied' = <<i.op, regs[i.ra], regs[i.rb]>> /\ divided' = <<>>
  /\ jumped' = FALSE
  /\ UNCHANGED <<regs, mem, last, compared>>

(* The product is one of 32 bits before it is put into 64: HI gets its     *)
(* sign from MULT, and nothing from MULTU.                                 *)
Multiply(i) ==
  /\ Executes(i, {"MULT", "MULTU"})
  /\ LET t == Wrap(regs[i.ra] * regs[i.rb])
     IN  HiLo(IF i.op = "MULT" /\ Signed(t) < 0 THEN WORD - 1 ELSE 0, t)
  /\ multiplied' = <<i.op, regs[i.ra], regs[i.rb]>> /\ divided' = <<>>
  /\ jumped' = FALSE
  /\ UNCHANGED <<regs, mem, last, compared>>

(* No result: 0 divides nothing, and the quotient of the least int by -1   *)
(* is none.                                                                *)
Traps(i) == \/ regs[i.rb] = 0
            \/ i.op = "DIV" /\ regs[i.ra] = MSB /\ regs[i.rb] = WORD - 1

Divide(i) ==
  /\ Executes(i, {"DIV", "DIVU"})
  /\ ~ Traps(i)
  /\ LET x == IF i.op = "DIV" THEN Signed(regs[i.ra]) ELSE regs[i.ra]
         y == IF i.op = "DIV" THEN Signed(regs[i.rb]) ELSE regs[i.rb]
     IN  /\ HiLo(Wrap(Remainder(x, y)), Wrap(Quotient(x, y)))
         /\ divided' = <<i.op, x, y>>
  /\ multiplied' = <<>>
  /\ jumped' = FALSE
  /\ UNCHANGED <<regs, mem, last, compared>>

(* The host receives SIGFPE.                                               *)
DivideTraps(i) ==
  /\ alive /\ turns < MaxTurns
  /\ i.op \in {"DIV", "DIVU"} /\ Traps(i)
  /\ alive' = FALSE
  /\ UNCHANGED <<regs, cop, mem, jumped, turns, history>>

(* What can be read from a register of the coprocessor.                    *)
Held(c) == IF c = PC THEN Word ELSE {cop[c]}

MoveFrom(i) ==
  /\ Executes(i, {"MFHI", "MFLO", "MFC0"})
  /\ \E v \in Held(CASE i.op = "MFHI" -> HI [] i.op = "MFLO" -> LO [] i.op = "MFC0" -> i.c) :
       Assign(regs, i.ra, v)
  /\ jumped' = FALSE
  /\ UNCHANGED <<cop, mem, last, multiplied, divided>>

(* MTHI takes its value from ra, MTLO from rb.  C0MOV, for which the code  *)
(* indexes the general registers, is MTC0 under another name.  One to PC   *)
(* is a jump.                                                              *)
MoveTo(i) ==
  /\ Executes(i, {"MTHI", "MTLO", "MTC0", "C0MOV"})
  /\ LET c == CASE i.op = "MTHI" -> HI [] i.op = "MTLO" -> LO
                [] i.op \in {"MTC0", "C0MOV"} -> i.c
         v == IF i.op = "MTHI" THEN regs[i.ra] ELSE regs[i.rb]
     IN  /\ cop' = [r \in Coprocessor |-> IF r = c THEN v ELSE cop[r]]
         /\ jumped' = (c = PC)
         /\ IF c \in {HI, LO} THEN multiplied' = <<>> /\ divided' = <<>>
                              ELSE UNCHANGED <<multiplied, divided>>
  /\ UNCHANGED <<regs, mem, last, compared>>

-----------------------------------------------------------------------------
Execute(i) ==
  \/ ThreeRegisters(i) \/ CountBits(i) \/ WithImmediate(i) \/ LoadUpper(i) \/ MoveIf(i)
  \/ Load(i) \/ Store(i)
  \/ Compare(i) \/ Jump(i) \/ BranchOnRegisters(i)
  \/ Multiply(i) \/ Divide(i) \/ DivideTraps(i) \/ MoveFrom(i) \/ MoveTo(i)

Next == \E i \in Instructions : Execute(i)

Spec == Init /\ [][Next]_vars

-----------------------------------------------------------------------------
(* Type invariant: what the instructions leave in the registers are words, *)
(* whatever sums, products and shifts they come from.                      *)
TypeOK ==
  /\ regs \in [Registers -> Word]
  /\ cop \in [Coprocessor -> Word]
  /\ mem \in [0 .. 3 -> 0 .. 2^BYTE - 1]
  /\ jumped \in BOOLEAN /\ alive \in BOOLEAN /\ turns \in 0 .. MaxTurns

Relation(op, x, y) ==
  CASE op = "JEQ" -> x = y [] op = "JNE" -> x # y
    [] op = "JLT" -> x < y [] op = "JGT" -> x > y
    [] op = "JLE" -> x <= y [] op = "JGE" -> x >= y

JumpsFollow(x, y) ==
  \A op \in {"JEQ", "JNE", "JLT", "JGT", "JLE", "JGE"} : Taken(op) = Relation(op, x, y)

(* A jump after a comparison goes where the signed relation of the two     *)
(* compared values says, whatever is computed in between (ADD and MUL      *)
(* write the status word too) that does not use it as a register, when     *)
(* their difference is an int.                                             *)
ComparisonDecides ==
  compared # <<>> =>
    LET x == Signed(compared[1])
        y == Signed(compared[2])
    IN  x - y \in -MSB .. MSB - 1 => JumpsFollow(x, y)

(* LO and HI hold quotient and remainder of the last division as C defines *)
(* them: they give the dividend back, the remainder is smaller than the    *)
(* divisor and has the dividend's sign.                                    *)
QuotientAndRemainder ==
  divided # <<>> =>
    LET value(v) == IF divided[1] = "DIV" THEN Signed(v) ELSE v
        q == value(cop[LO])
        r == value(cop[HI])
    IN  /\ q * divided[3] + r = divided[2]
        /\ Abs(r) < Abs(divided[3])
        /\ r # 0 => (r < 0) = (divided[2] < 0)

(* HI and LO together hold the product of a multiplication, sign and all,  *)
(* until something else is put into them: a product that is an int after   *)
(* MULT, one that is a word after MULTU.  Of others the upper half is lost.*)
ProductInHiLo ==
  multiplied # <<>> =>
    LET signed   == multiplied[1] = "MULT"
        value(v) == IF signed THEN Signed(v) ELSE v
        product  == value(multiplied[2]) * value(multiplied[3])
    IN  product \in (IF signed THEN -MSB .. MSB - 1 ELSE Word) =>
          value(cop[HI]) * WORD + cop[LO] = product

(* Every bit of a shifted or rotated value is the bit of the operand it    *)
(* should be, whether the count is 0, the width, or beyond it.             *)
ShiftsMoveBits ==
  LET op == IF last.op \in DOMAIN Plain THEN Plain[last.op] ELSE last.op
      n  == Count(last.y)
      is(from(_)) == \A k \in 0 .. BITS - 1 : BitOf(last.r, k) = from(k)
      bit(k) == IF k \in 0 .. BITS - 1 THEN BitOf(last.x, k) ELSE 0
  IN  /\ op = "ROL"  => is(LAMBDA k : bit((k - n) % BITS))
      /\ op = "ROR"  => is(LAMBDA k : bit((k + n) % BITS))
      /\ op = "SHLV" => is(LAMBDA k : bit(k - n))
      /\ op = "SHRV" => is(LAMBDA k : bit(k + n))
      /\ op = "SRAV" => is(LAMBDA k : IF k + n < BITS THEN bit(k + n) ELSE bit(BITS - 1))

(* A logical immediate reaches the lower half of a word only: LUI and ORI  *)
(* build every constant, though the loop has extended the sign of c16.     *)
ImmediatesKeepUpperHalf ==
  /\ last.op \in {"ORI", "XORI"} => last.r \div 2^HALF = last.x \div 2^HALF
  /\ last.op = "ANDI" => last.r < 2^HALF

(* HI and LO hold the result of the operation that is recorded as theirs:  *)
(* quotient and remainder, or the product, whatever ran in between.        *)
HiLoInv == QuotientAndRemainder /\ ProductInHiLo

(* The general registers hold words, and the word the shift, rotation or   *)
(* logical instruction executed last stands for.                           *)
ValueInv == TypeOK /\ ShiftsMoveBits /\ ImmediatesKeepUpperHalf
==============================================================================
