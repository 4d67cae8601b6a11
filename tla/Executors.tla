----------------------------- MODULE Executors -----------------------------
(***************************************************************************)
(* The arithmetic of src/Executors.cpp on words of WordBits bits, 32 in    *)
(* the program.  A word is an unsigned number; Signed is what a cast to    *)
(* int32_t makes of it.  The second operand is rs2 or the immediate.       *)
(***************************************************************************)
EXTENDS Integers

CONSTANT WordBits

ASSUME WordBitsAssumption == WordBits \in Nat \ {0}

\* 1 << n
Power[n \in Nat] == IF n = 0 THEN 1 ELSE 2 * Power[n - 1]

Modulus == Power[WordBits]
Word    == 0 .. Modulus - 1
Place   == 0 .. WordBits - 1

BitOf(x, i) == (x \div Power[i]) % 2
Bits(x) == {i \in Place : BitOf(x, i) = 1}

\* The word that has these bits.
Composed(bits) == CHOOSE x \in Word : Bits(x) = bits

\* A mutant of Signed: the cast is forgotten.
Unsigned(x) == x

Signed(x) == IF x >= Power[WordBits - 1] THEN x - Modulus ELSE x
Flag(p) == IF p THEN 1 ELSE 0

BranchNames == {"BEQ", "BNE", "BLT", "BGE", "BLTU", "BGEU"}
AluNames ==
  {"LUI", "AUIPC", "ADDI", "SLTI", "SLTIU", "XORI", "ORI", "ANDI", "SLLI", "SRLI",
   "SRAI", "ADD", "SUB", "SLL", "SLT", "SLTU", "XOR", "SRL", "SRA", "OR", "AND"}

\* A mutant of Shift: the mask is one bit short.
ShiftShort(y) == y % (WordBits \div 2)

\* imm & 0b11111 in SLLI, SRLI and SRAI.  SLL, SRL and SRA have no mask, and C++
\* leaves amounts from WordBits on undefined; assumed here is what the shift
\* instructions of the machines the program is built for do, which count modulo
\* the width of the word.
Shift(y) == y % WordBits

\* The value the executor of an instruction with operands x and y puts in rd.
\* AUIPC adds the immediate to the pc.  ANDI and XORI have each other's operator.
Result(n, x, y) ==
  CASE n = "LUI" -> y
    [] n \in {"ADD", "ADDI", "AUIPC"} -> (x + y) % Modulus
    [] n = "SUB" -> (x - y) % Modulus
    [] n \in {"SLT", "SLTI"} -> Flag(Signed(x) < Signed(y))
    [] n \in {"SLTU", "SLTIU"} -> Flag(x < y)
    [] n \in {"XOR", "ANDI"} -> Composed((Bits(x) \ Bits(y)) \cup (Bits(y) \ Bits(x)))
    [] n \in {"OR", "ORI"} -> Composed(Bits(x) \cup Bits(y))
    [] n \in {"AND", "XORI"} -> Composed(Bits(x) \cap Bits(y))
    [] n \in {"SLL", "SLLI"} -> (x * Power[Shift(y)]) % Modulus
    [] n \in {"SRL", "SRLI"} -> x \div Power[Shift(y)]
    [] n \in {"SRA", "SRAI"} -> (Signed(x) \div Power[Shift(y)]) % Modulus

\* Whether the executor of a branch takes it.
Taken(n, x, y) ==
  CASE n = "BEQ" -> x = y
    [] n = "BNE" -> x # y
    [] n = "BLT" -> Signed(x) < Signed(y)
    [] n = "BGE" -> Signed(x) >= Signed(y)
    [] n = "BLTU" -> x < y
    [] n = "BGEU" -> x >= y

-----------------------------------------------------------------------------
\* RV32I, bit by bit and without wrapping arithmetic.
SignOf(x) == BitOf(x, WordBits - 1)
Amount(y) == y % WordBits
LessSigned(x, y) ==
  \/ SignOf(x) = 1 /\ SignOf(y) = 0
  \/ SignOf(x) = SignOf(y) /\ x < y

\* Bit i of rd, for the instructions defined bit by bit.
SpecBit(n, x, y, i) ==
  CASE n \in {"AND", "ANDI"} -> BitOf(x, i) * BitOf(y, i)
    [] n \in {"OR", "ORI"} -> Flag(BitOf(x, i) + BitOf(y, i) > 0)
    [] n \in {"XOR", "XORI"} -> Flag(BitOf(x, i) # BitOf(y, i))
    [] n \in {"SLL", "SLLI"} -> IF i < Amount(y) THEN 0 ELSE BitOf(x, i - Amount(y))
    [] n \in {"SRL", "SRLI"} ->
         IF i + Amount(y) < WordBits THEN BitOf(x, i + Amount(y)) ELSE 0
    [] n \in {"SRA", "SRAI"} ->
         IF i + Amount(y) < WordBits THEN BitOf(x, i + Amount(y)) ELSE SignOf(x)

SpecValue(n, x, y) ==
  CASE n = "LUI" -> y
    [] n \in {"ADD", "ADDI", "AUIPC"} -> IF x + y < Modulus THEN x + y
                                         ELSE x + y - Modulus
    [] n = "SUB" -> IF x >= y THEN x - y ELSE x - y + Modulus
    [] n \in {"SLT", "SLTI"} -> Flag(LessSigned(x, y))
    [] n \in {"SLTU", "SLTIU"} -> Flag(x < y)

BitwiseNames ==
  {"AND", "ANDI", "OR", "ORI", "XOR", "XORI", "SLL", "SLLI", "SRL", "SRLI", "SRA",
   "SRAI"}

\* What RV32I demands of the rd of an arithmetic instruction.
Computes(n, x, y, value) ==
  IF n \in BitwiseNames
    THEN value \in Word /\ \A i \in Place :
                             BitOf(value, i) = SpecBit(n, x, y, i)
    ELSE value = SpecValue(n, x, y)

\* The condition of a branch in RV32I.
Condition(n, x, y) ==
  CASE n = "BEQ" -> \A i \in Place : BitOf(x, i) = BitOf(y, i)
    [] n = "BNE" -> \E i \in Place : BitOf(x, i) # BitOf(y, i)
    [] n = "BLT" -> LessSigned(x, y)
    [] n = "BGE" -> ~LessSigned(x, y)
    [] n = "BLTU" -> SpecValue("SLTU", x, y) = 1
    [] n = "BGEU" -> SpecValue("SLTU", x, y) = 0
=============================================================================
