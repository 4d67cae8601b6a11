----------------------------- MODULE Assembler ------------------------------
(***************************************************************************)
(* The formats in which RV32I encodes its instructions, and what decoding  *)
(* must make of a word: the instruction the assembler meant, with its      *)
(* registers and its immediate.  A decoder step takes one word.            *)
(***************************************************************************)
EXTENDS Encoding, FiniteSets

CONSTANTS
  Sources,       \* instructions as written
  RawWords       \* words of memory that need not be instructions

VARIABLES
  source,        \* the instruction the assembler encoded, or NoSource
  instr,         \* Decoder::instr
  decoded        \* what decode has found in it

vars == <<source, instr, decoded>>

\* The immediate scattered over the word, format by format.
Scattered(format, imm) ==
  CASE format = "I" -> Moved(imm, 0, 11, 20)
    [] format = "S" -> Moved(imm, 0, 4, 7) \cup Moved(imm, 5, 11, 25)
    [] format = "B" -> Moved(imm, 11, 11, 7) \cup Moved(imm, 1, 4, 8)
                         \cup Moved(imm, 5, 10, 25) \cup Moved(imm, 12, 12, 31)
    [] format = "U" -> imm \cap 12 .. 31
    [] format = "J" -> (imm \cap 12 .. 19) \cup Moved(imm, 11, 11, 20)
                         \cup Moved(imm, 1, 10, 21) \cup Moved(imm, 20, 20, 31)
    [] OTHER -> {}

\* The other fields of the format, and the bits they occupy.
HasRd(format)  == format \in {"R", "I", "U", "J"}
HasRs1(format) == format \in {"R", "I", "S", "B"}
HasRs2(format) == format \in {"R", "S", "B"}
Funct3Bits(n) ==
  (IF n \in {1, 3, 5, 7} THEN {12} ELSE {}) \cup (IF n \in {2, 3, 6, 7} THEN {13} ELSE {})
    \cup (IF n \in 4 .. 7 THEN {14} ELSE {})

Encoded(s) ==
  s.opcode \cup Scattered(s.format, s.imm)
    \cup (IF HasRd(s.format) THEN Moved(s.rd, 0, 4, 7) ELSE {})
    \cup (IF HasRs1(s.format) THEN Moved(s.rs1, 0, 4, 15) ELSE {})
    \cup (IF HasRs2(s.format) THEN Moved(s.rs2, 0, 4, 20) ELSE {})
    \cup (IF s.format \in {"U", "J"} THEN {} ELSE Funct3Bits(s.funct3))
    \cup Moved(s.funct7, 0, 6, 25)

\* The immediates a format can carry: sign-extended numbers of 12 bits, even
\* ones of 13 and 21 bits, and the upper 20 bits.
SignedFrom(imm, lo) == lo .. 31 \subseteq imm \/ lo .. 31 \cap imm = {}
Carries(format, imm) ==
  CASE format \in {"I", "S"} -> SignedFrom(imm, 11)
    [] format = "B" -> SignedFrom(imm, 12) /\ 0 \notin imm
    [] format = "U" -> imm \subseteq 12 .. 31
    [] format = "J" -> SignedFrom(imm, 20) /\ 0 \notin imm
    [] OTHER -> imm = {}

\* The instructions of RV32I and their encodings: format, opcode, funct3, funct7.
Row(name, format, opcode, f3, f7) ==
  [name |-> name, format |-> format, opcode |-> opcode, funct3 |-> f3,
   funct7 |-> f7]

Rows ==
  {Row("LUI", "U", LUI, 0, {}), Row("AUIPC", "U", AUIPC, 0, {}),
   Row("JAL", "J", JAL, 0, {}), Row("JALR", "I", JALR, 0, {}),
   Row("BEQ", "B", BRANCH, 0, {}), Row("BNE", "B", BRANCH, 1, {}),
   Row("BLT", "B", BRANCH, 4, {}), Row("BGE", "B", BRANCH, 5, {}),
   Row("BLTU", "B", BRANCH, 6, {}), Row("BGEU", "B", BRANCH, 7, {}),
   Row("LB", "I", LOAD, 0, {}), Row("LH", "I", LOAD, 1, {}),
   Row("LW", "I", LOAD, 2, {}), Row("LBU", "I", LOAD, 4, {}),
   Row("LHU", "I", LOAD, 5, {}), Row("SB", "S", STORE, 0, {}),
   Row("SH", "S", STORE, 1, {}), Row("SW", "S", STORE, 2, {}),
   Row("ADDI", "I", OPIMM, 0, {}), Row("SLTI", "I", OPIMM, 2, {}),
   Row("SLTIU", "I", OPIMM, 3, {}), Row("XORI", "I", OPIMM, 4, {}),
   Row("ORI", "I", OPIMM, 6, {}), Row("ANDI", "I", OPIMM, 7, {}),
   Row("SLLI", "I", OPIMM, 1, {}), Row("SRLI", "I", OPIMM, 5, {}),
   Row("SRAI", "I", OPIMM, 5, {5}), Row("ADD", "R", OP, 0, {}),
   Row("SUB", "R", OP, 0, {5}), Row("SLL", "R", OP, 1, {}),
   Row("SLT", "R", OP, 2, {}), Row("SLTU", "R", OP, 3, {}),
   Row("XOR", "R", OP, 4, {}), Row("SRL", "R", OP, 5, {}),
   Row("SRA", "R", OP, 5, {5}), Row("OR", "R", OP, 6, {}),
   Row("AND", "R", OP, 7, {}), Row("ECALL", "SYSTEM", SYSTEM, 0, {})}

\* A row of the table with registers of five bits and an immediate its format
\* carries, of which a shift takes its amount.
IsShift(row) == row.name \in {"SLLI", "SRLI", "SRAI"}
RegBits == SUBSET (0 .. 4)
IsInstruction(s) ==
  /\ Row(s.name, s.format, s.opcode, s.funct3, s.funct7) \in Rows
  /\ s.rd \in RegBits /\ s.rs1 \in RegBits /\ s.rs2 \in RegBits
  /\ s.imm \in IF IsShift(s) THEN RegBits ELSE BitWord
  /\ Carries(s.format, s.imm)

ASSUME SourcesAssumption == \A s \in Sources : IsInstruction(s)

NoSource == [format |-> "NONE"]
Undecoded == [info |-> "NONE"]

-----------------------------------------------------------------------------
Init ==
  /\ \/ source \in Sources /\ instr = Encoded(source)
     \/ source = NoSource /\ instr \in RawWords
  /\ decoded = Undecoded

\* Decoder::decode: extraction, recognize and calc_imm.
decode ==
  /\ decoded = Undecoded
  /\ decoded' = [info |-> recognize(instr), rd |-> Rd(instr), rs1 |-> Rs1(instr),
                 rs2 |-> Rs2(instr),
                 imm |-> calc_imm(instr, recognize(instr).type)]
  /\ UNCHANGED <<source, instr>>

Next == decode

Spec == Init /\ [][Next]_vars

-----------------------------------------------------------------------------
\* An immediate shift carries funct7 above the five bits of its amount.
MeantImm(s) == s.imm \cup Moved(s.funct7, 0, 6, 5)

\* Decoding finds the name, the registers and the immediate that the assembler
\* put into the word, however they are scattered over it.
DecodesAssembled ==
  decoded # Undecoded /\ source # NoSource =>
    /\ decoded.info.name = source.name
    /\ decoded.info.type = source.format
    /\ HasRd(source.format)  => decoded.rd = source.rd
    /\ HasRs1(source.format) => decoded.rs1 = source.rs1
    /\ HasRs2(source.format) => decoded.rs2 = source.rs2
    /\ source.format \in {"I", "S", "B", "U", "J"} =>
         decoded.imm = MeantImm(source)

\* What the pipeline takes for granted of a recognised word, instruction or not:
\* an access to memory has a size, a load is of type I and a store of type S; a
\* jump has is_branch; a store or an instruction with a name has an executor, and
\* the executor of an undefined load is the only one an unnamed word may have.
\* With this, the pipeline's words are those of RecognizedAssumption.
WellFormed(info) ==
  /\ info.mem_acc_type # "NONE" <=> info.acc_size # 0
  /\ info.mem_acc_type = "READ" => info.type = "I" /\ info.executor = "Load"
  /\ info.mem_acc_type = "WRITE" <=> info.type = "S" /\ info.name # "NONE"
  /\ info.is_branch <=> info.type \in {"B", "J"} \/ info.name = "JALR"
  /\ info.name # "NONE" => info.executor # "NONE" /\ info.type # "NONE"
  /\ info.name = "NONE" => info.executor \in {"NONE", "Load"}
  /\ info.executor = "Load" => info.type = "I"
  /\ info.mem_acc_type = "READ" => info.name \notin {"NONE", "JALR"}
  /\ info.name = "JALR" => info.type = "I"
  /\ info.name = "ECALL" => info.type = "SYSTEM"

RecognizedWellFormed == decoded # Undecoded => WellFormed(decoded.info)
=============================================================================
