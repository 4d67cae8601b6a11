------------------------------ MODULE Encoding ------------------------------
(***************************************************************************)
(* From a word of memory to a decoded instruction: the field extraction of *)
(* Decoder::decode, Decoder::recognize, and calc_imm of each type of       *)
(* instruction.  A word is the set of its bits that are 1, a subset of     *)
(* 0 .. 31; so are the fields of a word and its immediate.  A sum of words *)
(* without a common bit, as in calc_imm, is a union.                       *)
(***************************************************************************)
EXTENDS Integers, Sequences

Bit == 0 .. 31
BitWord == SUBSET Bit

\* (w >> lo) & mask, for the mask of the bits lo .. hi, << to.
Moved(w, lo, hi, to) == {b - lo + to : b \in w \cap lo .. hi}
Field(w, lo, hi) == Moved(w, lo, hi, 0)

Opcode(w) == Field(w, 0, 6)
Rd(w)     == Field(w, 7, 11)
Rs1(w)    == Field(w, 15, 19)
Rs2(w)    == Field(w, 20, 24)
Funct7(w) == Field(w, 25, 31)
Funct3(w) == (IF 12 \in w THEN 1 ELSE 0) + (IF 13 \in w THEN 2 ELSE 0)
               + (IF 14 \in w THEN 4 ELSE 0)

\* The opcodes recognize tells apart.
LUI    == {0, 1, 2, 4, 5}
AUIPC  == {0, 1, 2, 4}
JAL    == {0, 1, 2, 3, 5, 6}
JALR   == {0, 1, 2, 5, 6}
BRANCH == {0, 1, 5, 6}
LOAD   == {0, 1}
STORE  == {0, 1, 5}
OPIMM  == {0, 1, 4}
OP     == {0, 1, 4, 5}
SYSTEM == {0, 1, 4, 5, 6}

-----------------------------------------------------------------------------
\* The names of the families that funct3, and funct7, tell apart.
BranchName(f3) ==
  <<"BEQ", "BNE", "NONE", "NONE", "BLT", "BGE", "BLTU", "BGEU">>[f3 + 1]
LoadName(f3) ==
  <<"LB", "LH", "LW", "NONE", "LBU", "LHU", "NONE", "NONE">>[f3 + 1]
StoreName(f3) ==
  <<"SB", "SH", "SW", "NONE", "NONE", "NONE", "NONE", "NONE">>[f3 + 1]

\* A mutant of AccSize: the unsigned loads are forgotten.
AccSizeSigned(f3) == <<1, 2, 4, 0, 0, 0, 0, 0>>[f3 + 1]

AccSize(f3) == <<1, 2, 4, 0, 1, 2, 0, 0>>[f3 + 1]

ImmediateName(f3, f7) ==
  IF f3 = 5 THEN IF f7 = {} THEN "SRLI" ELSE IF f7 = {5} THEN "SRAI" ELSE "NONE"
  ELSE <<"ADDI", "SLLI", "SLTI", "SLTIU", "XORI", "NONE", "ORI", "ANDI">>[f3 + 1]

RegisterName(f3, f7) ==
  IF f7 = {}
    THEN <<"ADD", "SLL", "SLT", "SLTU", "XOR", "SRL", "OR", "AND">>[f3 + 1]
  ELSE IF f7 = {5} /\ f3 = 0 THEN "SUB"
  ELSE IF f7 = {5} /\ f3 = 5 THEN "SRA"
  ELSE "NONE"

Info(type, name, executor) ==
  [type |-> type, name |-> name, executor |-> executor,
   mem_acc_type |-> "NONE", acc_size |-> 0, is_branch |-> FALSE]

\* Decoder::recognize.  "NONE" stands for INSTR_TYPE_NONE, INSTR_NAME_NONE,
\* ACCESS_TYPE_NONE and a null executor, which decode sets beforehand.
recognize(w) ==
  LET opcode == Opcode(w)  f3 == Funct3(w)  f7 == Funct7(w) IN
  IF opcode = LUI THEN Info("U", "LUI", "LUI")
  ELSE IF opcode = AUIPC THEN Info("U", "AUIPC", "AUIPC")
  ELSE IF opcode = JAL
    THEN [Info("J", "JAL", "JAL") EXCEPT !.is_branch = TRUE]
  ELSE IF opcode = JALR
    THEN [Info("I", "JALR", "JALR") EXCEPT !.is_branch = TRUE]
  ELSE IF opcode = BRANCH
    THEN [Info("B", BranchName(f3), BranchName(f3)) EXCEPT !.is_branch = TRUE]
  ELSE IF opcode = LOAD
    THEN [Info("I", LoadName(f3), "Load") EXCEPT
            !.mem_acc_type = IF LoadName(f3) = "NONE" THEN "NONE" ELSE "READ",
            !.acc_size = AccSize(f3)]
  ELSE IF opcode = STORE
    THEN IF StoreName(f3) = "NONE" THEN Info("S", "NONE", "NONE")
         ELSE [Info("S", StoreName(f3), "Store") EXCEPT
                 !.mem_acc_type = "WRITE", !.acc_size = AccSize(f3)]
  ELSE IF opcode = OPIMM
    THEN Info(IF ImmediateName(f3, f7) = "NONE" THEN "NONE" ELSE "I",
              ImmediateName(f3, f7), ImmediateName(f3, f7))
  ELSE IF opcode = OP
    THEN Info("R", RegisterName(f3, f7), RegisterName(f3, f7))
  ELSE IF opcode = SYSTEM
    THEN IF w = SYSTEM THEN Info("SYSTEM", "ECALL", "ECALL")
         ELSE Info("SYSTEM", "NONE", "NONE")
  ELSE Info("NONE", "NONE", "NONE")

-----------------------------------------------------------------------------
\* The sign bit 31 copied to all the bits from lo on.
Sign(w, lo) == IF 31 \in w THEN lo .. 31 ELSE {}

\* calc_imm of InstructionI, S, B, U and J.  The other types have no immediate.
ImmI(w) == Sign(w, 11) \cup Moved(w, 25, 30, 5) \cup Moved(w, 21, 24, 1)
             \cup Moved(w, 20, 20, 0)
ImmS(w) == Sign(w, 11) \cup Moved(w, 25, 30, 5) \cup Moved(w, 8, 11, 1)
             \cup Moved(w, 7, 7, 0)

\* A mutant of ImmB: bit 7 is left where S instructions have it.
ImmBAsStore(w) == Sign(w, 12) \cup Moved(w, 25, 30, 5) \cup Moved(w, 8, 11, 1)
                    \cup Moved(w, 7, 7, 0)
ImmB(w) == Sign(w, 12) \cup Moved(w, 25, 30, 5) \cup Moved(w, 8, 11, 1)
             \cup Moved(w, 7, 7, 11)
ImmU(w) == w \cap 12 .. 31
ImmJ(w) == Sign(w, 20) \cup (w \cap 12 .. 19) \cup Moved(w, 20, 20, 11)
             \cup Moved(w, 25, 30, 5) \cup Moved(w, 21, 24, 1)

calc_imm(w, type) ==
  CASE type = "I" -> ImmI(w)
    [] type = "S" -> ImmS(w)
    [] type = "B" -> ImmB(w)
    [] type = "U" -> ImmU(w)
    [] type = "J" -> ImmJ(w)
    [] OTHER -> {}
=============================================================================
