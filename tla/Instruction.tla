---------------------------- MODULE Instruction ----------------------------
(***************************************************************************)
(* Instructions: what Decoder::recognize makes of a word of memory, the    *)
(* Instruction objects the pipeline passes by pointer, and what the        *)
(* executors of src/Executors.cpp do to such an object.                    *)
(*                                                                         *)
(* A machine word is a residue modulo Modulus (2^32 in the program).       *)
(* Addresses count words, so the link address pc + 4 is pc + 1 here.  The  *)
(* arithmetic itself is a parameter: Alu(op, a, b, pc) is the value an     *)
(* arithmetic executor leaves in rd and BranchTaken(op, a, b) the outcome  *)
(* of a conditional branch, for operand values a and b.                    *)
(***************************************************************************)
EXTENDS Naturals

CONSTANTS
  Modulus,               \* number of values of a machine word
  NumRegs,               \* Config::num_regs
  MemSize,               \* size of Memory, in words
  Instructions,          \* the decoded words a program may hold
  Alu(_, _, _, _),
  BranchTaken(_, _, _)

Word    == 0 .. Modulus - 1
Reg     == 0 .. NumRegs - 1
Address == 0 .. MemSize - 1

InstrType  == {"R", "I", "S", "B", "U", "J", "SYSTEM", "NONE"}
AccessType == {"READ", "WRITE", "NONE"}

\* What Decoder::recognize and the field extraction of Decoder::decode find in
\* a word of memory.
DecodedWord ==
  [type : InstrType, name : STRING, mem_acc_type : AccessType,
   is_branch : BOOLEAN, rs1 : Reg, rs2 : Reg, rd : Reg, imm : Word]

\* Zero-filled memory decodes to an instruction without type or executor.
ZeroWord ==
  [type |-> "NONE", name |-> "NONE", mem_acc_type |-> "NONE",
   is_branch |-> FALSE, rs1 |-> 0, rs2 |-> 0, rd |-> 0, imm |-> 0]

ASSUME MachineAssumption ==
  /\ Modulus \in Nat /\ NumRegs \in Nat /\ MemSize \in Nat
  /\ 2 < NumRegs /\ 0 < MemSize /\ MemSize <= Modulus /\ 1 < Modulus

ASSUME InstructionsAssumption ==
  /\ Instructions \subseteq DecodedWord
  /\ ZeroWord \in Instructions

ASSUME ExecutorsAssumption ==
  \A w \in Instructions : \A a, b \in Word :
    /\ BranchTaken(w, a, b) \in BOOLEAN
    /\ \A pc \in Word : Alu(w, a, b, pc) \in Word

\* The executors of types I and U leave rs2 alone, those of type U rs1 too.
ASSUME OperandsAssumption ==
  \A w \in Instructions : \A a, b, pc \in Word :
    /\ w.type \in {"I", "U"} => Alu(w, a, b, pc) = Alu(w, a, 0, pc)
    /\ w.type = "U" => Alu(w, a, b, pc) = Alu(w, 0, b, pc)

\* Decoder::recognize gives the fields of a word only in these combinations.
ASSUME RecognizedAssumption ==
  \A w \in Instructions :
    /\ w.mem_acc_type = "READ" => w.type = "I" /\ w.name \notin {"NONE", "JALR"}
    /\ w.mem_acc_type = "WRITE" => w.type = "S"
    /\ w.is_branch <=> w.type \in {"J", "B"} \/ w.name = "JALR"
    /\ w.name = "JALR" => w.type = "I"
    /\ w.name = "ECALL" => w.type = "SYSTEM"

\* An Instruction object.  op is what its word decodes to, rs1 and rs2 the
\* operand values read at decode, rd the value of the destination register,
\* addr the load or store address.
InstructionObject ==
  [op : Instructions, pc : Word, rs1 : Word, rs2 : Word, rd : Word,
   addr : Word, branch_addr : Word, br_is_taken : BOOLEAN]

\* A freshly constructed Instruction object.
NewInstruction ==
  [op |-> ZeroWord, pc |-> 0, rs1 |-> 0, rs2 |-> 0, rd |-> 0,
   addr |-> 0, branch_addr |-> 0, br_is_taken |-> FALSE]

-----------------------------------------------------------------------------
\* A mutant of Plus: the sum is kept in a wider type.
PlusUnwrapped(a, b) == a + b

\* 32-bit addition: the sum of two words, wrapped.
Plus(a, b) == IF a + b < Modulus THEN a + b ELSE a + b - Modulus

\* The types whose rd writeBack and HazardUnit::write put in the register file.
Writes(op) == op.type \in {"R", "I", "U", "J"}

\* The operands Decoder::decode reads for each type.
ReadsRs1(op) == op.type \in {"R", "I", "S", "B"}
ReadsRs2(op) == op.type \in {"R", "S", "B"}

\* HazardUnit::is_load.
is_load(op)  == op.mem_acc_type = "READ"
IsStore(op)  == op.mem_acc_type = "WRITE" /\ op.type = "S"
IsLink(op)   == op.type = "J" \/ op.name = "JALR"

\* Instructions with an executor that computes rd from the operands.
IsArithmetic(op) ==
  /\ op.type \in {"R", "I", "U"}
  /\ op.mem_acc_type = "NONE"
  /\ op.name \notin {"NONE", "JALR"}

\* Instruction::execute: the object after its main_executor ran.  Instructions
\* named NONE have no executor (or, for an undefined load, one whose result is
\* never used), and ECALL's is empty.
Executed(i) ==
  LET op == i.op IN
  [i EXCEPT
     !.rd = IF IsLink(op) THEN Plus(i.pc, 1)
            ELSE IF IsArithmetic(op) THEN Alu(op, i.rs1, i.rs2, i.pc)
            ELSE @,
     !.addr = IF op.mem_acc_type # "NONE" THEN Plus(i.rs1, op.imm) ELSE @,
     !.branch_addr = IF op.name = "JALR" THEN Plus(i.rs1, op.imm)
                     ELSE IF op.is_branch /\ op.name # "NONE"
                       THEN Plus(i.pc, op.imm)
                     ELSE @,
     !.br_is_taken = IF op.type = "B" /\ op.name # "NONE"
                       THEN BranchTaken(op, i.rs1, i.rs2)
                     ELSE @]

\* The condition under which PerfSim::execute redirects the fetch.
Jumps(i) ==
  /\ i.op.is_branch
  /\ i.op.type \in {"J", "I"} \/ (i.op.type = "B" /\ i.br_is_taken)
=============================================================================
