----------------------------- MODULE MCPerfSim -----------------------------
(***************************************************************************)
(* Small machines and small programs for the model checker.  A machine     *)
(* word has 16 values, memory 8 words, and there are three registers, the  *)
(* third of which is sp.  Programs are all the sequences of a few          *)
(* instructions of an alphabet, followed by ECALL, twice for the jumps of  *)
(* the last instruction, and by zeroes.                                    *)
(***************************************************************************)
EXTENDS PerfSimISA, PerfSimMemory, PerfSimInvariant, Sequences

Op(type, name, rs1, rs2, rd, imm) ==
  [type |-> type, name |-> name, mem_acc_type |-> "NONE", is_branch |-> FALSE,
   rs1 |-> rs1, rs2 |-> rs2, rd |-> rd, imm |-> imm]

MCAdd(rd, rs1, rs2)  == Op("R", "ADD", rs1, rs2, rd, 0)
MCAddi(rd, rs1, imm) == Op("I", "ADDI", rs1, 0, rd, imm)
MCLui(rd, imm)       == Op("U", "LUI", 0, 0, rd, imm)
MCLw(rd, rs1, imm)   == [Op("I", "LW", rs1, 0, rd, imm)
                           EXCEPT !.mem_acc_type = "READ"]
MCSw(rs2, rs1, imm)  == [Op("S", "SW", rs1, rs2, 0, imm)
                           EXCEPT !.mem_acc_type = "WRITE"]
MCBeq(rs1, rs2, imm) == [Op("B", "BEQ", rs1, rs2, 0, imm)
                           EXCEPT !.is_branch = TRUE]
MCBne(rs1, rs2, imm) == [MCBeq(rs1, rs2, imm) EXCEPT !.name = "BNE"]
MCJal(rd, imm)       == [Op("J", "JAL", 0, 0, rd, imm) EXCEPT !.is_branch = TRUE]
MCJalr(rd, rs1, imm) == [Op("I", "JALR", rs1, 0, rd, imm)
                           EXCEPT !.is_branch = TRUE]
MCEcall  == Op("SYSTEM", "ECALL", 0, 0, 0, 0)
MCEbreak == Op("SYSTEM", "EBREAK", 0, 0, 0, 0)
\* A word of opcode OP with a funct7 the decoder does not know, as mul has.
MCUndefined(rd, rs1, rs2) == Op("R", "NONE", rs1, rs2, rd, 0)

MCAlu(w, a, b, pc) ==
  CASE w.name = "ADD"  -> (a + b) % Modulus
    [] w.name = "ADDI" -> (a + w.imm) % Modulus
    [] w.name = "LUI"  -> w.imm
    [] OTHER -> 0

MCBranchTaken(w, a, b) == (w.name = "BEQ") = (a = b)

MCImage == [a \in Address |-> (a + 3) % Modulus]

\* The programs of n instructions of an alphabet.
ProgramsOver(alphabet, n) ==
  {[a \in Address |-> IF a < n THEN p[a]
                      ELSE IF a <= n + 1 THEN MCEcall ELSE ZeroWord] :
     p \in [0 .. n - 1 -> alphabet]}

Program(p) == [a \in Address |-> IF a < Len(p) THEN p[a + 1] ELSE ZeroWord]

Minus(n) == Modulus - n

\* Every type of instruction, every hazard between them, safe or not.
ControlAlphabet ==
  {MCAdd(1, 1, 2), MCAdd(2, 1, 1), MCLw(1, 0, 3), MCLw(2, 2, 0), MCSw(1, 2, 1),
   MCBeq(1, 0, 2), MCJal(1, Minus(1)), MCJal(0, 2), MCEbreak}
ControlInstructions == ControlAlphabet \cup {MCEcall, ZeroWord}
ControlPrograms == ProgramsOver(ControlAlphabet, 3)

Safe(programs) == {p \in programs : SafeProgram(p)}

\* Loops: two instructions, run once for each value of sp from 7 down to 1, with
\* a taken branch backward over ECALL at the end of each turn.
LoopAlphabet ==
  {MCAdd(1, 1, 2), MCLw(1, 2, 0), MCSw(1, 2, 0), MCJal(1, 1), MCEbreak}
LoopTail == <<MCAddi(2, 2, Minus(1)), MCBne(2, 0, Minus(3)), MCEcall, MCEcall>>
LoopInstructions == LoopAlphabet \cup {LoopTail[1], LoopTail[2]}
LoopPrograms ==
  {Program(<<a, b>> \o LoopTail) : a \in LoopAlphabet, b \in LoopAlphabet}

\* Jumps forward only, and loads with a constant address: the next instruction
\* may use the loaded value, but not store it, which HazardUnit::decode rejects.
ForwardAlphabet ==
  {MCAdd(1, 1, 2), MCAdd(2, 1, 1), MCLw(1, 0, 3), MCLw(2, 0, 1), MCSw(1, 0, 3),
   MCBeq(1, 0, 2), MCJal(1, 2), MCEbreak}
EndingInstructions ==
  ForwardAlphabet \cup LoopInstructions \cup {MCEcall, ZeroWord}
EndingPrograms ==
  {p \in ProgramsOver(ForwardAlphabet, 3) \cup LoopPrograms :
     \A a \in 0 .. 2 : ~(UsesLoad(p, a) /\ IsStore(p[a + 1]))}

\* The programs of the recorded disagreements.

\* lw a5,-20(s0); add a5,a4,a5
LoadUseProgram == Program(<<MCLw(1, 0, 3), MCAdd(1, 2, 1), MCEcall>>)
\* addi sp,sp,16; ret; addi sp,sp,-16, where ret jumps over the last one
ShadowProgram ==
  Program(<<MCAddi(2, 2, 2), MCJalr(0, 0, 3), MCAddi(2, 2, Minus(2)), MCEcall>>)
\* lw a5,-20(s0); lw a5,0(a5)
PointerProgram == Program(<<MCLw(1, 0, 3), MCLw(1, 1, 0), MCEcall>>)
FindingPrograms == {LoadUseProgram, ShadowProgram, PointerProgram}
FindingInstructions == UNION {{p[a] : a \in Address} : p \in FindingPrograms}
LoadUsePrograms == {LoadUseProgram}
ShadowPrograms == {ShadowProgram}
PointerPrograms == {PointerProgram}

\* Bypasses of both kinds, stores followed by loads of the same word, jumps of
\* every kind, forward and backward.
SafeAlphabet ==
  {MCAdd(1, 1, 2), MCAddi(2, 1, 2), MCLw(1, 2, Minus(7)), MCSw(1, 2, Minus(7)),
   MCBeq(1, 0, 2), MCJal(1, 2), MCJalr(2, 1, 3), MCEbreak, MCUndefined(1, 2, 1)}
SafeInstructions == SafeAlphabet \cup LoopInstructions \cup {MCEcall, ZeroWord}
SafeShortPrograms ==
  Safe(ProgramsOver(SafeAlphabet, 3)
         \cup ProgramsOver({MCAdd(1, 1, 2), MCLw(1, 2, Minus(7)), MCBeq(1, 0, 2),
                           MCSw(1, 2, Minus(7)), MCJalr(2, 1, 3)}, 4)
         \cup LoopPrograms)
\* TLC evaluates a definition once, but the value of a constant at every use.
SafePrograms == SafeShortPrograms
=============================================================================
