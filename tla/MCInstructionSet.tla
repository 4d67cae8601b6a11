----------------------------- MODULE MCInstructionSet -----------------------------
(***************************************************************************)
(* Every instruction of RV32I the decoder knows, with immediates that have *)
(* one bit set, one bit clear, all or none, and registers with few and     *)
(* many bits; and words with every opcode and funct3.                      *)
(***************************************************************************)
EXTENDS InstructionSet

SomeImms == {{i} : i \in Bit} \cup {Bit \ {i} : i \in Bit} \cup {{}, Bit}
              \cup {lo .. 31 : lo \in Bit}
ImmsOf(row) ==
  IF IsShift(row) THEN {{}, {0}, {4}, {1, 3}, 0 .. 4}
  ELSE {i \in SomeImms : Carries(row.format, i)}

\* rd, rs1, rs2
SomeRegs == {<<{}, {0, 2, 4}, 0 .. 4>>, <<{0, 2, 4}, 0 .. 4, {}>>,
             <<{1, 3}, {0}, {4}>>}

SourcesOf(rows) ==
  UNION {{[name |-> r.name, format |-> r.format, opcode |-> r.opcode,
           funct3 |-> r.funct3, funct7 |-> r.funct7,
           rd |-> regs[1], rs1 |-> regs[2], rs2 |-> regs[3], imm |-> imm] :
            regs \in SomeRegs, imm \in ImmsOf(r)} :
         r \in rows}

\* Without the two instructions whose executors are exchanged, and they alone.
IsSwapped(row) == row.name \in {"ANDI", "XORI"}
MCSources == SourcesOf({r \in Rows : ~IsSwapped(r)})
SwappedSources == SourcesOf({r \in Rows : IsSwapped(r)})

MCRawWords ==
  {opcode \cup f3 \cup f7 : opcode \in SUBSET (0 .. 6), f3 \in SUBSET (12 .. 14),
                            f7 \in {{}, {30}, {25}, {30, 31}}}
=============================================================================
