------------------------------- MODULE Trace -------------------------------
(***************************************************************************)
(* What PerfSim::dumpInstruction writes to trace.txt for an instruction    *)
(* that retires.  The files in tests/dump are such traces.                 *)
(***************************************************************************)
EXTENDS Instruction, Sequences

CONSTANT MaxLines    \* the model keeps this many lines of trace.txt

ASSUME MaxLinesAssumption == MaxLines \in Nat

\* A column that is left blank, or holds x.
Column(shown, x) == IF shown THEN <<x>> ELSE <<>>

\* The line of an object: names and values of its registers, by type.
Line(i) ==
  [pc   |-> i.pc,
   name |-> i.op.name,
   rs1  |-> Column(ReadsRs1(i.op), <<i.op.rs1, i.rs1>>),
   rs2  |-> Column(ReadsRs2(i.op), <<i.op.rs2, i.rs2>>),
   rd   |-> Column(Writes(i.op), <<i.op.rd, i.rd>>),
   imm  |-> Column(i.op.type \in {"I", "S", "B", "U", "J"}, i.op.imm)]

\* Instructions without a name leave no line.
IsTraced(i) == i.op.name # "NONE"
=============================================================================
