------------------------ MODULE PerfSimISAInvariant ------------------------
(***************************************************************************)
(* The inductive invariant of the refinement of ISA, for safe programs, as *)
(* a conjunction of named parts.  Between two clocks the instructions in   *)
(* the latches follow each other in the program, but for the two slots a   *)
(* jump has squashed, and the values each has are those it would have if   *)
(* the ones in front of it had taken effect.                               *)
(***************************************************************************)
EXTENDS PerfSimISA, PerfSimInvariant

\* Before execute is called the stages still see what the last clock left; from
\* then on what they have made of it is on its way into the next latches.
Early == {"writeBack", "memoryAccess", "execute"}
Late  == {"decode", "fetch", "update"}

Obj(buffer) == instrs[buffer.instr]

\* The buffer whose instruction has executed and not reached the memory stage,
\* and the one whose instruction is decoded and has not executed.
AtMemory ==
  IF phase \in {"writeBack", "memoryAccess"} THEN em_st.load
  ELSE IF phase = "execute" THEN EmptyXS
  ELSE em_st.store
AtExecute ==
  IF phase \in Early THEN de_st.load
  ELSE IF phase = "decode" THEN EmptyXS
  ELSE Handover(de_st)

\* No load stalls the instruction behind it, so the only stops are those of
\* hu_exit, which hold the three front latches alike.
NoLoadStall ==
  /\ ~em_st.load.hazard_stall /\ ~em_st.store.hazard_stall
  /\ ~mw_st.load.hazard_stall
  /\ Valid(wf_st.load) /\ Valid(wf_st.store)
  /\ de_st.stop_count = fd_st.stop_count

\* A jump has executed in this clock.
Jumped ==
  phase \in Late /\ Live(em_st.store) /\ Jumps(Obj(em_st.store))

JumpInv ==
  /\ wf_st.store.is_jump <=> Jumped
  /\ fd_st.store.hazard_stall <=> Jumped
  /\ de_st.store.hazard_stall <=> Jumped
  /\ Jumped => wf_st.store.pc_jump = Obj(em_st.store).branch_addr

\* What the stages have done in this clock.
StagesInv ==
  /\ phase \in Early \cup {"stopped"} => ~Live(em_st.store)
  /\ phase \in Late =>
       /\ Live(em_st.store) =>
            /\ Live(de_st.load) /\ em_st.store.instr = de_st.load.instr
            /\ IsSystem(em_st.store) <=> stopped(de_st)
       /\ ~Live(em_st.store) => ~Valid(de_st.load)
  /\ phase \in {"fetch", "update"} /\ ~stopped(de_st) =>
       /\ Live(de_st.store) <=> Valid(fd_st.load)
       /\ Live(de_st.store) =>
            /\ Obj(de_st.store).pc = fd_st.load.pc
            /\ Obj(de_st.store).op = fd_st.load.instr
  /\ phase = "update" /\ ~stopped(fd_st) =>
       /\ Live(fd_st.store)
       /\ fd_st.store.pc = FetchPc
       /\ wf_st.store.pc = Plus(FetchPc, 1)

\* The instruction of fd_st.load is the one at pc, and the next to be fetched the
\* one behind it.
FetchedAt(pc) == Valid(fd_st.load) /\ fd_st.load.pc = pc

\* The instructions in flight follow each other.
ChainInv ==
  /\ phase \in Early \cup Late =>
       (Valid(fd_st.load) => FetchPc = Plus(fd_st.load.pc, 1))
  /\ phase \in Early /\ Valid(de_st.load) =>
       FetchedAt(Plus(Obj(de_st.load).pc, 1))
  /\ phase \in Early /\ Valid(em_st.load) =>
       LET i == Obj(em_st.load) IN
       IF Jumps(i)
         THEN /\ ~Valid(de_st.load) /\ ~Valid(fd_st.load)
              /\ FetchPc = i.branch_addr
       ELSE IF i.op.type = "SYSTEM"
         THEN ~Valid(de_st.load) /\ stopped(de_st) /\ FetchedAt(Plus(i.pc, 1))
       ELSE Valid(de_st.load) /\ Obj(de_st.load).pc = Plus(i.pc, 1)
  /\ phase \in Late /\ Live(em_st.store) =>
       FetchedAt(Plus(Obj(em_st.store).pc, 1))
  /\ phase = "decode" /\ Live(mw_st.store) /\ Valid(fd_st.load) /\ ~stopped(de_st) =>
       /\ Live(em_st.store)
       /\ Obj(em_st.store).pc = Plus(Obj(mw_st.store).pc, 1)

\* The object is that of an instruction of the program, and its operands have the
\* values the registers g give them.
OfProgram(i) == i.pc \in Address /\ i.op = prog[i.pc]
OperandsFrom(i, g) ==
  /\ ReadsRs1(i.op) => i.rs1 = g[i.op.rs1]
  /\ ReadsRs2(i.op) => i.rs2 = g[i.op.rs2]
  /\ KeepsRd(i.op)  => i.rd = g[i.op.rd]

\* The registers once the instruction that goes to the memory stage is written
\* back, unless it is a load.
RegsBehind ==
  LET i == Obj(AtMemory) IN
  IF Live(AtMemory) /\ Writes(i.op) /\ i.op.rd # 0
    THEN [ArchRegs EXCEPT ![i.op.rd] = i.rd]
    ELSE ArchRegs

\* The instruction the memory stage has processed is one of the program.
RetiringInv ==
  phase \in {"execute", "decode"} /\ Live(mw_st.store) => OfProgram(Obj(mw_st.store))

\* An executed instruction has the right operands, and what its executor makes of
\* them.
ExecutedInv ==
  phase \in Early \cup Late /\ Live(AtMemory) =>
    LET i == Obj(AtMemory) IN
    OfProgram(i) /\ i = Executed(i) /\ OperandsFrom(i, ArchRegs)

\* A decoded instruction has the right operands.
DecodedInv ==
  phase \in Early \cup Late /\ Valid(AtExecute) =>
    LET i == Obj(AtExecute) IN
    OfProgram(i) /\ OperandsFrom(i, RegsBehind)

\* A squashed instruction puts back what the register holds, which nothing in
\* front of the jump is about to change.
SquashedInv ==
  phase \in Early \cup Late /\ Live(AtExecute) /\ AtExecute.hazard_stall =>
    LET i == Obj(AtExecute) IN
    Writes(i.op) /\ i.op.rd # 0 =>
      /\ i.rd = regs[i.op.rd]
      /\ phase \in {"fetch", "update", "writeBack"} =>
           ~(Live(AtWriteBack) /\ Writes(Retiring.op)
               /\ Retiring.op.rd = i.op.rd)

ValuesInv == RetiringInv /\ ExecutedInv /\ DecodedInv /\ SquashedInv

\* Nothing is processed behind the ECALL that ends the run.
HaltInv ==
  is_stop =>
    /\ phase # "writeBack"
    /\ phase = "memoryAccess" => ~Live(em_st.load)

FlowInv ==
  /\ SafeProgram(prog)
  /\ phase # "aborted" =>
       /\ NoLoadStall /\ JumpInv /\ StagesInv /\ ChainInv /\ ValuesInv /\ HaltInv
=============================================================================
