----------------------------- MODULE PerfSimISA -----------------------------
(***************************************************************************)
(* What the pipeline promises: it executes the program one instruction at  *)
(* a time, as the machine of module ISA does.  An instruction takes effect *)
(* in the abstract machine when the memory stage processes it, whether its *)
(* store goes to memory there or at the end of the clock.                  *)
(***************************************************************************)
EXTENDS PerfSimSafety

\* The instruction of de_st.load has still to take effect: it is processed in
\* this clock, or it is a system instruction that has just executed and squashed
\* its own latch.
ExecutesNext ==
  /\ ~de_st.load.is_stall
  /\ \/ ~de_st.load.hazard_stall
     \/ ~em_st.store.is_stall /\ em_st.store.instr = de_st.load.instr

\* The store pushed in this clock lies out of memory: update will throw.
Doomed == store.size > 0 /\ ~InBounds(store.addr)

\* The memory stage has not carried out the instruction of em_st.load.
Pending == Valid(em_st.load) /\ (mw_st.store.is_stall \/ Doomed)

\* The program counter of the next instruction to take effect: the oldest one
\* the memory stage has not carried out.
ArchPc ==
  CASE Pending -> instrs[em_st.load.instr].pc
    [] ~Pending /\ ExecutesNext -> instrs[de_st.load.instr].pc
    [] ~Pending /\ ~ExecutesNext /\ Valid(fd_st.load) -> fd_st.load.pc
    [] OTHER -> FetchPc

\* The buffer between memoryAccess and writeBack: its instruction has taken
\* effect, but is not written back.
AtWriteBack == IF phase \in {"writeBack", "stopped"} THEN mw_st.load ELSE mw_st.store
Retiring == instrs[AtWriteBack.instr]

\* The registers once that instruction is written back.
ArchRegs ==
  IF Valid(AtWriteBack) /\ Writes(Retiring.op) /\ Retiring.op.rd # 0
    THEN [regs EXCEPT ![Retiring.op.rd] = Retiring.rd]
    ELSE regs

\* The memory once the store of the clock is written.
ArchMem == IF store.size > 0 THEN Written(store.addr, store.data) ELSE mem

ArchHalted == is_stop \/ (Valid(AtWriteBack) /\ Retiring.op.name = "ECALL")

Arch == INSTANCE ISA WITH
  pc <- ArchPc, regs <- ArchRegs, mem <- ArchMem, halted <- ArchHalted

\* Bypasses, squashes, stops and the store pipeline are invisible: every clock
\* of PerfSim::run carries out one instruction of the program, in order and with
\* the right operands, or none.
ImplementsISA == Arch!Spec

-----------------------------------------------------------------------------
(* The programs it keeps the promise for.  Plus(a, 1) is the word behind a.  *)

Uses(w, r) == (ReadsRs1(w) /\ w.rs1 = r) \/ (ReadsRs2(w) /\ w.rs2 = r)

\* No executor computes rd: writeBack puts back what decode copied from the
\* register file.
KeepsRd(w) == Writes(w) /\ ~IsLink(w) /\ ~IsArithmetic(w) /\ ~is_load(w)

\* A load whose result the very next instruction uses.
UsesLoad(p, a) ==
  LET b == Plus(a, 1) IN
  b \in Address /\ is_load(p[a]) /\ p[a].rd # 0 /\ Uses(p[b], p[a].rd)

\* A jump between two writers of a register.
RewritesInShadow(p, a) ==
  LET b == Plus(a, 1)  c == Plus(b, 1) IN
  /\ b \in Address /\ c \in Address
  /\ p[b].is_branch
  /\ Writes(p[a]) /\ Writes(p[c]) /\ p[a].rd = p[c].rd /\ p[a].rd # 0

\* An instruction without an executor one or two words behind a writer of its rd.
KeepsStale(p, a) ==
  \E b \in {Plus(a, 1), Plus(Plus(a, 1), 1)} \cap Address :
    Writes(p[a]) /\ KeepsRd(p[b]) /\ p[a].rd = p[b].rd /\ p[a].rd # 0

\* An instruction of opcode BRANCH that the decoder has no executor for: it jumps
\* if the instruction that used its object before did, to the address decode resets
\* branch_addr to.
UndefinedJump(w) == w.is_branch /\ w.name = "NONE"

SafeProgram(p) ==
  \A a \in Address :
    /\ ~UsesLoad(p, a) /\ ~RewritesInShadow(p, a) /\ ~KeepsStale(p, a)
    /\ ~UndefinedJump(p[a])

\* The bound check of Memory takes the address for one of memory, but it lies in
\* front of it.
Wraps(addr) == InBounds(addr) /\ addr \notin Address

NoAccessWraps ==
  phase = "memoryAccess" /\ Valid(em_st.load) =>
    LET i == instrs[em_st.load.instr] IN
    i.op.mem_acc_type # "NONE" => ~Wraps(i.addr)
=============================================================================
