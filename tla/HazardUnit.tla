----------------------------- MODULE HazardUnit ----------------------------
(***************************************************************************)
(* The pipeline latches of headers/Stage.h and the hazard unit of          *)
(* src/HazardUnit.cpp, which reads and edits them: operand bypassing, the  *)
(* load-use stall, the squash behind a taken jump, and the drain on a      *)
(* system instruction.                                                     *)
(*                                                                         *)
(* Instructions are passed by pointer.  A pointer names a slot of one of   *)
(* the decoder's object pools, and instrs is the contents of the slots, so *)
(* that two latches can share an object as they do in the program.         *)
(***************************************************************************)
EXTENDS RegFile, Stage

CONSTANTS
  Stages,     \* Config::stages, the size of each object pool
  MaxCount    \* the counters of the model stop at this value

ASSUME StagesAssumption == Stages \in Nat /\ 3 <= Stages
ASSUME MaxCountAssumption == MaxCount \in Nat

VARIABLES
  wf_st, fd_st, de_st, em_st, mw_st,   \* the five latches
  instrs,                              \* the Instruction objects
  hu                                   \* the counters of HazardUnit

latches == <<wf_st, fd_st, de_st, em_st, mw_st>>

Slot    == 0 .. Stages - 1
Pointer == InstrType \X Slot
nullptr == <<"nullptr", 0>>

\* The buffers of the five latches (their pc copies that nothing reads are left
\* out), and what clear() leaves in them.
WF == [is_stall : BOOLEAN, hazard_stall : BOOLEAN, is_jump : BOOLEAN,
       pc : Word, pc_jump : Word]
FD == [is_stall : BOOLEAN, hazard_stall : BOOLEAN, pc : Word,
       instr : Instructions]
XS == [is_stall : BOOLEAN, hazard_stall : BOOLEAN,
       instr : Pointer \cup {nullptr}]

EmptyWF == [is_stall |-> FALSE, hazard_stall |-> FALSE, is_jump |-> FALSE,
            pc |-> 0, pc_jump |-> 0]
EmptyFD == [is_stall |-> TRUE, hazard_stall |-> FALSE, pc |-> 0,
            instr |-> ZeroWord]
EmptyXS == [is_stall |-> TRUE, hazard_stall |-> FALSE, instr |-> nullptr]

Counters == [bypasses_mem_ex : 0 .. MaxCount, bypasses_wb_ex : 0 .. MaxCount,
             branches : 0 .. MaxCount, stops : 0 .. MaxCount]

HazardUnitTypeOK ==
  /\ RegFileTypeOK
  /\ wf_st \in StageOf(WF)
  /\ fd_st \in StageOf(FD)
  /\ de_st \in StageOf(XS)
  /\ em_st \in StageOf(XS)
  /\ mw_st \in StageOf(XS)
  /\ instrs \in [Pointer -> InstructionObject]
  /\ hu \in Counters

\* A counter after k more events.
Bump(n, k) == IF n + k <= MaxCount THEN n + k ELSE MaxCount

\* How many of two conditions hold.
Ones(p, q) == (IF p THEN 1 ELSE 0) + (IF q THEN 1 ELSE 0)

\* A buffer that neither a bubble nor a squash keeps from being processed.
Valid(buffer) == ~buffer.is_stall /\ ~buffer.hazard_stall

-----------------------------------------------------------------------------
\* HazardUnit::write, and the register write of writeBack: the rd of *p goes
\* to the register file, and its lock is released.
hu_write(p) ==
  IF Writes(instrs[p].op)
    THEN write(instrs[p].op.rd, instrs[p].rd)
    ELSE UNCHANGED <<regs, reg_locker>>

\* The instruction in the buffer is processed and will write register r.
Produces(buffer, r) ==
  /\ Valid(buffer)
  /\ Writes(instrs[buffer.instr].op)
  /\ instrs[buffer.instr].op.rd = r

\* HazardUnit::decode looks for the value of a locked register r in the
\* instruction that has just executed, then in the one that has just accessed
\* memory.  LoadUse is the case where the value is not loaded yet.
LoadUse(r) ==
  /\ is_lock(r) /\ Produces(de_st.load, r)
  /\ is_load(instrs[de_st.load.instr].op)
BypassMemEx(r) ==
  /\ is_lock(r) /\ Produces(de_st.load, r)
  /\ ~is_load(instrs[de_st.load.instr].op)
BypassWbEx(r) ==
  /\ is_lock(r) /\ ~Produces(de_st.load, r)
  /\ Produces(em_st.load, r)

\* A mutant of Operand: the older of two producers is preferred.
OperandOldestFirst(r) ==
  IF ~is_lock(r) \/ LoadUse(r) THEN regs[r]
  ELSE IF Produces(em_st.load, r) THEN instrs[em_st.load.instr].rd
  ELSE IF BypassMemEx(r) THEN instrs[de_st.load.instr].rd
  ELSE 0

\* The operand value Decoder::decode takes for register r: the register file
\* when r is not locked or not loaded yet, a bypass, or, when no instruction
\* in flight answers for the lock, the default-constructed Register.
Operand(r) ==
  IF ~is_lock(r) \/ LoadUse(r) THEN regs[r]
  ELSE IF BypassMemEx(r) THEN instrs[de_st.load.instr].rd
  ELSE IF BypassWbEx(r) THEN instrs[em_st.load.instr].rd
  ELSE 0

\* A mutant of hu_stall: only the decode latch is held.
hu_stallDecodeOnly(n) ==
  /\ wf_st' = wf_st
  /\ fd_st' = extend(fd_st, n)
  /\ em_st' = IF n > 0 THEN [em_st EXCEPT !.store.hazard_stall = TRUE]
              ELSE em_st

\* The stall HazardUnit::decode asks for when n operands of the instruction
\* being decoded are not loaded yet.
hu_stall(n) ==
  /\ wf_st' = extend(wf_st, n)
  /\ fd_st' = extend(fd_st, n)
  /\ em_st' = IF n > 0 THEN [em_st EXCEPT !.store.hazard_stall = TRUE]
              ELSE em_st

\* A mutant of hu_branch: the instruction being decoded is not squashed.
hu_branchOneSlot(target) ==
  /\ wf_st' = [wf_st EXCEPT !.store.is_jump = TRUE, !.store.pc_jump = target]
  /\ fd_st' = [fd_st EXCEPT !.store.hazard_stall = TRUE]
  /\ de_st' = de_st
  /\ hu' = [hu EXCEPT !.branches = Bump(@, 1)]

\* HazardUnit::branch: fetch from the target next, and squash the two
\* instructions behind the jump.
hu_branch(target) ==
  /\ wf_st' = [wf_st EXCEPT !.store.is_jump = TRUE, !.store.pc_jump = target]
  /\ fd_st' = [fd_st EXCEPT !.store.hazard_stall = TRUE]
  /\ de_st' = [de_st EXCEPT !.store.hazard_stall = TRUE]
  /\ hu' = [hu EXCEPT !.branches = Bump(@, 1)]

\* A mutant of hu_exit: the latch it holds is not squashed.
hu_exitNotSquashed ==
  /\ wf_st' = extend(wf_st, 5)
  /\ fd_st' = extend(fd_st, 5)
  /\ de_st' = extend(de_st, 5)
  /\ UNCHANGED hu

\* HazardUnit::exit: hold everything behind a system instruction for five
\* clocks, and do not execute it again.
hu_exit ==
  /\ wf_st' = extend(wf_st, 5)
  /\ fd_st' = extend(fd_st, 5)
  /\ de_st' = [extend(de_st, 5) EXCEPT !.load.hazard_stall = TRUE]
  /\ UNCHANGED hu
=============================================================================
