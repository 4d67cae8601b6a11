-------------------------- MODULE PerfSimISAProofs --------------------------
(***************************************************************************)
(* The pipeline implements the machine of module ISA, for every safe       *)
(* program, every number of registers, pools of at least three objects,    *)
(* every executor that reads the operands of its type, and with the store  *)
(* pipeline and without.                                                   *)
(***************************************************************************)
EXTENDS PerfSimISAInvariant, PerfSimMemoryProofs

AllInv == IInv /\ UsageInv /\ FlowInv

-----------------------------------------------------------------------------
(* What each step does to the latches, in full.                              *)

LEMMA ValidLive == ASSUME NEW b PROVE Valid(b) <=> Live(b) /\ ~b.hazard_stall
BY DEF Valid, Live

\* No load is followed by an instruction that uses it.
LEMMA NoLoadUse ==
  ASSUME AllInv, phase = "decode", Valid(fd_st.load), ~stopped(de_st),
         NEW r, Uses(fd_st.load.instr, r), r \in Reg
  PROVE  ~LoadUse(r)
<1> SUFFICES ASSUME LoadUse(r) PROVE FALSE
  OBVIOUS
<1> DEFINE i == Obj(de_st.load)
<1>1. /\ reg_locker[r] # 0 /\ Valid(de_st.load)
      /\ Writes(i.op) /\ i.op.rd = r /\ is_load(i.op)
  BY DEF LoadUse, is_lock, Produces, Obj
<1>2. reg_locker[0] = 0 /\ StagesInv /\ ChainInv /\ ValuesInv /\ SafeProgram(prog)
  BY DEF AllInv, IInv, LockBalance, FlowInv
<1>3. r # 0
  BY <1>1, <1>2
<1>4. Live(em_st.store) /\ em_st.store.instr = de_st.load.instr
  BY <1>1, <1>2 DEF StagesInv, Late
<1>5. fd_st.load.pc = Plus(i.pc, 1)
  BY <1>2, <1>4 DEF ChainInv, Late, FetchedAt, Obj
<1>6. i.pc \in Address /\ i.op = prog[i.pc]
  BY <1>2, <1>4 DEF ValuesInv, ExecutedInv, Late, AtMemory, OfProgram, Obj
<1>7. fd_st.load.pc \in Address /\ fd_st.load.instr = prog[fd_st.load.pc]
  BY DEF AllInv, IInv, FetchedInv, Valid, Live
<1>8. UsesLoad(prog, i.pc)
  BY <1>1, <1>3, <1>5, <1>6, <1>7 DEF UsesLoad
<1> QED
  BY <1>2, <1>6, <1>8 DEF SafeProgram

LEMMA NoStall ==
  ASSUME TypeOK, hu_stall(0)
  PROVE  UNCHANGED <<wf_st, fd_st, em_st>>
<1>1. extend(wf_st, 0) = wf_st /\ extend(fd_st, 0) = fd_st
  BY LatchShape DEF extend, StageOf
<1> QED
  BY <1>1 DEF hu_stall

LEMMA DecodeSafe ==
  ASSUME AllInv, decodeInstr,
         NEW w, w = fd_st.load.instr,
         NEW p, p = get_next(w.type)
  PROVE  /\ phase = "decode" /\ phase' = "fetch"
         /\ Valid(fd_st.load) /\ ~stopped(de_st)
         /\ UNCHANGED <<wf_st, fd_st, em_st, mw_st, prog, regs>>
         /\ de_st'.load = de_st.load /\ de_st'.stop_count = de_st.stop_count
         /\ Live(de_st'.store) /\ de_st'.store.instr = p
         /\ de_st'.store.hazard_stall = de_st.store.hazard_stall
         /\ w \in Instructions /\ p \in Pointer
         /\ instrs' = [instrs EXCEPT ![p] = Decoded(p, w, fd_st.load.pc)]
         /\ Live(em_st.store) => em_st.store.instr # p
         /\ Live(mw_st.store) => mw_st.store.instr # p
<1>0. TypeOK /\ PointersInv
  BY DEF AllInv, IInv
<1>1. /\ phase = "decode" /\ phase' = "fetch"
      /\ Valid(fd_st.load) /\ ~stopped(de_st)
      /\ de_st'.load = de_st.load /\ de_st'.stop_count = de_st.stop_count
      /\ Live(de_st'.store) /\ de_st'.store.instr = p
      /\ w \in Instructions /\ p \in Pointer
      /\ instrs' = [instrs EXCEPT ![p] = Decoded(p, w, fd_st.load.pc)]
      /\ hu_stall(LoadUses(w))
      /\ UNCHANGED <<mw_st, prog>>
  BY <1>0, DecodeEffect
<1>2. de_st'.store.hazard_stall = de_st.store.hazard_stall
  BY <1>0, LatchShape DEF decodeInstr, StageOf, XS
<1>3. w.rs1 \in Reg /\ w.rs2 \in Reg /\ w.type \in InstrType
  BY <1>1, DecodedFields
<1>4. LoadUses(w) = 0
  BY <1>1, <1>3, NoLoadUse DEF LoadUses, Ones, Uses
<1>5. UNCHANGED <<wf_st, fd_st, em_st>>
  BY <1>0, <1>1, <1>4, NoStall
<1>6. UNCHANGED regs
  BY DEF decodeInstr, decoder_decode
<1>7. /\ Live(em_st.store) => em_st.store.instr # p
      /\ Live(mw_st.store) => mw_st.store.instr # p
  BY <1>0, <1>1, <1>3, SlotFree DEF AllInv, IInv
<1> QED
  BY <1>1, <1>2, <1>5, <1>6, <1>7

LEMMA ExecuteFull ==
  ASSUME TypeOK, PointersInv, executePlain \/ executeJump \/ executeSystem,
         NEW d, d = de_st.load.instr,
         NEW i, i = Executed(instrs[d])
  PROVE  /\ phase = "execute" /\ phase' = "decode"
         /\ Valid(de_st.load) /\ d \in Pointer
         /\ UNCHANGED <<mw_st, prog, regs, mem, store, is_stop>>
         /\ instrs' = [instrs EXCEPT ![d] = i] /\ instrs'[d] = i
         /\ i.op = instrs[d].op /\ i.pc = instrs[d].pc
         /\ em_st'.load = em_st.load
         /\ Live(em_st'.store) /\ em_st'.store.instr = d
         /\ em_st'.store.hazard_stall = em_st.store.hazard_stall
         /\ wf_st'.load = wf_st.load /\ fd_st'.load = fd_st.load
         /\ Live(de_st'.load) /\ de_st'.load.instr = d
         /\ wf_st'.store.is_stall = wf_st.store.is_stall
         /\ wf_st'.store.hazard_stall = wf_st.store.hazard_stall
         /\ IF Jumps(i)
              THEN /\ wf_st'.store.is_jump /\ wf_st'.store.pc_jump = i.branch_addr
                   /\ fd_st'.store.hazard_stall /\ de_st'.store.hazard_stall
              ELSE /\ wf_st'.store = wf_st.store /\ fd_st'.store = fd_st.store
                   /\ de_st'.store = de_st.store
         /\ IF i.op.type = "SYSTEM"
              THEN /\ de_st'.load.hazard_stall /\ ~Jumps(i)
                   /\ wf_st'.stop_count = wf_st.stop_count + 5
                   /\ fd_st'.stop_count = fd_st.stop_count + 5
                   /\ de_st'.stop_count = de_st.stop_count + 5
              ELSE /\ de_st'.load = de_st.load
                   /\ wf_st'.stop_count = wf_st.stop_count
                   /\ fd_st'.stop_count = fd_st.stop_count
                   /\ de_st'.stop_count = de_st.stop_count
<1>1. RunExecutor
  BY DEF executePlain, executeJump, executeSystem
<1>2. /\ phase = "execute" /\ phase' = "decode"
      /\ Valid(de_st.load) /\ d \in Pointer
      /\ UNCHANGED <<mw_st, prog, regs, mem, store, is_stop>>
      /\ instrs' = [instrs EXCEPT ![d] = i]
  BY <1>1, RunEffect DEF RunExecutor, PointersInv, Points, Live, Valid
<1>3. /\ instrs[d] \in InstructionObject /\ instrs'[d] = i
      /\ i.op = instrs[d].op /\ i.pc = instrs[d].pc
  <2>1. instrs \in [Pointer -> InstructionObject]
    BY DEF TypeOK, HazardUnitTypeOK
  <2>2. instrs[d] \in InstructionObject /\ instrs'[d] = i
    BY <1>2, <2>1
  <2>3. Executed(instrs[d]).pc = instrs[d].pc
    BY <2>2 DEF Executed, InstructionObject
  <2> QED
    BY <2>2, <2>3, ExecutedType
<1>4. /\ em_st'.load = em_st.load
      /\ Live(em_st'.store) /\ em_st'.store.instr = d
      /\ em_st'.store.hazard_stall = em_st.store.hazard_stall
  BY <1>1, LatchShape DEF RunExecutor, Live, StageOf, XS
<1>5. Jumps(i) => i.op.type # "SYSTEM"
  BY DEF Jumps
<1>6. CASE executePlain
  <2>1. ~Jumps(i) /\ i.op.type # "SYSTEM" /\ UNCHANGED <<wf_st, fd_st, de_st>>
    BY <1>6 DEF executePlain
  <2> QED
    BY <1>2, <1>3, <1>4, <2>1 DEF Live, Valid
<1>7. CASE executeJump
  <2>1. Jumps(i) /\ hu_branch(i.branch_addr)
    BY <1>7 DEF executeJump
  <2>2. /\ wf_st'.store.is_jump /\ wf_st'.store.pc_jump = i.branch_addr
        /\ fd_st'.store.hazard_stall /\ de_st'.store.hazard_stall
        /\ wf_st'.store.is_stall = wf_st.store.is_stall
        /\ wf_st'.store.hazard_stall = wf_st.store.hazard_stall
    BY <2>1, LatchShape DEF hu_branch, StageOf, WF, FD, XS
  <2> QED
    BY <1>2, <1>3, <1>4, <1>5, <2>1, <2>2, BranchEffect DEF Live, Valid
<1>8. CASE executeSystem
  <2>1. i.op.type = "SYSTEM" /\ hu_exit
    BY <1>3, <1>8 DEF executeSystem
  <2>2. wf_st'.store = wf_st.store /\ de_st'.store = de_st.store
    BY <2>1, LatchShape DEF hu_exit, extend, StageOf
  <2>3. /\ wf_st'.load = wf_st.load
        /\ wf_st'.stop_count = wf_st.stop_count + 5
        /\ fd_st'.load = fd_st.load /\ fd_st'.store = fd_st.store
        /\ fd_st'.stop_count = fd_st.stop_count + 5
        /\ de_st'.load.is_stall = de_st.load.is_stall
        /\ de_st'.load.instr = de_st.load.instr
        /\ de_st'.load.hazard_stall = TRUE
        /\ de_st'.stop_count = de_st.stop_count + 5
    BY <2>1, ExitEffect
  <2> QED
    BY <1>2, <1>3, <1>4, <1>5, <2>1, <2>2, <2>3 DEF Live, Valid
<1> QED
  BY <1>6, <1>7, <1>8

LEMMA FetchFull ==
  ASSUME TypeOK, fetchBubble \/ fetchInstr, Valid(wf_st.load)
  PROVE  /\ phase = "fetch" /\ phase' = "update"
         /\ UNCHANGED <<de_st, em_st, mw_st, prog, regs, mem, store, is_stop,
                        instrs>>
         /\ wf_st'.load = wf_st.load /\ fd_st'.load = fd_st.load
         /\ wf_st'.stop_count = wf_st.stop_count
         /\ fd_st'.stop_count = fd_st.stop_count
         /\ wf_st'.store.is_stall = wf_st.store.is_stall
         /\ wf_st'.store.hazard_stall = wf_st.store.hazard_stall
         /\ wf_st'.store.is_jump = wf_st.store.is_jump
         /\ wf_st'.store.pc_jump = wf_st.store.pc_jump
         /\ fd_st'.store.hazard_stall = fd_st.store.hazard_stall
         /\ Live(fd_st'.store)
         /\ ~stopped(fd_st) => /\ fd_st'.store.pc = FetchPc
                               /\ wf_st'.store.pc = Plus(FetchPc, 1)
<1>1. CASE fetchBubble
  BY <1>1, LatchShape DEF fetchBubble, GoTo, StageOf, WF, FD, Live
<1>2. CASE fetchInstr
  BY <1>2, LatchShape DEF fetchInstr, GoTo, StageOf, WF, FD, Live
<1> QED
  BY <1>1, <1>2

LEMMA ClockFull ==
  ASSUME TypeOK, StopsInv, endOfClock
  PROVE  /\ phase = "update" /\ phase' = IF is_stop THEN "stopped" ELSE "writeBack"
         /\ UNCHANGED <<prog, regs, instrs, is_stop>>
         /\ em_st'.load = em_st.store /\ em_st'.store = EmptyXS
         /\ mw_st'.load = mw_st.store /\ mw_st'.store = EmptyXS
         /\ IF stopped(wf_st)
              THEN /\ wf_st'.load = wf_st.load /\ wf_st'.store = wf_st.store
                   /\ wf_st'.stop_count = wf_st.stop_count - 1
              ELSE /\ wf_st'.load = wf_st.store /\ wf_st'.store = EmptyWF
                   /\ wf_st'.stop_count = 0
         /\ IF stopped(fd_st)
              THEN /\ fd_st'.load = fd_st.load /\ fd_st'.store = fd_st.store
                   /\ fd_st'.stop_count = fd_st.stop_count - 1
              ELSE /\ fd_st'.load = fd_st.store /\ fd_st'.store = EmptyFD
                   /\ fd_st'.stop_count = 0
         /\ IF stopped(de_st)
              THEN /\ de_st'.load = de_st.load /\ de_st'.store = de_st.store
                   /\ de_st'.stop_count = de_st.stop_count - 1
              ELSE /\ de_st'.load = de_st.store /\ de_st'.store = EmptyXS
                   /\ de_st'.stop_count = 0
BY LatchShape DEF endOfClock, GoTo, update, stopped, StopsInv, StageOf

LEMMA WriteBackFull ==
  ASSUME AllInv, phase # "aborted", writeBack
  PROVE  /\ phase = "writeBack" /\ phase' = "memoryAccess"
         /\ UNCHANGED <<wf_st, fd_st, de_st, em_st, mw_st, prog, instrs, mem, store>>
         /\ regs' = ArchRegs /\ is_stop' = ArchHalted
         /\ AtWriteBack' = mw_st.store /\ ~Live(mw_st.store)
<1>1. /\ phase = "writeBack" /\ phase' = "memoryAccess"
      /\ UNCHANGED <<wf_st, fd_st, de_st, em_st, mw_st, prog, instrs, mem, store>>
  BY DEF writeBack, writeBackBubble, retire, GoTo, latches
<1>2. /\ AtWriteBack = mw_st.load /\ AtWriteBack' = mw_st.store
      /\ ~Live(mw_st.store) /\ ~mw_st.load.hazard_stall
  BY <1>1 DEF AtWriteBack, AllInv, UsageInv, FreshInv, Live, FlowInv, NoLoadStall
<1>3. CASE writeBackBubble
  <2>1. UNCHANGED <<regs, is_stop>> /\ ~Valid(mw_st.load)
    BY <1>2, <1>3 DEF writeBackBubble, Valid
  <2> QED
    BY <1>1, <1>2, <2>1 DEF ArchRegs, ArchHalted, AllInv, IInv, TypeOK
<1>4. CASE retire
  <2> DEFINE i == instrs[mw_st.load.instr]
  <2>1. /\ Valid(mw_st.load) /\ hu_write(mw_st.load.instr)
        /\ is_stop' = (is_stop \/ i.op.name = "ECALL")
    BY <1>4 DEF retire
  <2>2. regs' = IF Writes(i.op) /\ i.op.rd # 0
                  THEN [regs EXCEPT ![i.op.rd] = i.rd] ELSE regs
    BY <2>1 DEF hu_write, write
  <2> QED
    BY <1>1, <1>2, <2>1, <2>2 DEF ArchRegs, ArchHalted, Retiring
<1> QED
  BY <1>3, <1>4 DEF writeBack

\* A load changes the rd of its object, the other instructions change none.
LEMMA PassFull ==
  ASSUME AllInv, memoryStore \/ memoryLoad \/ memoryOther,
         NEW d, d = em_st.load.instr,
         NEW i, i = instrs[d]
  PROVE  /\ phase = "memoryAccess" /\ phase' = "execute"
         /\ Valid(em_st.load) /\ d \in Pointer /\ i \in InstructionObject
         /\ UNCHANGED <<wf_st, fd_st, de_st, em_st, prog, regs, is_stop>>
         /\ ~Live(mw_st.store) /\ store = NoStore
         /\ Valid(mw_st'.store) /\ mw_st'.store.instr = d
         /\ AtWriteBack = mw_st.store /\ AtWriteBack' = mw_st'.store
         /\ \A q \in Pointer \ {d} : instrs'[q] = instrs[q]
         /\ IF is_load(i.op)
              THEN /\ InBounds(i.addr)
                   /\ \E v \in ReadFrom(i.addr) : instrs'[d] = [i EXCEPT !.rd = v]
              ELSE instrs' = instrs
<1>0. TypeOK /\ PointersInv
  BY DEF AllInv, IInv
<1>1. PassToWriteBack
  BY DEF memoryStore, memoryLoad, memoryOther
<1>2. /\ phase = "memoryAccess" /\ phase' = "execute" /\ Valid(em_st.load)
      /\ Live(mw_st'.store) /\ mw_st'.store.instr = d
      /\ mw_st'.store.hazard_stall = mw_st.store.hazard_stall
      /\ UNCHANGED <<wf_st, fd_st, de_st, em_st, prog, regs, is_stop>>
  BY <1>0, <1>1, PassEffect, LatchShape DEF PassToWriteBack, StageOf, XS
<1>3. ~Live(mw_st.store) /\ ~mw_st.store.hazard_stall /\ store = NoStore
  BY <1>2 DEF AllInv, UsageInv, FreshInv, HandedInv, Live
<1>4. Valid(mw_st'.store)
  BY <1>2, <1>3 DEF Valid, Live
<1>5. instrs \in [Pointer -> InstructionObject]
  BY <1>0 DEF TypeOK, HazardUnitTypeOK
<1>6. d \in Pointer /\ i \in InstructionObject /\ i.op \in Instructions
  BY <1>0, <1>2, <1>5 DEF PointersInv, Points, Live, Valid, InstructionObject
<1>7. is_load(i.op) => i.op.type = "I" /\ ~IsStore(i.op)
  BY <1>6, RecognizedAssumption DEF is_load, IsStore
<1>8. ASSUME memoryStore \/ memoryOther PROVE ~is_load(i.op) /\ UNCHANGED instrs
  BY <1>7, <1>8 DEF memoryStore, memoryOther
<1>9. ASSUME memoryLoad
      PROVE  /\ is_load(i.op) /\ InBounds(i.addr)
             /\ \E v \in ReadFrom(i.addr) : instrs' = [instrs EXCEPT ![d].rd = v]
  BY <1>9 DEF memoryLoad
<1>10. IF is_load(i.op)
         THEN /\ InBounds(i.addr)
              /\ \E v \in ReadFrom(i.addr) : instrs' = [instrs EXCEPT ![d].rd = v]
         ELSE instrs' = instrs
  BY <1>8, <1>9
<1>11. /\ \A q \in Pointer \ {d} : instrs'[q] = instrs[q]
       /\ IF is_load(i.op)
            THEN /\ InBounds(i.addr)
                 /\ \E v \in ReadFrom(i.addr) : instrs'[d] = [i EXCEPT !.rd = v]
            ELSE instrs' = instrs
  BY <1>5, <1>6, <1>10
<1>12. AtWriteBack = mw_st.store /\ AtWriteBack' = mw_st'.store
  BY <1>2 DEF AtWriteBack
<1> QED
  BY <1>2, <1>3, <1>4, <1>6, <1>11, <1>12

-----------------------------------------------------------------------------
(* FlowInv, one lemma per step of the clock.                                 *)

LEMMA FlowParts ==
  ASSUME AllInv, phase # "aborted"
  PROVE  /\ TypeOK /\ PointersInv /\ FetchedInv /\ StopsInv
         /\ RingInv /\ LinksInv /\ DrainInv /\ LockBalance
         /\ FreshInv /\ HandedInv /\ DistinctInv
         /\ SafeProgram(prog) /\ NoLoadStall /\ JumpInv /\ StagesInv /\ ChainInv
         /\ RetiringInv /\ ExecutedInv /\ DecodedInv /\ SquashedInv /\ HaltInv
BY DEF AllInv, IInv, UsageInv, FlowInv, ValuesInv

LEMMA FlowWriteBack ==
  ASSUME AllInv, phase # "aborted", writeBack
  PROVE  FlowInv'
<1>0. /\ SafeProgram(prog) /\ NoLoadStall /\ JumpInv /\ StagesInv /\ ChainInv
      /\ RetiringInv /\ ExecutedInv /\ DecodedInv /\ SquashedInv /\ HaltInv
      /\ DrainInv /\ TypeOK /\ PointersInv
  BY FlowParts
<1>1. /\ phase = "writeBack" /\ phase' = "memoryAccess"
      /\ UNCHANGED <<wf_st, fd_st, de_st, em_st, mw_st, prog, instrs, mem, store>>
      /\ regs' = ArchRegs /\ is_stop' = ArchHalted
      /\ AtWriteBack' = mw_st.store /\ ~Live(mw_st.store)
  BY WriteBackFull
<1>2. SafeProgram(prog)' /\ NoLoadStall'
  BY <1>0, <1>1 DEF SafeProgram, NoLoadStall, Valid
<1>3. JumpInv'
  BY <1>0, <1>1 DEF JumpInv, Jumped, Live, Obj, Late
<1>4. StagesInv'
  BY <1>0, <1>1 DEF StagesInv, Live, Early, Late
<1>5. ChainInv'
  BY <1>0, <1>1
     DEF ChainInv, Live, Valid, Obj, Early, Late, FetchedAt, FetchPc, stopped
<1>6. ArchRegs' = ArchRegs
  BY <1>1 DEF ArchRegs, Valid, Live
<1>7. /\ AtMemory' = AtMemory /\ AtExecute' = AtExecute
      /\ Obj(AtMemory)' = Obj(AtMemory) /\ Obj(AtExecute)' = Obj(AtExecute)
      /\ RegsBehind' = RegsBehind
      /\ Live(AtMemory)' = Live(AtMemory)
      /\ Valid(AtExecute)' = Valid(AtExecute)
      /\ Live(AtExecute)' = Live(AtExecute)
  BY <1>1, <1>6 DEF AtMemory, AtExecute, Obj, RegsBehind, Early, Live, Valid
<1>8. RetiringInv'
  BY <1>1 DEF RetiringInv
<1>9. ExecutedInv' /\ DecodedInv'
  BY <1>0, <1>1, <1>6, <1>7
     DEF ExecutedInv, DecodedInv, Early, Late, OfProgram, OperandsFrom
<1>10. SquashedInv'
  <2> DEFINE i == Obj(AtExecute)
  <2> SUFFICES ASSUME Live(AtExecute), AtExecute.hazard_stall, Writes(i.op), i.op.rd # 0
               PROVE  i.rd = regs'[i.op.rd]
    BY <1>1, <1>7 DEF SquashedInv
  <2>1. /\ i.rd = regs[i.op.rd]
        /\ ~(Live(AtWriteBack) /\ Writes(Retiring.op) /\ Retiring.op.rd = i.op.rd)
    BY <1>0, <1>1 DEF SquashedInv, Early
  <2>2. i.op.rd \in Reg /\ regs \in [Reg -> Word]
    <3>1. /\ AtExecute.instr \in Pointer /\ instrs \in [Pointer -> InstructionObject]
          /\ regs \in [Reg -> Word]
      BY <1>0, <1>1 DEF AtExecute, Early, PointersInv, Points, TypeOK,
           HazardUnitTypeOK, RegFileTypeOK
    <3> QED
      BY <3>1, DecodedFields DEF Obj, InstructionObject
  <2>3. ArchRegs[i.op.rd] = regs[i.op.rd]
    BY <2>1, <2>2 DEF ArchRegs, Live, Valid
  <2> QED
    BY <1>1, <2>1, <2>3
<1>11. HaltInv'
  <2>1. ~is_stop
    BY <1>0, <1>1 DEF HaltInv
  <2>2. CASE is_stop'
    <3>1. Valid(mw_st.load) /\ Obj(mw_st.load).op.name = "ECALL"
      BY <1>1, <2>1, <2>2 DEF ArchHalted, AtWriteBack, Retiring, Obj
    <3>2. Obj(mw_st.load).op \in Instructions
      BY <1>0, <3>1 DEF PointersInv, Points, Live, Valid, Obj, TypeOK,
           HazardUnitTypeOK, InstructionObject
    <3>3. IsSystem(mw_st.load)
      BY <3>1, <3>2, RecognizedAssumption DEF IsSystem, OpOf, Live, Valid, Obj
    <3>4. em_st.load.is_stall
      BY <1>0, <1>1, <3>3 DEF DrainInv
    <3> QED
      BY <1>1, <3>4 DEF HaltInv, Live
  <2> QED
    BY <2>2 DEF HaltInv
<1> QED
  BY <1>2, <1>3, <1>4, <1>5, <1>8, <1>9, <1>10, <1>11 DEF FlowInv, ValuesInv

LEMMA FlowMemoryBubble ==
  ASSUME AllInv, phase # "aborted", memoryBubble
  PROVE  FlowInv' /\ UNCHANGED <<regs, ArchRegs>>
<1>0. /\ SafeProgram(prog) /\ NoLoadStall /\ JumpInv /\ StagesInv /\ ChainInv
      /\ DecodedInv /\ SquashedInv /\ HaltInv
      /\ FreshInv /\ TypeOK /\ StopsInv
  BY FlowParts
<1>1. /\ phase = "memoryAccess" /\ phase' = "execute"
      /\ ~Valid(em_st.load) /\ ~Live(mw_st'.store)
      /\ mw_st'.load = mw_st.load
      /\ UNCHANGED <<wf_st, fd_st, de_st, em_st, prog, instrs>>
  BY <1>0, MemoryBubbleEffect
<1>2. ~Live(em_st.load) /\ ~Live(mw_st.store)
  BY <1>0, <1>1 DEF NoLoadStall, Valid, Live, FreshInv
<1>3. UNCHANGED <<regs, is_stop>>
  BY <1>2 DEF memoryBubble, Live
<1>4. SafeProgram(prog)' /\ NoLoadStall' /\ JumpInv' /\ StagesInv' /\ HaltInv'
  BY <1>0, <1>1, <1>3
     DEF SafeProgram, NoLoadStall, Valid, JumpInv, Jumped, Live, Obj, Late,
         StagesInv, Early, HaltInv
<1>5. ChainInv'
  BY <1>0, <1>1
     DEF ChainInv, Live, Valid, Obj, Early, Late, FetchedAt, FetchPc, stopped
<1>6. /\ ArchRegs = regs /\ ArchRegs' = regs
  BY <1>1, <1>2, <1>3 DEF ArchRegs, Valid, Live, AtWriteBack
<1>7. RegsBehind = regs /\ RegsBehind' = regs
  BY <1>1, <1>2, <1>6, EmptyNotLive DEF RegsBehind, AtMemory
<1>8. RetiringInv' /\ ExecutedInv'
  BY <1>1, EmptyNotLive DEF RetiringInv, ExecutedInv, AtMemory
<1>9. DecodedInv' /\ SquashedInv'
  BY <1>0, <1>1, <1>3, <1>7
     DEF DecodedInv, SquashedInv, AtExecute, Early, Late, OfProgram,
         OperandsFrom, Valid, Live, Obj
<1> QED
  BY <1>3, <1>4, <1>5, <1>6, <1>8, <1>9 DEF FlowInv, ValuesInv

LEMMA ObjectType ==
  ASSUME TypeOK, NEW b, Points(b), Live(b)
  PROVE  /\ b.instr \in Pointer /\ Obj(b) \in InstructionObject
         /\ Obj(b).op \in Instructions /\ Obj(b).op.rd \in Reg
BY DecodedFields DEF Points, Obj, TypeOK, HazardUnitTypeOK, InstructionObject

LEMMA LoadFacts ==
  ASSUME NEW w \in Instructions, is_load(w)
  PROVE  /\ w.type = "I" /\ Writes(w) /\ ~w.is_branch
         /\ ~KeepsRd(w) /\ ~IsLink(w) /\ ~IsArithmetic(w) /\ ~IsStore(w)
BY RecognizedAssumption
   DEF is_load, Writes, KeepsRd, IsLink, IsArithmetic, IsStore

\* Behind a load comes an instruction that has nothing to do with its result.
LEMMA LoadApart ==
  ASSUME AllInv, phase = "memoryAccess", Valid(em_st.load),
         NEW i, i = Obj(em_st.load), is_load(i.op),
         NEW j, j = Obj(de_st.load)
  PROVE  /\ Valid(de_st.load) /\ OfProgram(j)
         /\ i.op.rd # 0 =>
              ~Uses(j.op, i.op.rd) /\ ~(KeepsRd(j.op) /\ j.op.rd = i.op.rd)
<1>0. /\ SafeProgram(prog) /\ ChainInv /\ ExecutedInv /\ DecodedInv
      /\ TypeOK /\ PointersInv
  BY FlowParts
<1>1. /\ i.op \in Instructions /\ i.op.type = "I" /\ Writes(i.op) /\ ~i.op.is_branch
  BY <1>0, ObjectType, LoadFacts DEF PointersInv, Valid, Live
<1>2. Valid(de_st.load) /\ j.pc = Plus(i.pc, 1)
  BY <1>0, <1>1 DEF ChainInv, Early, Jumps
<1>3. OfProgram(i)
  BY <1>0 DEF ExecutedInv, Early, AtMemory, Valid, Live
<1>4. OfProgram(j)
  BY <1>0, <1>2 DEF DecodedInv, Early, AtExecute
<1>5. ~UsesLoad(prog, i.pc) /\ ~KeepsStale(prog, i.pc)
  BY <1>0, <1>3 DEF SafeProgram, OfProgram
<1>6. i.op.rd # 0 => ~Uses(j.op, i.op.rd)
  BY <1>2, <1>3, <1>4, <1>5 DEF UsesLoad, OfProgram
<1>7. i.op.rd # 0 => ~(KeepsRd(j.op) /\ j.op.rd = i.op.rd)
  <2>1. j.pc \in {Plus(i.pc, 1), Plus(Plus(i.pc, 1), 1)} \cap Address
    BY <1>2, <1>4 DEF OfProgram
  <2> QED
    BY <1>1, <1>3, <1>4, <1>5, <2>1 DEF KeepsStale, OfProgram
<1> QED
  BY <1>2, <1>4, <1>6, <1>7

LEMMA FlowPass ==
  ASSUME AllInv, phase # "aborted", memoryStore \/ memoryLoad \/ memoryOther
  PROVE  FlowInv'
<1>0. /\ SafeProgram(prog) /\ NoLoadStall /\ JumpInv /\ StagesInv /\ ChainInv
      /\ ExecutedInv /\ DecodedInv /\ SquashedInv /\ HaltInv
      /\ FreshInv /\ HandedInv /\ DistinctInv /\ TypeOK /\ PointersInv /\ StopsInv
  BY FlowParts
<1> DEFINE d == em_st.load.instr
           i == instrs[d]
           j == Obj(de_st.load)
<1>1. /\ phase = "memoryAccess" /\ phase' = "execute"
      /\ Valid(em_st.load) /\ d \in Pointer /\ i \in InstructionObject
      /\ UNCHANGED <<wf_st, fd_st, de_st, em_st, prog, regs, is_stop>>
      /\ ~Live(mw_st.store)
      /\ Valid(mw_st'.store) /\ mw_st'.store.instr = d
      /\ AtWriteBack = mw_st.store /\ AtWriteBack' = mw_st'.store
      /\ \A q \in Pointer \ {d} : instrs'[q] = instrs[q]
      /\ IF is_load(i.op)
           THEN /\ InBounds(i.addr)
                /\ \E v \in ReadFrom(i.addr) : instrs'[d] = [i EXCEPT !.rd = v]
           ELSE instrs' = instrs
  BY PassFull
<1>2. mw_st'.load = mw_st.load
  BY <1>0, PassEffect DEF memoryStore, memoryLoad, memoryOther
\* All but the rd of a load is kept.
<1>3. /\ instrs'[d].op = i.op /\ instrs'[d].pc = i.pc
      /\ instrs'[d].br_is_taken = i.br_is_taken
      /\ instrs'[d].branch_addr = i.branch_addr
      /\ ~is_load(i.op) => instrs'[d] = i
  BY <1>1 DEF InstructionObject
<1>4. Live(de_st.load) => /\ de_st.load.instr \in Pointer
                          /\ Obj(de_st.load)' = j
  <2> SUFFICES ASSUME Live(de_st.load) PROVE /\ de_st.load.instr \in Pointer
                                             /\ Obj(de_st.load)' = j
    OBVIOUS
  <2>1. de_st.load.instr \in Pointer
    BY <1>0, ObjectType DEF PointersInv
  <2>2. CASE is_load(i.op)
    <3>1. Valid(de_st.load)
      BY <1>1, <2>2, LoadApart DEF Obj
    <3>2. de_st.load.instr # d
      BY <1>0, <1>1, <3>1 DEF DistinctInv, Live, Valid
    <3> QED
      BY <1>1, <2>1, <3>2 DEF Obj
  <2>3. CASE ~is_load(i.op)
    BY <1>1, <2>1, <2>3 DEF Obj
  <2> QED
    BY <2>2, <2>3
<1>5. SafeProgram(prog)' /\ NoLoadStall' /\ StagesInv' /\ HaltInv'
  BY <1>0, <1>1, <1>2
     DEF SafeProgram, NoLoadStall, Valid, StagesInv, Live, Early, Late, HaltInv
<1>6. JumpInv'
  BY <1>0, <1>1 DEF JumpInv, Jumped, Late
<1>7. ChainInv'
  <2>1. Obj(em_st.load)'.op = Obj(em_st.load).op /\ Obj(em_st.load)'.pc = Obj(em_st.load).pc
        /\ Jumps(Obj(em_st.load))' = Jumps(Obj(em_st.load))
        /\ Obj(em_st.load)'.branch_addr = Obj(em_st.load).branch_addr
    BY <1>1, <1>3 DEF Obj, Jumps
  <2>2. Valid(de_st.load) => Obj(de_st.load)'.pc = Obj(de_st.load).pc
    BY <1>4 DEF Valid, Live
  <2> QED
    BY <1>0, <1>1, <2>1, <2>2
       DEF ChainInv, Live, Valid, Early, Late, FetchedAt, FetchPc, stopped
<1>8. RetiringInv'
  <2>1. OfProgram(i)
    BY <1>0, <1>1 DEF ExecutedInv, AtMemory, Early, Live, Valid, Obj
  <2>2. OfProgram(Obj(mw_st.store))'
    BY <1>1, <1>3, <2>1 DEF OfProgram, Obj
  <2> QED
    BY <2>2 DEF RetiringInv
<1>9. ExecutedInv'
  BY <1>1, EmptyNotLive DEF ExecutedInv, AtMemory
<1>10. /\ ArchRegs = regs
       /\ ArchRegs' = IF Writes(i.op) /\ i.op.rd # 0
                        THEN [regs EXCEPT ![i.op.rd] = instrs'[d].rd] ELSE regs
       /\ RegsBehind' = ArchRegs'
       /\ RegsBehind = IF Writes(i.op) /\ i.op.rd # 0
                         THEN [regs EXCEPT ![i.op.rd] = i.rd] ELSE regs
  <2>1. ArchRegs = regs
    BY <1>1 DEF ArchRegs, Valid, Live
  <2>2. ArchRegs' = IF Writes(i.op) /\ i.op.rd # 0
                      THEN [regs EXCEPT ![i.op.rd] = instrs'[d].rd] ELSE regs
    BY <1>1, <1>3 DEF ArchRegs, Retiring
  <2>3. RegsBehind' = ArchRegs'
    BY <1>1, EmptyNotLive DEF RegsBehind, AtMemory
  <2>4. RegsBehind = IF Writes(i.op) /\ i.op.rd # 0
                         THEN [regs EXCEPT ![i.op.rd] = i.rd] ELSE regs
    BY <1>1, <2>1 DEF RegsBehind, AtMemory, Obj, Live, Valid
  <2> QED
    BY <2>1, <2>2, <2>3, <2>4
<1>11. DecodedInv'
  <2> SUFFICES ASSUME Valid(de_st.load)
               PROVE  OfProgram(j) /\ OperandsFrom(j, RegsBehind')
    BY <1>1, <1>4 DEF DecodedInv, AtExecute, Early, Obj, Live, Valid, OfProgram,
       OperandsFrom
  <2>1. OfProgram(j) /\ OperandsFrom(j, RegsBehind)
    BY <1>0, <1>1 DEF DecodedInv, AtExecute, Early
  <2>2. CASE is_load(i.op)
    <3>1. i.op.rd # 0 =>
              ~Uses(j.op, i.op.rd) /\ ~(KeepsRd(j.op) /\ j.op.rd = i.op.rd)
      BY <1>1, <2>2, LoadApart DEF Obj
    <3>2. /\ regs \in [Reg -> Word]
          /\ j.op.rs1 \in Reg /\ j.op.rs2 \in Reg /\ j.op.rd \in Reg
      BY <1>0, ObjectType, DecodedFields DEF PointersInv, Live, Valid, TypeOK,
         HazardUnitTypeOK, RegFileTypeOK
    <3>3. \A r \in Reg : r # i.op.rd \/ i.op.rd = 0 => RegsBehind'[r] = RegsBehind[r]
      BY <1>10, <3>2
    <3> QED
      BY <2>1, <3>1, <3>2, <3>3 DEF OperandsFrom, Uses
  <2>3. CASE ~is_load(i.op)
    BY <1>3, <1>10, <2>1, <2>3
  <2> QED
    BY <2>2, <2>3
<1>12. SquashedInv'
  <2>1. Live(de_st.load) =>
          /\ Obj(de_st.load)' = Obj(de_st.load)
          /\ AtExecute = de_st.load
    BY <1>1, <1>4 DEF AtExecute, Early
  <2> QED
    BY <1>0, <1>1, <2>1 DEF SquashedInv, AtExecute, Early, Late, Live
<1> QED
  BY <1>5, <1>6, <1>7, <1>8, <1>9, <1>11, <1>12 DEF FlowInv, ValuesInv

\* What the executors read they leave alone: running one twice is running it once.
LEMMA ExecutedFields ==
  ASSUME NEW i \in InstructionObject,
         NEW e, e = Executed(i)
  PROVE  /\ e \in InstructionObject
         /\ e.op = i.op /\ e.pc = i.pc /\ e.rs1 = i.rs1 /\ e.rs2 = i.rs2
         /\ e.rd = IF IsLink(i.op) THEN Plus(i.pc, 1)
                   ELSE IF IsArithmetic(i.op) THEN Alu(i.op, i.rs1, i.rs2, i.pc)
                   ELSE i.rd
         /\ e.addr = IF i.op.mem_acc_type # "NONE" THEN Plus(i.rs1, i.op.imm)
                     ELSE i.addr
         /\ e.branch_addr =
              IF i.op.name = "JALR" THEN Plus(i.rs1, i.op.imm)
              ELSE IF i.op.is_branch /\ i.op.name # "NONE" THEN Plus(i.pc, i.op.imm)
              ELSE i.branch_addr
         /\ e.br_is_taken = IF i.op.type = "B" /\ i.op.name # "NONE"
                              THEN BranchTaken(i.op, i.rs1, i.rs2)
                            ELSE i.br_is_taken
<1>1. e \in InstructionObject
  BY ExecutedType
<1> QED
  BY <1>1 DEF Executed, InstructionObject

LEMMA ExecutedTwice ==
  ASSUME NEW i \in InstructionObject
  PROVE  Executed(Executed(i)) = Executed(i)
<1> DEFINE e == Executed(i)
           f == Executed(e)
<1>1. e \in InstructionObject
  BY ExecutedFields
<1>2. f \in InstructionObject
  BY <1>1, ExecutedFields
<1>3. /\ e.op = i.op /\ e.pc = i.pc /\ e.rs1 = i.rs1 /\ e.rs2 = i.rs2
      /\ f.op = e.op /\ f.pc = e.pc /\ f.rs1 = e.rs1 /\ f.rs2 = e.rs2
  BY <1>1, ExecutedFields
<1>4. f.rd = e.rd
  BY <1>1, <1>3, ExecutedFields
<1>5. f.addr = e.addr /\ f.branch_addr = e.branch_addr
  BY <1>1, <1>3, ExecutedFields
<1>6. f.br_is_taken = e.br_is_taken
  BY <1>1, <1>3, ExecutedFields
<1> HIDE DEF e, f
<1>7. f = e
  BY <1>1, <1>2, <1>3, <1>4, <1>5, <1>6 DEF InstructionObject
<1> QED
  BY <1>7 DEF e, f

LEMMA FlowExecuteBubble ==
  ASSUME AllInv, phase # "aborted", executeBubble
  PROVE  FlowInv' /\ UNCHANGED regs
<1>0. /\ SafeProgram(prog) /\ NoLoadStall /\ JumpInv /\ StagesInv /\ ChainInv
      /\ RetiringInv /\ SquashedInv /\ HaltInv /\ HandedInv
      /\ TypeOK /\ PointersInv /\ StopsInv
  BY FlowParts
<1>1. /\ phase = "execute" /\ phase' = "decode"
      /\ ~Valid(de_st.load) /\ ~Live(em_st'.store) /\ em_st'.load = em_st.load
      /\ UNCHANGED <<wf_st, fd_st, de_st, mw_st, prog, instrs>>
  BY <1>0, ExecuteBubbleEffect
<1>2. UNCHANGED is_stop /\ em_st'.store.hazard_stall = em_st.store.hazard_stall
  BY <1>0, LatchShape DEF executeBubble, StageOf, XS
<1>3. UNCHANGED regs
  <2>1. CASE de_st.load.is_stall
    BY <2>1 DEF executeBubble
  <2>2. CASE Live(de_st.load)
    <3> DEFINE i == Obj(de_st.load)
    <3>1. hu_write(de_st.load.instr) /\ de_st.load.hazard_stall
      BY <1>1, <2>2 DEF executeBubble, Live, Valid
    <3>2. Writes(i.op) /\ i.op.rd # 0 => i.rd = regs[i.op.rd]
      BY <1>0, <1>1, <2>2, <3>1 DEF SquashedInv, AtExecute, Early
    <3>3. i.op.rd \in Reg /\ regs \in [Reg -> Word]
      BY <1>0, <2>2, ObjectType DEF PointersInv, TypeOK, HazardUnitTypeOK,
         RegFileTypeOK
    <3> QED
      BY <3>1, <3>2, <3>3 DEF hu_write, write, Obj
  <2> QED
    BY <2>1, <2>2 DEF Live
<1>4. SafeProgram(prog)' /\ NoLoadStall' /\ HaltInv'
  BY <1>0, <1>1, <1>2 DEF SafeProgram, NoLoadStall, Valid, HaltInv
<1>5. JumpInv'
  BY <1>0, <1>1 DEF JumpInv, Jumped, Late
<1>6. StagesInv'
  BY <1>0, <1>1 DEF StagesInv, Early, Late, Valid
<1>7. ChainInv'
  <2>1. Valid(fd_st.load) => FetchPc = Plus(fd_st.load.pc, 1)
    BY <1>0, <1>1 DEF ChainInv, Early
  <2>2. ~(Live(mw_st.store) /\ Valid(fd_st.load) /\ ~stopped(de_st))
    BY <1>0, <1>1 DEF ChainInv, Early, HandedInv, Middle
  <2> QED
    BY <1>1, <2>1, <2>2
       DEF ChainInv, Early, Late, Live, Valid, FetchPc, FetchedAt, stopped
<1>8. RetiringInv'
  BY <1>0, <1>1 DEF RetiringInv, OfProgram, Live, Obj
<1>9. ExecutedInv' /\ DecodedInv' /\ SquashedInv'
  BY <1>1, EmptyNotLive
     DEF ExecutedInv, DecodedInv, SquashedInv, AtMemory, AtExecute, Early, Valid, Live
<1> QED
  BY <1>3, <1>4, <1>5, <1>6, <1>7, <1>8, <1>9 DEF FlowInv, ValuesInv

LEMMA FlowRun ==
  ASSUME AllInv, phase # "aborted", executePlain \/ executeJump \/ executeSystem
  PROVE  FlowInv'
<1>0. /\ SafeProgram(prog) /\ NoLoadStall /\ JumpInv /\ StagesInv /\ ChainInv
      /\ RetiringInv /\ DecodedInv /\ HaltInv /\ HandedInv /\ DistinctInv
      /\ TypeOK /\ PointersInv /\ StopsInv
  BY FlowParts
<1> DEFINE d == de_st.load.instr
           i == Executed(instrs[d])
<1>1. /\ phase = "execute" /\ phase' = "decode"
      /\ Valid(de_st.load) /\ d \in Pointer
      /\ UNCHANGED <<mw_st, prog, regs, is_stop>>
      /\ instrs' = [instrs EXCEPT ![d] = i] /\ instrs'[d] = i
      /\ i.op = instrs[d].op /\ i.pc = instrs[d].pc
      /\ em_st'.load = em_st.load
      /\ Live(em_st'.store) /\ em_st'.store.instr = d
      /\ em_st'.store.hazard_stall = em_st.store.hazard_stall
      /\ wf_st'.load = wf_st.load /\ fd_st'.load = fd_st.load
      /\ Live(de_st'.load) /\ de_st'.load.instr = d
      /\ wf_st'.store.is_stall = wf_st.store.is_stall
      /\ wf_st'.store.hazard_stall = wf_st.store.hazard_stall
  BY <1>0, ExecuteFull
<1>2. IF Jumps(i)
        THEN /\ wf_st'.store.is_jump /\ wf_st'.store.pc_jump = i.branch_addr
             /\ fd_st'.store.hazard_stall /\ de_st'.store.hazard_stall
        ELSE /\ wf_st'.store = wf_st.store /\ fd_st'.store = fd_st.store
             /\ de_st'.store = de_st.store
  BY <1>0, ExecuteFull
<1>3. IF i.op.type = "SYSTEM"
        THEN /\ de_st'.load.hazard_stall
             /\ fd_st'.stop_count = fd_st.stop_count + 5
             /\ de_st'.stop_count = de_st.stop_count + 5
        ELSE /\ de_st'.load = de_st.load
             /\ fd_st'.stop_count = fd_st.stop_count
             /\ de_st'.stop_count = de_st.stop_count
  BY <1>0, ExecuteFull
<1>4. /\ instrs \in [Pointer -> InstructionObject] /\ instrs[d] \in InstructionObject
      /\ regs \in [Reg -> Word] /\ de_st.stop_count \in Nat
  BY <1>0, <1>1, LatchShape
     DEF TypeOK, HazardUnitTypeOK, RegFileTypeOK, StageOf
<1>5. ~stopped(de_st)
  BY <1>0, <1>1 DEF StopsInv, Valid
<1>6. stopped(de_st') <=> i.op.type = "SYSTEM"
  BY <1>3, <1>4, <1>5 DEF stopped
<1>7. Obj(em_st.store)' = i
  BY <1>1 DEF Obj
\* The instruction handed on by the memory stage has an object of its own.
<1>8. Live(mw_st.store) => /\ mw_st.store.instr \in Pointer \ {d}
                           /\ Obj(mw_st.store)' = Obj(mw_st.store)
  <2> SUFFICES ASSUME Live(mw_st.store)
               PROVE  /\ mw_st.store.instr \in Pointer \ {d}
                      /\ Obj(mw_st.store)' = Obj(mw_st.store)
    OBVIOUS
  <2>1. mw_st.store.instr \in Pointer
    BY <1>0 DEF PointersInv, Points
  <2>2. Valid(em_st.load) /\ mw_st.store.instr = em_st.load.instr
    BY <1>0, <1>1 DEF HandedInv, Middle
  <2>3. mw_st.store.instr # d
    BY <1>0, <1>1, <2>2 DEF DistinctInv, Valid, Live
  <2> QED
    BY <1>1, <1>4, <2>1, <2>3 DEF Obj
<1>9. SafeProgram(prog)' /\ HaltInv'
  BY <1>0, <1>1 DEF SafeProgram, HaltInv
<1>10. NoLoadStall'
  BY <1>0, <1>1, <1>3 DEF NoLoadStall, Valid
<1>11. JumpInv'
  <2>1. Jumped' <=> Jumps(i)
    BY <1>1, <1>7 DEF Jumped, Late
  <2>2. ~Jumped
    BY <1>1 DEF Jumped, Late
  <2> QED
    BY <1>0, <1>2, <1>7, <2>1, <2>2 DEF JumpInv
<1>12. StagesInv'
  <2>1. IsSystem(em_st.store)' <=> stopped(de_st)'
    BY <1>1, <1>6 DEF IsSystem, OpOf, Live
  <2> QED
    BY <1>1, <2>1 DEF StagesInv, Early, Late
<1>13. ChainInv'
  <2>1. Valid(fd_st.load) => FetchPc = Plus(fd_st.load.pc, 1)
    BY <1>0, <1>1 DEF ChainInv, Early
  <2>2. FetchedAt(Plus(i.pc, 1))
    BY <1>0, <1>1 DEF ChainInv, Early, Obj
  <2>3. Live(mw_st.store) => i.pc = Plus(Obj(mw_st.store).pc, 1)
    BY <1>0, <1>1 DEF ChainInv, Early, HandedInv, Middle, Obj
  <2>4. /\ FetchPc' = FetchPc /\ Valid(fd_st.load)' = Valid(fd_st.load)
        /\ fd_st'.load.pc = fd_st.load.pc
        /\ Live(mw_st.store)' = Live(mw_st.store)
    BY <1>1 DEF FetchPc, Valid, Live
  <2> QED
    BY <1>1, <1>7, <1>8, <2>1, <2>2, <2>3, <2>4
       DEF ChainInv, Early, Late, FetchedAt
<1>14. RetiringInv'
  BY <1>0, <1>1, <1>8 DEF RetiringInv, OfProgram, Live
<1>15. ExecutedInv'
  <2>1. ArchRegs' = ArchRegs
    <3>1. AtWriteBack = mw_st.store /\ AtWriteBack' = mw_st.store
      BY <1>1 DEF AtWriteBack
    <3>2. Valid(mw_st.store) => Retiring' = Retiring
      BY <1>1, <1>8, <3>1 DEF Retiring, Obj, Valid, Live
    <3> QED
      BY <1>1, <3>1, <3>2 DEF ArchRegs
  <2>2. RegsBehind = ArchRegs
    BY <1>1, EmptyNotLive DEF RegsBehind, AtMemory
  <2>3. OfProgram(instrs[d]) /\ OperandsFrom(instrs[d], ArchRegs)
    BY <1>0, <1>1, <2>2 DEF DecodedInv, AtExecute, Early, Obj
  <2>4. i = Executed(i)
    BY <1>4, ExecutedTwice
  <2>5. i.rs1 = instrs[d].rs1 /\ i.rs2 = instrs[d].rs2
    BY <1>4, ExecutedFields
  <2>6. KeepsRd(i.op) => i.rd = instrs[d].rd
    BY <1>1, <1>4, ExecutedFields DEF KeepsRd
  <2>7. OfProgram(i) /\ OperandsFrom(i, ArchRegs)
    BY <1>1, <2>3, <2>5, <2>6 DEF OfProgram, OperandsFrom
  <2>8. Obj(AtMemory)' = i
    BY <1>1 DEF AtMemory, Obj
  <2> HIDE DEF i
  <2> QED
    BY <1>1, <2>1, <2>4, <2>7, <2>8 DEF ExecutedInv, OfProgram, OperandsFrom
<1>16. DecodedInv' /\ SquashedInv'
  BY <1>1, EmptyNotLive DEF DecodedInv, SquashedInv, AtExecute, Early, Valid, Live
<1> QED
  BY <1>9, <1>10, <1>11, <1>12, <1>13, <1>14, <1>15, <1>16 DEF FlowInv, ValuesInv

LEMMA FlowDecodeBubble ==
  ASSUME AllInv, phase # "aborted", decodeBubble
  PROVE  FlowInv'
<1>0. /\ SafeProgram(prog) /\ NoLoadStall /\ JumpInv /\ StagesInv /\ ChainInv
      /\ ExecutedInv /\ HaltInv /\ TypeOK /\ PointersInv /\ StopsInv
  BY FlowParts
<1>1. /\ phase = "decode" /\ phase' = "fetch"
      /\ de_st'.load = de_st.load /\ de_st'.stop_count = de_st.stop_count
      /\ ~Live(Handover(de_st'))
      /\ UNCHANGED <<wf_st, fd_st, em_st, mw_st, prog, instrs, regs, is_stop>>
  BY <1>0, DecodeBubbleEffect DEF decodeBubble
<1>2. /\ de_st'.store.hazard_stall = de_st.store.hazard_stall
      /\ ~stopped(de_st) => ~Live(de_st'.store) /\ ~Valid(fd_st.load)
  BY <1>0, LatchShape DEF decodeBubble, StageOf, XS, Live
<1>3. SafeProgram(prog)' /\ NoLoadStall' /\ HaltInv'
  BY <1>0, <1>1 DEF SafeProgram, NoLoadStall, Valid, HaltInv
<1>4. JumpInv'
  BY <1>0, <1>1, <1>2 DEF JumpInv, Jumped, Late, Obj, Live
<1>5. StagesInv'
  BY <1>0, <1>1, <1>2
     DEF StagesInv, Early, Late, Valid, Live, stopped, IsSystem, OpOf
<1>6. ChainInv'
  BY <1>0, <1>1
     DEF ChainInv, Early, Late, Live, Valid, Obj, FetchedAt, FetchPc
<1>7. RetiringInv' /\ DecodedInv' /\ SquashedInv'
  BY <1>1, EmptyNotLive
     DEF RetiringInv, DecodedInv, SquashedInv, AtExecute, Early, Valid, Live
<1>8. ExecutedInv'
  <2>1. ArchRegs' = ArchRegs
    BY <1>1 DEF ArchRegs, AtWriteBack, Retiring, Valid
  <2> QED
    BY <1>0, <1>1, <2>1
       DEF ExecutedInv, AtMemory, Early, Late, OfProgram, OperandsFrom, Live, Obj
<1> QED
  BY <1>3, <1>4, <1>5, <1>6, <1>7, <1>8 DEF FlowInv, ValuesInv

\* The locks that are out when an instruction is decoded are those of the two in
\* front of it.
LEMMA LocksAtDecode ==
  ASSUME AllInv, phase = "decode", NEW r \in Reg
  PROVE  /\ is_lock(r) => r # 0
         /\ r # 0 => (is_lock(r) <=> Holds(em_st.store, r) = 1
                                       \/ Holds(mw_st.store, r) = 1)
<1>1. LockBalance
  BY FlowParts
<1>2. HeldLocks(r) = Holds(EmptyXS, r) + Holds(em_st.store, r) + Holds(mw_st.store, r)
  BY Held
<1>3. /\ Holds(EmptyXS, r) = 0
      /\ Holds(em_st.store, r) \in {0, 1} /\ Holds(mw_st.store, r) \in {0, 1}
  BY DEF Holds, EmptyXS
<1>4. r # 0 => reg_locker[r] = -HeldLocks(r)
  BY <1>1 DEF LockBalance
<1>5. reg_locker[0] = 0
  BY <1>1 DEF LockBalance
<1> QED
  BY <1>2, <1>3, <1>4, <1>5 DEF is_lock

\* The value HazardUnit::decode finds is the one the register will have when the
\* instructions in front are written back.
LEMMA RightOperand ==
  ASSUME AllInv, phase = "decode", Valid(fd_st.load), ~stopped(de_st),
         NEW r \in Reg, Uses(fd_st.load.instr, r)
  PROVE  Operand(r) = RegsBehind[r]
<1>0. /\ StagesInv /\ HandedInv /\ LinksInv /\ StopsInv
      /\ TypeOK /\ PointersInv /\ regs \in [Reg -> Word]
  BY FlowParts DEF TypeOK, HazardUnitTypeOK, RegFileTypeOK
<1> DEFINE x == Obj(em_st.store)
           w == Obj(mw_st.store)
           X == Live(em_st.store) /\ Writes(x.op) /\ x.op.rd = r
           W == Live(mw_st.store) /\ Writes(w.op) /\ w.op.rd = r
<1>1. /\ is_lock(r) => r # 0
      /\ r # 0 => (is_lock(r) <=> X \/ W)
  <2>1. (X <=> Holds(em_st.store, r) = 1) /\ (W <=> Holds(mw_st.store, r) = 1)
    BY DEF Holds, Live, Obj
  <2> QED
    BY <2>1, LocksAtDecode
<1>2. /\ AtMemory = em_st.store /\ AtWriteBack = mw_st.store
      /\ Live(mw_st.store) => Valid(mw_st.store)
  BY <1>0 DEF AtMemory, AtWriteBack, HandedInv, Valid, Live
<1>3. /\ Live(em_st.store) => x.op.rd \in Reg
      /\ Live(mw_st.store) => w.op.rd \in Reg
  BY <1>0, ObjectType DEF PointersInv
<1>4. ArchRegs[r] = IF W /\ r # 0 THEN w.rd ELSE regs[r]
  BY <1>0, <1>2, <1>3 DEF ArchRegs, Retiring, Obj, Valid, Live
<1>5. ArchRegs \in [Reg -> Word]
  <2>1. Live(mw_st.store) => w.rd \in Word
    BY <1>0, ObjectType DEF PointersInv, InstructionObject
  <2> QED
    BY <1>0, <1>2, <2>1 DEF ArchRegs, Retiring, Obj, Valid, Live
<1>6. RegsBehind[r] = IF X /\ r # 0 THEN x.rd ELSE ArchRegs[r]
  BY <1>2, <1>3, <1>5 DEF RegsBehind
<1>7. ~LoadUse(r)
  BY NoLoadUse
<1>8. X <=> Produces(de_st.load, r)
  <2>1. ASSUME X PROVE Produces(de_st.load, r)
    <3>1. Live(de_st.load) /\ em_st.store.instr = de_st.load.instr
      BY <1>0, <2>1 DEF StagesInv, Late
    <3>2. ~de_st.load.hazard_stall
      BY <1>0, <2>1 DEF LinksInv, IsSystem, OpOf, Writes, Obj
    <3> QED
      BY <2>1, <3>1, <3>2 DEF Produces, Valid, Live, Obj
  <2>2. ASSUME Produces(de_st.load, r) PROVE X
    <3>1. Live(em_st.store) /\ em_st.store.instr = de_st.load.instr
      BY <1>0, <2>2 DEF StagesInv, Late, Produces
    <3> QED
      BY <2>2, <3>1 DEF Produces, Obj
  <2> QED
    BY <2>1, <2>2
<1>9. W <=> Produces(em_st.load, r)
  BY <1>0 DEF HandedInv, Middle, Produces, Obj
<1>10. X => instrs[de_st.load.instr].rd = x.rd
  BY <1>0 DEF StagesInv, Late, Obj
<1>11. W => instrs[em_st.load.instr].rd = w.rd
  BY <1>0 DEF HandedInv, Middle, Obj
<1> HIDE DEF X, W, x, w
<1>12. CASE ~is_lock(r)
  BY <1>1, <1>4, <1>6, <1>12 DEF Operand
<1>13. CASE is_lock(r) /\ X
  BY <1>1, <1>6, <1>7, <1>8, <1>10, <1>13 DEF Operand, BypassMemEx, LoadUse
<1>14. CASE is_lock(r) /\ ~X
  BY <1>1, <1>4, <1>6, <1>7, <1>8, <1>9, <1>11, <1>14
     DEF Operand, BypassMemEx, BypassWbEx
<1> QED
  BY <1>12, <1>13, <1>14

\* What nothing in front writes, the register file holds already.
LEMMA NotWritten ==
  ASSUME AllInv, phase = "decode", NEW r \in Reg,
         r # 0 => /\ ~(Live(em_st.store) /\ Writes(Obj(em_st.store).op)
                         /\ Obj(em_st.store).op.rd = r)
                  /\ ~(Live(mw_st.store) /\ Writes(Obj(mw_st.store).op)
                         /\ Obj(mw_st.store).op.rd = r)
  PROVE  RegsBehind[r] = regs[r]
<1>0. HandedInv /\ PointersInv /\ TypeOK /\ regs \in [Reg -> Word]
  BY FlowParts DEF TypeOK, HazardUnitTypeOK, RegFileTypeOK
<1>1. /\ AtMemory = em_st.store /\ AtWriteBack = mw_st.store
  BY DEF AtMemory, AtWriteBack
<1>2. /\ Live(em_st.store) => Obj(em_st.store).op.rd \in Reg
      /\ Live(mw_st.store) => /\ Obj(mw_st.store).op.rd \in Reg
                              /\ Obj(mw_st.store).rd \in Word
  BY <1>0, ObjectType DEF PointersInv, InstructionObject
<1>3. ArchRegs[r] = regs[r] /\ ArchRegs \in [Reg -> Word]
  BY <1>0, <1>1, <1>2 DEF ArchRegs, Retiring, Obj, Valid, Live
<1> QED
  BY <1>1, <1>2, <1>3 DEF RegsBehind

LEMMA FlowDecode ==
  ASSUME AllInv, phase # "aborted", decodeInstr
  PROVE  FlowInv'
<1>0. /\ SafeProgram(prog) /\ NoLoadStall /\ JumpInv /\ StagesInv /\ ChainInv
      /\ RetiringInv /\ ExecutedInv /\ HaltInv /\ FetchedInv
      /\ TypeOK /\ PointersInv /\ StopsInv
  BY FlowParts
<1> DEFINE w == fd_st.load.instr
           p == get_next(w.type)
           a == fd_st.load.pc
           i == instrs'[p]
           x == Obj(em_st.store)
           y == Obj(mw_st.store)
<1>1. /\ phase = "decode" /\ phase' = "fetch"
      /\ Valid(fd_st.load) /\ ~stopped(de_st)
      /\ UNCHANGED <<wf_st, fd_st, em_st, mw_st, prog, regs>>
      /\ de_st'.load = de_st.load /\ de_st'.stop_count = de_st.stop_count
      /\ Live(de_st'.store) /\ de_st'.store.instr = p
      /\ de_st'.store.hazard_stall = de_st.store.hazard_stall
      /\ w \in Instructions /\ p \in Pointer
      /\ instrs' = [instrs EXCEPT ![p] = Decoded(p, w, a)]
      /\ Live(em_st.store) => em_st.store.instr # p
      /\ Live(mw_st.store) => mw_st.store.instr # p
  BY DecodeSafe
<1>2. instrs \in [Pointer -> InstructionObject] /\ instrs[p] \in InstructionObject
  BY <1>0, <1>1 DEF TypeOK, HazardUnitTypeOK
<1>3. i = Decoded(p, w, a)
  BY <1>1, <1>2
<1>4. /\ i.op = w /\ i.pc = a
      /\ ReadsRs1(w) => i.rs1 = Operand(w.rs1)
      /\ ReadsRs2(w) => i.rs2 = Operand(w.rs2)
      /\ Writes(w) => i.rd = regs[w.rd]
  BY <1>2, <1>3 DEF Decoded, InstructionObject
<1>5. /\ Live(em_st.store) => Obj(em_st.store)' = x
      /\ Live(mw_st.store) => Obj(mw_st.store)' = y
  BY <1>0, <1>1, <1>2, ObjectType DEF PointersInv, Obj
<1>6. w.rs1 \in Reg /\ w.rs2 \in Reg /\ w.rd \in Reg
  BY <1>1, DecodedFields
<1> HIDE DEF w, p, a, i, x, y
<1>7. UNCHANGED is_stop
  BY DEF decodeInstr
<1>8. SafeProgram(prog)' /\ NoLoadStall' /\ HaltInv'
  BY <1>0, <1>1, <1>7 DEF SafeProgram, NoLoadStall, Valid, HaltInv
<1>9. JumpInv'
  BY <1>0, <1>1, <1>5 DEF JumpInv, Jumped, Late, Live, x
<1>10. StagesInv'
  <2>1. Obj(de_st.store)'.op = fd_st.load.instr /\ Obj(de_st.store)'.pc = fd_st.load.pc
    BY <1>1, <1>4 DEF Obj, i, w, a
  <2>2. IsSystem(em_st.store)' <=> IsSystem(em_st.store)
    BY <1>1, <1>5 DEF IsSystem, OpOf, Live, Obj, x
  <2> QED
    BY <1>0, <1>1, <2>1, <2>2 DEF StagesInv, Early, Late, Valid, Live, stopped
<1>11. ChainInv'
  BY <1>0, <1>1, <1>5
     DEF ChainInv, Early, Late, Live, Valid, FetchedAt, FetchPc, x
<1>12. RetiringInv'
  BY <1>1 DEF RetiringInv
<1>13. AtWriteBack = mw_st.store /\ AtWriteBack' = mw_st.store
  BY <1>1 DEF AtWriteBack
<1>14. ArchRegs' = ArchRegs
  <2>1. Valid(mw_st.store) => Retiring' = Retiring
    BY <1>1, <1>5, <1>13 DEF Retiring, Obj, Valid, Live, y
  <2> QED
    BY <1>1, <1>13, <2>1 DEF ArchRegs
<1>15. AtMemory = em_st.store /\ AtMemory' = em_st.store
  BY <1>1 DEF AtMemory
<1>16. RegsBehind' = RegsBehind
  <2>1. Live(em_st.store) => Obj(AtMemory)' = Obj(AtMemory)
    BY <1>1, <1>5, <1>15 DEF Obj, x
  <2> QED
    BY <1>1, <1>14, <1>15, <2>1 DEF RegsBehind, Live
<1>17. ExecutedInv'
  <2>1. Live(em_st.store) => OfProgram(x) /\ x = Executed(x) /\ OperandsFrom(x, ArchRegs)
    BY <1>0, <1>1, <1>15 DEF ExecutedInv, Late, x
  <2> QED
    BY <1>1, <1>5, <1>14, <1>15, <2>1
       DEF ExecutedInv, OfProgram, OperandsFrom, Obj, Live
<1>18. /\ AtExecute' = de_st'.store /\ Obj(AtExecute)' = i
  BY <1>1 DEF AtExecute, Early, Handover, stopped, Obj, i
<1>19. a \in Address /\ w = prog[a]
  BY <1>0, <1>1 DEF FetchedInv, Valid, Live, a, w
\* The two instructions in front, and where they are in the program.
<1>20. /\ Live(em_st.store) => OfProgram(x) /\ a = Plus(x.pc, 1)
       /\ Live(mw_st.store) => /\ Live(em_st.store) /\ OfProgram(y)
                               /\ x.pc = Plus(y.pc, 1)
  <2>1. Live(em_st.store) => OfProgram(x) /\ a = Plus(x.pc, 1)
    BY <1>0, <1>1, <1>15
       DEF ExecutedInv, ChainInv, Late, FetchedAt, a, x
  <2>2. Live(mw_st.store) => /\ Live(em_st.store) /\ OfProgram(y)
                             /\ x.pc = Plus(y.pc, 1)
    BY <1>0, <1>1 DEF RetiringInv, ChainInv, x, y
  <2> QED
    BY <2>1, <2>2
<1>21. DecodedInv'
  <2> SUFFICES ASSUME Valid(de_st'.store)
               PROVE  OfProgram(i) /\ OperandsFrom(i, RegsBehind)
    BY <1>1, <1>16, <1>18 DEF DecodedInv, OfProgram, OperandsFrom
  <2>1. OfProgram(i)
    BY <1>4, <1>19 DEF OfProgram
  <2>2. ReadsRs1(w) => Operand(w.rs1) = RegsBehind[w.rs1]
    BY <1>1, <1>6, RightOperand DEF Uses, w
  <2>3. ReadsRs2(w) => Operand(w.rs2) = RegsBehind[w.rs2]
    BY <1>1, <1>6, RightOperand DEF Uses, w
  <2>4. KeepsRd(w) => regs[w.rd] = RegsBehind[w.rd]
    <3> SUFFICES ASSUME KeepsRd(w) PROVE regs[w.rd] = RegsBehind[w.rd]
      OBVIOUS
    <3>1. ASSUME w.rd # 0, Live(em_st.store), Writes(x.op), x.op.rd = w.rd
          PROVE  FALSE
      <4>1. a \in {Plus(x.pc, 1), Plus(Plus(x.pc, 1), 1)} \cap Address
        BY <1>19, <1>20, <3>1
      <4>2. KeepsStale(prog, x.pc)
        BY <1>19, <1>20, <3>1, <4>1 DEF KeepsStale, OfProgram
      <4> QED
        BY <1>0, <1>20, <3>1, <4>2 DEF SafeProgram, OfProgram
    <3>2. ASSUME w.rd # 0, Live(mw_st.store), Writes(y.op), y.op.rd = w.rd
          PROVE  FALSE
      <4>1. a \in {Plus(y.pc, 1), Plus(Plus(y.pc, 1), 1)} \cap Address
        BY <1>19, <1>20, <3>2
      <4>2. KeepsStale(prog, y.pc)
        BY <1>19, <1>20, <3>2, <4>1 DEF KeepsStale, OfProgram
      <4> QED
        BY <1>0, <1>20, <3>2, <4>2 DEF SafeProgram, OfProgram
    <3> QED
      BY <1>1, <1>6, <3>1, <3>2, NotWritten DEF x, y
  <2>5. KeepsRd(w) => Writes(w)
    BY DEF KeepsRd
  <2> QED
    BY <1>4, <2>1, <2>2, <2>3, <2>4, <2>5 DEF OperandsFrom
<1>22. SquashedInv'
  <2> SUFFICES ASSUME de_st'.store.hazard_stall, Writes(w), w.rd # 0,
                      Live(mw_st.store), Writes(y.op), y.op.rd = w.rd
               PROVE  FALSE
    <3>1. Writes(w) => i.rd = regs'[w.rd]
      BY <1>1, <1>4
    <3>2. Live(AtWriteBack)' /\ Writes(Retiring.op)' /\ Retiring'.op.rd = w.rd
            => Live(mw_st.store) /\ Writes(y.op) /\ y.op.rd = w.rd
      BY <1>1, <1>5, <1>13 DEF Retiring, Obj, Live, y
    <3> QED
      BY <1>4, <1>18, <3>1, <3>2 DEF SquashedInv
  <2>1. Jumped
    BY <1>0, <1>1 DEF JumpInv
  <2>2. x.op.is_branch
    BY <2>1 DEF Jumped, Jumps, x
  <2>3. RewritesInShadow(prog, y.pc)
    BY <1>19, <1>20, <2>2 DEF RewritesInShadow, OfProgram
  <2> QED
    BY <1>0, <1>20, <2>3 DEF SafeProgram, OfProgram
<1> QED
  BY <1>8, <1>9, <1>10, <1>11, <1>12, <1>17, <1>21, <1>22 DEF FlowInv, ValuesInv

LEMMA FlowFetch ==
  ASSUME AllInv, phase # "aborted", fetchBubble \/ fetchInstr
  PROVE  FlowInv'
<1>0. /\ SafeProgram(prog) /\ NoLoadStall /\ JumpInv /\ StagesInv /\ ChainInv
      /\ ExecutedInv /\ DecodedInv /\ SquashedInv /\ HaltInv /\ TypeOK
  BY FlowParts
<1>1. Valid(wf_st.load)
  BY <1>0 DEF NoLoadStall
<1>2. /\ phase = "fetch" /\ phase' = "update"
      /\ UNCHANGED <<de_st, em_st, mw_st, prog, regs, is_stop, instrs>>
      /\ wf_st'.load = wf_st.load /\ fd_st'.load = fd_st.load
      /\ fd_st'.stop_count = fd_st.stop_count
      /\ wf_st'.store.is_stall = wf_st.store.is_stall
      /\ wf_st'.store.hazard_stall = wf_st.store.hazard_stall
      /\ wf_st'.store.is_jump = wf_st.store.is_jump
      /\ wf_st'.store.pc_jump = wf_st.store.pc_jump
      /\ fd_st'.store.hazard_stall = fd_st.store.hazard_stall
      /\ Live(fd_st'.store)
      /\ ~stopped(fd_st) => /\ fd_st'.store.pc = FetchPc
                            /\ wf_st'.store.pc = Plus(FetchPc, 1)
  BY <1>0, <1>1, FetchFull
<1>3. SafeProgram(prog)' /\ NoLoadStall' /\ HaltInv'
  BY <1>0, <1>2 DEF SafeProgram, NoLoadStall, Valid, HaltInv
<1>4. JumpInv'
  BY <1>0, <1>2 DEF JumpInv, Jumped, Late, Obj, Live
<1>5. StagesInv'
  BY <1>0, <1>2
     DEF StagesInv, Early, Late, Valid, Live, stopped, IsSystem, OpOf, Obj, FetchPc
<1>6. ChainInv'
  BY <1>0, <1>2
     DEF ChainInv, Early, Late, Live, Valid, Obj, FetchedAt, FetchPc
<1>7. /\ AtMemory = em_st.store /\ AtMemory' = em_st.store
      /\ AtExecute = Handover(de_st) /\ AtExecute' = Handover(de_st)
      /\ AtWriteBack = mw_st.store /\ AtWriteBack' = mw_st.store
  BY <1>2 DEF AtMemory, AtExecute, AtWriteBack, Early, Handover, stopped
<1>8. UNCHANGED <<ArchRegs, RegsBehind, Retiring>>
  BY <1>2, <1>7 DEF ArchRegs, RegsBehind, Retiring, Obj, Live, Valid
<1>9. RetiringInv' /\ ExecutedInv' /\ DecodedInv' /\ SquashedInv'
  BY <1>0, <1>2, <1>7, <1>8
     DEF RetiringInv, ExecutedInv, DecodedInv, SquashedInv, Late, Live, Valid, Obj,
         OfProgram, OperandsFrom
<1> QED
  BY <1>3, <1>4, <1>5, <1>6, <1>9 DEF FlowInv, ValuesInv

\* The stops of the three front latches are those of a system instruction, which
\* excludes a jump.
LEMMA StoppedTogether ==
  ASSUME AllInv, phase \in Late
  PROVE  /\ stopped(wf_st) <=> stopped(de_st)
         /\ stopped(fd_st) <=> stopped(de_st)
         /\ stopped(de_st) => ~Jumped
         /\ stopped(de_st) => ~Valid(de_st.load) /\ Live(de_st.load)
                                /\ ~Writes(Obj(de_st.load).op)
<1>0. StopsInv /\ NoLoadStall /\ StagesInv
  BY FlowParts DEF Late
<1>1. /\ stopped(wf_st) <=> stopped(de_st)
      /\ stopped(fd_st) <=> stopped(de_st)
  BY <1>0 DEF StopsInv, NoLoadStall, stopped
<1>2. stopped(de_st) => ~Valid(de_st.load) /\ IsSystem(de_st.load)
  BY <1>0 DEF StopsInv, Valid
<1>3. stopped(de_st) => ~Jumped
  BY <1>0 DEF StagesInv, Jumped, Jumps, IsSystem, OpOf, Obj
<1> QED
  BY <1>1, <1>2, <1>3 DEF IsSystem, OpOf, Obj, Writes

LEMMA FlowClock ==
  ASSUME AllInv, phase # "aborted", endOfClock
  PROVE  FlowInv'
<1>0. /\ SafeProgram(prog) /\ NoLoadStall /\ JumpInv /\ StagesInv /\ ChainInv
      /\ ExecutedInv /\ DecodedInv /\ SquashedInv /\ HaltInv
      /\ TypeOK /\ StopsInv /\ DrainInv /\ HandedInv
  BY FlowParts
<1>1. /\ phase = "update" /\ phase' = IF is_stop THEN "stopped" ELSE "writeBack"
      /\ UNCHANGED <<prog, regs, instrs, is_stop>>
      /\ em_st'.load = em_st.store /\ em_st'.store = EmptyXS
      /\ mw_st'.load = mw_st.store /\ mw_st'.store = EmptyXS
  BY <1>0, ClockFull
<1>2. /\ IF stopped(wf_st)
           THEN wf_st'.load = wf_st.load /\ wf_st'.store = wf_st.store
           ELSE wf_st'.load = wf_st.store /\ wf_st'.store = EmptyWF
      /\ IF stopped(fd_st)
           THEN /\ fd_st'.load = fd_st.load /\ fd_st'.store = fd_st.store
                /\ fd_st'.stop_count = fd_st.stop_count - 1
           ELSE /\ fd_st'.load = fd_st.store /\ fd_st'.store = EmptyFD
                /\ fd_st'.stop_count = 0
      /\ IF stopped(de_st)
           THEN /\ de_st'.load = de_st.load /\ de_st'.store = de_st.store
                /\ de_st'.stop_count = de_st.stop_count - 1
           ELSE /\ de_st'.load = de_st.store /\ de_st'.store = EmptyXS
                /\ de_st'.stop_count = 0
  BY <1>0, ClockFull
<1>3. /\ stopped(wf_st) <=> stopped(de_st)
      /\ stopped(fd_st) <=> stopped(de_st)
      /\ stopped(de_st) => ~Jumped
      /\ stopped(de_st) => ~Valid(de_st.load) /\ Live(de_st.load)
                             /\ ~Writes(Obj(de_st.load).op)
  BY <1>1, StoppedTogether DEF Late
<1>4. SafeProgram(prog)' /\ HaltInv'
  BY <1>0, <1>1 DEF SafeProgram, HaltInv
<1>5. NoLoadStall'
  BY <1>0, <1>1, <1>2, <1>3 DEF NoLoadStall, HandedInv, Valid, EmptyXS, EmptyWF
<1>6. JumpInv'
  <2>1. ~Jumped'
    BY <1>1 DEF Jumped, Late
  <2>2. CASE stopped(de_st)
    BY <1>0, <1>2, <1>3, <2>1, <2>2 DEF JumpInv
  <2>3. CASE ~stopped(de_st)
    BY <1>2, <1>3, <2>1, <2>3 DEF JumpInv, EmptyWF, EmptyFD, EmptyXS
  <2> QED
    BY <2>2, <2>3
<1>7. StagesInv'
  BY <1>1, EmptyNotLive DEF StagesInv, Early, Late
\* What the new clock finds in the latches.
<1>8. ASSUME stopped(de_st)
      PROVE  ChainInv' /\ DecodedInv' /\ SquashedInv'
  <2>1. /\ de_st'.load = de_st.load /\ fd_st'.load = fd_st.load
        /\ wf_st'.load = wf_st.load /\ FetchPc' = FetchPc
        /\ ~Valid(de_st'.load)
    BY <1>2, <1>3, <1>8 DEF FetchPc
  <2>2. Live(em_st.store) =>
          /\ Obj(em_st.store).op.type = "SYSTEM" /\ 3 < de_st.stop_count
          /\ FetchedAt(Plus(Obj(em_st.store).pc, 1))
    <3>1. Live(em_st.store) => IsSystem(em_st.store)
      BY <1>0, <1>1, <1>8 DEF StagesInv, Late
    <3> QED
      BY <1>0, <1>1, <3>1 DEF DrainInv, ChainInv, Late, IsSystem, OpOf, Obj
  <2>3. Live(em_st.store) => stopped(de_st')
    BY <1>0, <1>2, <1>8, <2>2, LatchShape DEF stopped, StageOf
  <2>4. Obj(em_st.load)' = Obj(em_st.store) /\ Live(em_st.load)' = Live(em_st.store)
    BY <1>1 DEF Obj, Live
  <2>5. ChainInv'
    BY <1>0, <1>1, <2>1, <2>2, <2>3, <2>4
       DEF ChainInv, Early, Late, FetchedAt, Valid, Live, Jumps
  <2>6. DecodedInv' /\ SquashedInv'
    <3>1. phase' \in Early \cup Late =>
            AtExecute' = de_st.load /\ Obj(AtExecute)' = Obj(de_st.load)
      BY <1>1, <2>1 DEF AtExecute, Early, Late, Obj
    <3> QED
      BY <1>3, <1>8, <3>1 DEF DecodedInv, SquashedInv
  <2> QED
    BY <2>5, <2>6
<1>9. ASSUME ~stopped(de_st)
      PROVE  ChainInv' /\ DecodedInv' /\ SquashedInv'
  <2>1. /\ de_st'.load = de_st.store /\ fd_st'.load = fd_st.store
        /\ wf_st'.load = wf_st.store /\ Live(fd_st.store)
        /\ fd_st.store.pc = FetchPc /\ wf_st.store.pc = Plus(FetchPc, 1)
        /\ FetchPc' = IF Jumped THEN Obj(em_st.store).branch_addr
                      ELSE Plus(FetchPc, 1)
        /\ Valid(fd_st.store) <=> ~Jumped
        /\ Valid(de_st.store) <=> Valid(fd_st.load) /\ ~Jumped
    <3>1. /\ de_st'.load = de_st.store /\ fd_st'.load = fd_st.store
          /\ wf_st'.load = wf_st.store
      BY <1>2, <1>3, <1>9
    <3>2. /\ Live(fd_st.store)
          /\ fd_st.store.pc = FetchPc /\ wf_st.store.pc = Plus(FetchPc, 1)
      BY <1>0, <1>1, <1>3, <1>9 DEF StagesInv
    <3>3. FetchPc' = IF Jumped THEN Obj(em_st.store).branch_addr
                     ELSE Plus(FetchPc, 1)
      BY <1>0, <3>1, <3>2 DEF JumpInv, FetchPc
    <3>4. Live(de_st.store) <=> Valid(fd_st.load)
      BY <1>0, <1>1, <1>9 DEF StagesInv
    <3>5. /\ fd_st.store.hazard_stall <=> Jumped
          /\ de_st.store.hazard_stall <=> Jumped
      BY <1>0 DEF JumpInv
    <3> QED
      BY <3>1, <3>2, <3>3, <3>4, <3>5 DEF Valid, Live
  <2>2. /\ Valid(fd_st.load) => FetchPc = Plus(fd_st.load.pc, 1)
        /\ Valid(de_st.store) => Obj(de_st.store).pc = fd_st.load.pc
    BY <1>0, <1>1, <1>9, <2>1 DEF ChainInv, StagesInv, Late
  <2>3. Live(em_st.store) =>
          /\ Obj(em_st.store).op.type # "SYSTEM"
          /\ FetchedAt(Plus(Obj(em_st.store).pc, 1))
          /\ Jumped <=> Jumps(Obj(em_st.store))
    BY <1>0, <1>1, <1>9
       DEF StagesInv, ChainInv, Late, IsSystem, OpOf, Obj, Jumped
  <2>4. /\ Obj(em_st.load)' = Obj(em_st.store) /\ Obj(de_st.load)' = Obj(de_st.store)
        /\ Valid(em_st.load)' = Valid(em_st.store)
        /\ Valid(de_st.load)' = Valid(de_st.store)
        /\ Valid(fd_st.load)' = Valid(fd_st.store)
        /\ fd_st'.load.pc = fd_st.store.pc
    BY <1>1, <2>1 DEF Obj, Valid
  <2>5. Valid(em_st.store) => Live(em_st.store)
    BY DEF Valid, Live
  <2>6. ChainInv'
    BY <1>1, <2>1, <2>2, <2>3, <2>4, <2>5
       DEF ChainInv, Early, Late, FetchedAt, Jumps
  <2>7. CASE phase' = "writeBack"
    <3>1. /\ AtMemory = em_st.store /\ AtMemory' = em_st.store
          /\ AtExecute = de_st.store /\ AtExecute' = de_st.store
          /\ AtWriteBack = mw_st.store /\ AtWriteBack' = mw_st.store
      BY <1>1, <1>9, <2>1, <2>7
         DEF AtMemory, AtExecute, AtWriteBack, Early, Handover
    <3>2. UNCHANGED <<ArchRegs, RegsBehind, Retiring>>
      BY <1>1, <3>1 DEF ArchRegs, RegsBehind, Retiring, Obj, Live, Valid
    <3>3. DecodedInv' /\ SquashedInv'
      BY <1>0, <1>1, <3>1, <3>2
         DEF DecodedInv, SquashedInv, Late, Live, Valid, Obj, OfProgram,
             OperandsFrom
    <3> QED
      BY <2>6, <3>3
  <2>8. CASE phase' = "stopped"
    BY <2>6, <2>8 DEF DecodedInv, SquashedInv, Early, Late
  <2> QED
    BY <1>1, <2>7, <2>8
<1>10. RetiringInv'
  BY <1>1 DEF RetiringInv
<1>11. ExecutedInv'
  <2>1. CASE phase' = "writeBack"
    <3>1. /\ AtMemory = em_st.store /\ AtMemory' = em_st.store
          /\ AtWriteBack = mw_st.store /\ AtWriteBack' = mw_st.store
      BY <1>1, <2>1 DEF AtMemory, AtWriteBack
    <3>2. UNCHANGED <<ArchRegs, Retiring>>
      BY <1>1, <3>1 DEF ArchRegs, Retiring, Valid
    <3> QED
      BY <1>0, <1>1, <3>1, <3>2
         DEF ExecutedInv, Late, Live, Obj, OfProgram, OperandsFrom
  <2>2. CASE phase' = "stopped"
    BY <2>2 DEF ExecutedInv, Early, Late
  <2> QED
    BY <1>1, <2>1, <2>2
<1> QED
  BY <1>4, <1>5, <1>6, <1>7, <1>8, <1>9, <1>10, <1>11 DEF FlowInv, ValuesInv

LEMMA FlowInit == Init /\ SafeProgram(prog) => FlowInv
<1> SUFFICES ASSUME Init, SafeProgram(prog) PROVE FlowInv
  OBVIOUS
<1>1. /\ phase = "writeBack" /\ ~is_stop
      /\ de_st = EmptyStage /\ em_st = EmptyStage /\ mw_st = EmptyStage
      /\ fd_st = [store |-> EmptyFD, load |-> EmptyFD, stop_count |-> 0]
      /\ wf_st = [store |-> EmptyWF, load |-> [EmptyWF EXCEPT !.pc = Entry],
                  stop_count |-> 0]
  BY DEF Init
<1>2. /\ ~Live(em_st.load) /\ ~Live(em_st.store) /\ ~Live(de_st.load)
      /\ ~Valid(em_st.load) /\ ~Valid(de_st.load) /\ ~Valid(fd_st.load)
  BY <1>1 DEF EmptyStage, EmptyXS, EmptyFD, Live, Valid
<1>3. NoLoadStall
  BY <1>1 DEF NoLoadStall, EmptyStage, EmptyXS, EmptyWF, Valid
<1>4. JumpInv
  BY <1>1 DEF JumpInv, Jumped, Late, EmptyStage, EmptyXS, EmptyWF, EmptyFD
<1>5. StagesInv /\ ChainInv /\ HaltInv
  BY <1>1, <1>2 DEF StagesInv, ChainInv, HaltInv, Early, Late
<1>6. AtMemory = em_st.load /\ AtExecute = de_st.load
  BY <1>1 DEF AtMemory, AtExecute, Early
<1>7. ValuesInv
  BY <1>1, <1>2, <1>6
     DEF ValuesInv, RetiringInv, ExecutedInv, DecodedInv, SquashedInv
<1> QED
  BY <1>3, <1>4, <1>5, <1>7 DEF FlowInv

\* The steps of a clock, and the exceptions that end the program.
LEMMA ClockSteps ==
  ASSUME [Next]_vars
  PROVE  \/ UNCHANGED vars
         \/ writeBack
         \/ memoryBubble
         \/ memoryStore \/ memoryLoad \/ memoryOther
         \/ executeBubble
         \/ executePlain \/ executeJump \/ executeSystem
         \/ decodeBubble
         \/ decodeInstr
         \/ fetchBubble \/ fetchInstr
         \/ endOfClock
         \/ \E from \in {"memoryAccess", "decode", "fetch", "update"} : Throw(from)
BY DEF Next, finished, memoryAccess, memoryThrow, execute, decode, decodeThrow,
       fetch, fetchThrow, updateLatches, updateThrow

\* A state after which nothing happens keeps the invariant.
LEMMA FlowStutter ==
  ASSUME AllInv, UNCHANGED vars
  PROVE  FlowInv'
<1>0. CASE phase = "aborted"
  BY <1>0 DEF vars, AllInv, FlowInv, SafeProgram
<1>1. CASE phase # "aborted"
  <2>0. /\ SafeProgram(prog) /\ NoLoadStall /\ JumpInv /\ StagesInv /\ ChainInv
        /\ RetiringInv /\ ExecutedInv /\ DecodedInv /\ SquashedInv /\ HaltInv
    BY <1>1, FlowParts
  <2>1. UNCHANGED <<phase, prog, regs, instrs, is_stop,
                    wf_st, fd_st, de_st, em_st, mw_st>>
    BY DEF vars
  <2>2. SafeProgram(prog)' /\ NoLoadStall' /\ JumpInv' /\ HaltInv'
    BY <2>0, <2>1
       DEF SafeProgram, NoLoadStall, JumpInv, Jumped, HaltInv, Obj, Live, Valid
  <2>3. StagesInv' /\ ChainInv'
    BY <2>0, <2>1
       DEF StagesInv, ChainInv, Obj, Live, Valid, FetchPc, FetchedAt, stopped,
           IsSystem, OpOf
  <2>4. UNCHANGED <<AtMemory, AtExecute, AtWriteBack, Retiring>>
    BY <2>1 DEF AtMemory, AtExecute, AtWriteBack, Retiring, Handover, stopped
  <2>5. UNCHANGED <<ArchRegs, RegsBehind>>
    BY <2>1, <2>4 DEF ArchRegs, RegsBehind, Obj, Live, Valid
  <2>6. RetiringInv' /\ ExecutedInv' /\ DecodedInv' /\ SquashedInv'
    BY <2>0, <2>1, <2>4, <2>5
       DEF RetiringInv, ExecutedInv, DecodedInv, SquashedInv, Obj, Live, Valid,
           OfProgram, OperandsFrom
  <2> QED
    BY <2>2, <2>3, <2>6 DEF FlowInv, ValuesInv
<1> QED
  BY <1>0, <1>1

LEMMA FlowStep == AllInv /\ [Next]_vars => FlowInv'
<1> SUFFICES ASSUME AllInv, [Next]_vars PROVE FlowInv'
  OBVIOUS
<1>1. CASE UNCHANGED vars
  BY <1>1, FlowStutter
<1>2. CASE \E from \in {"memoryAccess", "decode", "fetch", "update"} : Throw(from)
  BY <1>2 DEF AllInv, FlowInv, Throw, GoTo
<1>3. CASE ~UNCHANGED vars /\ phase = "aborted"
  BY <1>3
     DEF Next, vars, finished, writeBack, writeBackBubble, retire, memoryAccess,
       memoryBubble, memoryStore, memoryLoad, memoryOther, memoryThrow,
       PassToWriteBack, execute, executeBubble, executePlain, executeJump,
       executeSystem, RunExecutor, decode, decodeBubble, decodeInstr,
       decodeThrow, fetch, fetchBubble, fetchInstr, fetchThrow, updateLatches,
       endOfClock, updateThrow, Throw, GoTo
<1>4. CASE phase # "aborted"
  BY <1>1, <1>2, <1>4, ClockSteps, FlowWriteBack, FlowMemoryBubble, FlowPass,
     FlowExecuteBubble, FlowRun, FlowDecodeBubble, FlowDecode, FlowFetch, FlowClock
<1> QED
  BY <1>1, <1>3, <1>4

LEMMA AllInvInit == Init /\ SafeProgram(prog) => AllInv
BY IInvInit, UsageInit, FlowInit DEF AllInv

LEMMA AllInvStep == AllInv /\ [Next]_vars => AllInv'
BY IInvStep, UsageStep, FlowStep DEF AllInv

-----------------------------------------------------------------------------
(* The refinement.  All steps but those of the memory stage leave the        *)
(* abstract machine as it is.                                                *)

ArchVars == <<prog, ArchPc, ArchRegs, ArchMem, ArchHalted>>

\* The next instruction to take effect is the same one if the latches and the pc
\* of what they hold are.
LEMMA PcKept ==
  ASSUME Pending' <=> Pending,
         ExecutesNext' <=> ExecutesNext,
         Pending => Obj(em_st.load)'.pc = Obj(em_st.load).pc,
         ExecutesNext => Obj(de_st.load)'.pc = Obj(de_st.load).pc,
         fd_st'.load = fd_st.load, wf_st'.load = wf_st.load
  PROVE  ArchPc' = ArchPc
BY DEF ArchPc, Obj, FetchPc, Valid

\* So are the registers and the end of the run, if what retires is.
LEMMA RegsKept ==
  ASSUME UNCHANGED <<regs, is_stop>>,
         AtWriteBack' = AtWriteBack,
         Valid(AtWriteBack) => Obj(AtWriteBack)' = Obj(AtWriteBack)
  PROVE  ArchRegs' = ArchRegs /\ ArchHalted' = ArchHalted
<1>1. /\ Valid(AtWriteBack)' = Valid(AtWriteBack)
      /\ Valid(AtWriteBack) => Retiring' = Retiring
  BY DEF Retiring, Obj, Valid
<1> QED
  BY <1>1 DEF ArchRegs, ArchHalted

LEMMA StillWriteBack ==
  ASSUME AllInv, phase # "aborted", writeBack
  PROVE  UNCHANGED ArchVars
<1>1. /\ UNCHANGED <<wf_st, fd_st, de_st, em_st, mw_st, prog, instrs, mem, store>>
      /\ regs' = ArchRegs /\ is_stop' = ArchHalted
      /\ AtWriteBack' = mw_st.store /\ ~Live(mw_st.store)
  BY WriteBackFull
<1>2. ArchPc' = ArchPc
  BY <1>1, PcKept DEF Pending, ExecutesNext, Doomed, Valid, Obj
<1>3. ArchRegs' = ArchRegs /\ ArchHalted' = ArchHalted
  BY <1>1 DEF ArchRegs, ArchHalted, Valid, Live
<1>4. ArchMem' = ArchMem
  BY <1>1 DEF ArchMem, Written
<1> QED
  BY <1>1, <1>2, <1>3, <1>4 DEF ArchVars

LEMMA StillMemoryBubble ==
  ASSUME AllInv, phase # "aborted", memoryBubble
  PROVE  UNCHANGED ArchVars
<1>0. TypeOK /\ FreshInv /\ StagesInv
  BY FlowParts
<1>1. /\ phase = "memoryAccess" /\ phase' = "execute"
      /\ ~Valid(em_st.load) /\ ~Live(mw_st'.store)
      /\ UNCHANGED <<wf_st, fd_st, de_st, em_st, prog, instrs, mem, store, is_stop>>
  BY <1>0, MemoryBubbleEffect DEF memoryBubble
<1>2. ArchPc' = ArchPc
  BY <1>1, PcKept DEF Pending, ExecutesNext, Valid, Obj
<1>3. ArchRegs' = ArchRegs
  BY FlowMemoryBubble
<1>4. ArchHalted' = ArchHalted
  BY <1>0, <1>1 DEF ArchHalted, AtWriteBack, FreshInv, Valid, Live
<1>5. ArchMem' = ArchMem
  BY <1>1 DEF ArchMem, Written
<1> QED
  BY <1>1, <1>2, <1>3, <1>4, <1>5 DEF ArchVars

LEMMA StillExecuteBubble ==
  ASSUME AllInv, phase # "aborted", executeBubble
  PROVE  UNCHANGED ArchVars
<1>0. TypeOK /\ StagesInv
  BY FlowParts
<1>1. /\ phase = "execute" /\ phase' = "decode"
      /\ ~Valid(de_st.load) /\ ~Live(em_st'.store) /\ em_st'.load = em_st.load
      /\ UNCHANGED <<wf_st, fd_st, de_st, mw_st, prog, instrs, mem, store, is_stop>>
  BY <1>0, ExecuteBubbleEffect DEF executeBubble
<1>2. UNCHANGED regs
  BY FlowExecuteBubble
<1>3. ~ExecutesNext /\ ~ExecutesNext'
  BY <1>0, <1>1 DEF ExecutesNext, StagesInv, Early, Valid, Live
<1>4. ArchPc' = ArchPc
  BY <1>1, <1>3, PcKept DEF Pending, Doomed, Valid, Obj
<1>5. ArchRegs' = ArchRegs /\ ArchHalted' = ArchHalted
  BY <1>1, <1>2, RegsKept DEF AtWriteBack, Obj
<1>6. ArchMem' = ArchMem
  BY <1>1 DEF ArchMem, Written
<1> QED
  BY <1>1, <1>4, <1>5, <1>6 DEF ArchVars

LEMMA StillRun ==
  ASSUME AllInv, phase # "aborted", executePlain \/ executeJump \/ executeSystem
  PROVE  UNCHANGED ArchVars
<1>0. /\ TypeOK /\ PointersInv /\ HandedInv /\ DistinctInv
      /\ instrs \in [Pointer -> InstructionObject]
  BY FlowParts DEF TypeOK, HazardUnitTypeOK
<1> DEFINE d == de_st.load.instr
           i == Executed(instrs[d])
<1>1. /\ phase = "execute" /\ phase' = "decode"
      /\ Valid(de_st.load) /\ d \in Pointer
      /\ UNCHANGED <<mw_st, prog, regs, mem, store, is_stop>>
      /\ instrs' = [instrs EXCEPT ![d] = i] /\ instrs'[d] = i
      /\ i.pc = instrs[d].pc
      /\ em_st'.load = em_st.load
      /\ Live(em_st'.store) /\ em_st'.store.instr = d
      /\ wf_st'.load = wf_st.load /\ fd_st'.load = fd_st.load
      /\ Live(de_st'.load) /\ de_st'.load.instr = d
  BY <1>0, ExecuteFull
<1> HIDE DEF i
<1>2. Live(em_st.load) => /\ em_st.load.instr \in Pointer \ {d}
                          /\ Obj(em_st.load)' = Obj(em_st.load)
  <2> SUFFICES ASSUME Live(em_st.load)
               PROVE  /\ em_st.load.instr \in Pointer \ {d}
                      /\ Obj(em_st.load)' = Obj(em_st.load)
    OBVIOUS
  <2>1. em_st.load.instr \in Pointer \ {d}
    BY <1>0, <1>1 DEF DistinctInv, PointersInv, Points, Valid, Live
  <2> QED
    BY <1>0, <1>1, <2>1 DEF Obj
<1>3. ArchPc' = ArchPc
  <2>1. Pending' <=> Pending
    BY <1>1 DEF Pending, Doomed, Valid
  <2>2. Pending => Obj(em_st.load)'.pc = Obj(em_st.load).pc
    BY <1>2 DEF Pending, Valid, Live
  <2>3. ExecutesNext /\ ExecutesNext'
    BY <1>1 DEF ExecutesNext, Valid, Live
  <2>4. Obj(de_st.load)'.pc = Obj(de_st.load).pc
    BY <1>1 DEF Obj
  <2> QED
    BY <1>1, <2>1, <2>2, <2>3, <2>4, PcKept
<1>4. ArchRegs' = ArchRegs /\ ArchHalted' = ArchHalted
  <2>1. AtWriteBack = mw_st.store /\ AtWriteBack' = mw_st.store
    BY <1>1 DEF AtWriteBack
  <2>2. Valid(AtWriteBack) => Live(em_st.load) /\ mw_st.store.instr = em_st.load.instr
    BY <1>0, <1>1, <2>1 DEF HandedInv, Middle, Valid, Live
  <2>3. Valid(AtWriteBack) => Obj(AtWriteBack)' = Obj(AtWriteBack)
    BY <1>1, <1>2, <2>1, <2>2 DEF Obj
  <2> QED
    BY <1>1, <2>1, <2>3, RegsKept
<1>5. ArchMem' = ArchMem
  BY <1>1 DEF ArchMem, Written
<1> QED
  BY <1>1, <1>3, <1>4, <1>5 DEF ArchVars

LEMMA StillDecode ==
  ASSUME AllInv, phase # "aborted", decodeBubble \/ decodeInstr
  PROVE  UNCHANGED ArchVars
<1>0. /\ TypeOK /\ PointersInv /\ HandedInv /\ StagesInv
      /\ instrs \in [Pointer -> InstructionObject]
  BY FlowParts DEF TypeOK, HazardUnitTypeOK
<1>1. /\ phase = "decode" /\ phase' = "fetch"
      /\ UNCHANGED <<wf_st, fd_st, em_st, mw_st, prog, regs>>
      /\ de_st'.load = de_st.load
  BY <1>0, DecodeBubbleEffect, DecodeSafe
<1>2. UNCHANGED <<mem, store, is_stop>>
  BY DEF decodeBubble, decodeInstr
<1>3. /\ Live(em_st.store) => Obj(em_st.store)' = Obj(em_st.store)
      /\ Live(mw_st.store) => Obj(mw_st.store)' = Obj(mw_st.store)
  <2>1. CASE decodeBubble
    BY <1>1, <2>1 DEF decodeBubble, Obj
  <2>2. CASE decodeInstr
    <3> DEFINE p == get_next(fd_st.load.instr.type)
    <3>1. /\ p \in Pointer
          /\ instrs' = [instrs EXCEPT ![p] = Decoded(p, fd_st.load.instr, fd_st.load.pc)]
          /\ Live(em_st.store) => em_st.store.instr # p
          /\ Live(mw_st.store) => mw_st.store.instr # p
      BY <2>2, DecodeSafe
    <3> HIDE DEF p
    <3> QED
      BY <1>0, <1>1, <3>1 DEF Obj, PointersInv, Points
  <2> QED
    BY <2>1, <2>2
<1>4. ArchPc' = ArchPc
  <2>1. (Pending' <=> Pending) /\ (ExecutesNext' <=> ExecutesNext)
    BY <1>1, <1>2 DEF Pending, ExecutesNext, Doomed, Valid
  <2>2. Pending => Obj(em_st.load)'.pc = Obj(em_st.load).pc
    BY <1>0, <1>1, <1>3 DEF Pending, HandedInv, Middle, Obj
  <2>3. ExecutesNext => Obj(de_st.load)'.pc = Obj(de_st.load).pc
    <3>1. ExecutesNext => Live(em_st.store) /\ em_st.store.instr = de_st.load.instr
      BY <1>0, <1>1 DEF ExecutesNext, StagesInv, Late, Valid, Live
    <3> QED
      BY <1>1, <1>3, <3>1 DEF Obj
  <2> QED
    BY <1>1, <2>1, <2>2, <2>3, PcKept
<1>5. ArchRegs' = ArchRegs /\ ArchHalted' = ArchHalted
  BY <1>1, <1>2, <1>3, RegsKept DEF AtWriteBack, Obj, Valid, Live
<1>6. ArchMem' = ArchMem
  BY <1>2 DEF ArchMem, Written
<1> QED
  BY <1>1, <1>4, <1>5, <1>6 DEF ArchVars

LEMMA StillFetch ==
  ASSUME AllInv, phase # "aborted", fetchBubble \/ fetchInstr
  PROVE  UNCHANGED ArchVars
<1>0. TypeOK /\ NoLoadStall
  BY FlowParts
<1>1. /\ phase = "fetch" /\ phase' = "update"
      /\ UNCHANGED <<de_st, em_st, mw_st, prog, regs, mem, store, is_stop, instrs>>
      /\ wf_st'.load = wf_st.load /\ fd_st'.load = fd_st.load
  BY <1>0, FetchFull DEF NoLoadStall
<1>2. ArchPc' = ArchPc
  BY <1>1, PcKept DEF Pending, ExecutesNext, Doomed, Valid, Obj
<1>3. ArchRegs' = ArchRegs /\ ArchHalted' = ArchHalted
  BY <1>1, RegsKept DEF AtWriteBack, Obj
<1>4. ArchMem' = ArchMem
  BY <1>1 DEF ArchMem, Written
<1> QED
  BY <1>1, <1>2, <1>3, <1>4 DEF ArchVars

LEMMA StillThrow ==
  ASSUME NEW from \in {"memoryAccess", "decode", "fetch", "update"}, Throw(from)
  PROVE  UNCHANGED ArchVars
<1>1. /\ phase = from /\ phase' = "aborted"
      /\ UNCHANGED <<wf_st, fd_st, de_st, em_st, mw_st, prog, instrs, mem, store,
                     regs, is_stop>>
  BY DEF Throw, GoTo, latches
<1>2. ArchPc' = ArchPc
  BY <1>1, PcKept DEF Pending, ExecutesNext, Doomed, Valid, Obj
<1>3. ArchRegs' = ArchRegs /\ ArchHalted' = ArchHalted
  BY <1>1, RegsKept DEF AtWriteBack, Obj
<1>4. ArchMem' = ArchMem
  BY <1>1 DEF ArchMem, Written
<1> QED
  BY <1>1, <1>2, <1>3, <1>4 DEF ArchVars

LEMMA StillStutter ==
  ASSUME UNCHANGED vars
  PROVE  UNCHANGED ArchVars
<1>1. UNCHANGED <<wf_st, fd_st, de_st, em_st, mw_st, prog, instrs, mem, store,
                  regs, is_stop, phase>>
  BY DEF vars
<1>2. ArchPc' = ArchPc
  BY <1>1, PcKept DEF Pending, ExecutesNext, Doomed, Valid, Obj
<1>3. ArchRegs' = ArchRegs /\ ArchHalted' = ArchHalted
  BY <1>1, RegsKept DEF AtWriteBack, Obj
<1>4. ArchMem' = ArchMem
  BY <1>1 DEF ArchMem, Written
<1> QED
  BY <1>1, <1>2, <1>3, <1>4 DEF ArchVars

\* At the end of the clock the next instruction is found one latch further.
LEMMA StillClock ==
  ASSUME AllInv, phase # "aborted", endOfClock
  PROVE  UNCHANGED ArchVars
<1>0. /\ TypeOK /\ StopsInv /\ HandedInv /\ StagesInv /\ JumpInv
  BY FlowParts
<1>1. /\ phase = "update" /\ phase' = IF is_stop THEN "stopped" ELSE "writeBack"
      /\ UNCHANGED <<prog, regs, instrs, is_stop>>
      /\ em_st'.load = em_st.store /\ em_st'.store = EmptyXS
      /\ mw_st'.load = mw_st.store /\ mw_st'.store = EmptyXS
      /\ IF stopped(wf_st) THEN wf_st'.load = wf_st.load
                           ELSE wf_st'.load = wf_st.store
      /\ IF stopped(fd_st) THEN fd_st'.load = fd_st.load
                           ELSE fd_st'.load = fd_st.store
      /\ IF stopped(de_st) THEN de_st'.load = de_st.load
                           ELSE de_st'.load = de_st.store
  BY <1>0, ClockFull
<1>2. /\ store.size > 0 => InBounds(store.addr)
      /\ mem' = IF store.size > 0 THEN Written(store.addr, store.data) ELSE mem
      /\ store' = NoStore
  BY DEF endOfClock
<1>3. /\ stopped(wf_st) <=> stopped(de_st)
      /\ stopped(fd_st) <=> stopped(de_st)
      /\ stopped(de_st) => ~Valid(de_st.load)
  BY <1>1, StoppedTogether DEF Late
<1>4. ArchMem' = ArchMem
  BY <1>2 DEF ArchMem, NoStore
<1>5. ArchRegs' = ArchRegs /\ ArchHalted' = ArchHalted
  <2>1. AtWriteBack = mw_st.store /\ AtWriteBack' = mw_st.store
    BY <1>1 DEF AtWriteBack
  <2> QED
    BY <1>1, <2>1, RegsKept DEF Obj
<1>6. ~Pending
  BY <1>0, <1>1, <1>2 DEF Pending, Doomed, HandedInv, Middle, Live
<1>7. ExecutesNext <=> Live(em_st.store)
  BY <1>0, <1>1 DEF ExecutesNext, StagesInv, Late, Valid, Live
<1>8. Pending' <=> Live(em_st.store)
  <2>1. ~em_st.store.hazard_stall
    BY FlowParts DEF NoLoadStall
  <2> QED
    BY <1>1, <2>1 DEF Pending, Valid, Live, EmptyXS
<1>9. CASE Live(em_st.store)
  <2>1. ArchPc' = Obj(em_st.store).pc
    BY <1>1, <1>8, <1>9 DEF ArchPc, Obj
  <2>2. ArchPc = Obj(de_st.load).pc
    BY <1>6, <1>7, <1>9 DEF ArchPc, Obj
  <2>3. em_st.store.instr = de_st.load.instr
    BY <1>0, <1>1, <1>9 DEF StagesInv, Late
  <2> QED
    BY <1>1, <1>4, <1>5, <2>1, <2>2, <2>3 DEF ArchVars, Obj
<1>10. CASE ~Live(em_st.store)
  <2>1. ArchPc = IF Valid(fd_st.load) THEN fd_st.load.pc ELSE FetchPc
    BY <1>6, <1>7, <1>10 DEF ArchPc
  <2>2. ExecutesNext' <=> Valid(de_st'.load)
    BY <1>1 DEF ExecutesNext, EmptyXS, Valid
  <2>3. ArchPc' = IF Valid(de_st'.load) THEN Obj(de_st.load)'.pc
                  ELSE IF Valid(fd_st'.load) THEN fd_st'.load.pc ELSE FetchPc'
    BY <1>8, <1>10, <2>2 DEF ArchPc, Obj
  <2>4. CASE stopped(de_st)
    BY <1>1, <1>3, <1>4, <1>5, <2>1, <2>3, <2>4 DEF ArchVars, FetchPc
  <2>5. CASE ~stopped(de_st)
    <3>1. ~de_st.store.hazard_stall /\ ~fd_st.store.hazard_stall
      BY <1>0, <1>10 DEF JumpInv, Jumped
    <3>2. /\ Live(de_st.store) <=> Valid(fd_st.load)
          /\ Live(de_st.store) => Obj(de_st.store).pc = fd_st.load.pc
          /\ Live(fd_st.store) /\ fd_st.store.pc = FetchPc
      BY <1>0, <1>1, <1>3, <2>5 DEF StagesInv
    <3>3. /\ Valid(de_st'.load) <=> Valid(fd_st.load)
          /\ Valid(fd_st'.load) /\ fd_st'.load.pc = FetchPc
          /\ Obj(de_st.load)' = Obj(de_st.store)
      BY <1>1, <1>3, <2>5, <3>1, <3>2 DEF Valid, Live, Obj
    <3> QED
      BY <1>1, <1>4, <1>5, <2>1, <2>3, <3>2, <3>3 DEF ArchVars
  <2> QED
    BY <2>4, <2>5
<1> QED
  BY <1>9, <1>10

-----------------------------------------------------------------------------
(* The step of the memory stage.                                             *)

LEMMA ArchOperators ==
  ASSUME NEW i
  PROVE  /\ Arch!Executed(i) = Executed(i)
         /\ Arch!Jumps(i) <=> Jumps(i)
BY DEF Arch!Executed, Executed, Arch!Jumps, Jumps, Arch!IsLink, IsLink,
       Arch!IsArithmetic, IsArithmetic, Arch!Plus, Plus

LEMMA ArchFields ==
  ASSUME NEW w
  PROVE  /\ Arch!Writes(w) <=> Writes(w)
         /\ Arch!ReadsRs1(w) <=> ReadsRs1(w)
         /\ Arch!ReadsRs2(w) <=> ReadsRs2(w)
         /\ Arch!is_load(w) <=> is_load(w)
         /\ Arch!IsStore(w) <=> IsStore(w)
BY DEF Arch!Writes, Writes, Arch!ReadsRs1, ReadsRs1, Arch!ReadsRs2, ReadsRs2,
       Arch!is_load, is_load, Arch!IsStore, IsStore

\* Two objects of the same instruction with the same operands have, once
\* executed, the same results, whatever else is left in them.
LEMMA SameResults ==
  ASSUME NEW x \in InstructionObject, NEW c \in InstructionObject,
         NEW g \in [Reg -> Word],
         c.op = x.op, c.pc = x.pc, ~UndefinedJump(x.op),
         OperandsFrom(x, g), OperandsFrom(c, g),
         NEW e, e = Executed(x), NEW f, f = Executed(c)
  PROVE  /\ f.op = x.op /\ f.pc = x.pc
         /\ ReadsRs1(x.op) => f.rs1 = e.rs1
         /\ ReadsRs2(x.op) => f.rs2 = e.rs2
         /\ Writes(x.op) /\ ~is_load(x.op) => f.rd = e.rd
         /\ x.op.mem_acc_type # "NONE" => f.addr = e.addr
         /\ Jumps(f) <=> Jumps(e)
         /\ Jumps(e) => f.branch_addr = e.branch_addr
<1>0. /\ x.op \in Instructions
      /\ x.rs1 \in Word /\ x.rs2 \in Word /\ x.pc \in Word
      /\ c.rs1 \in Word /\ c.rs2 \in Word
  BY DEF InstructionObject
<1>1. /\ ReadsRs1(x.op) => c.rs1 = x.rs1
      /\ ReadsRs2(x.op) => c.rs2 = x.rs2
      /\ KeepsRd(x.op) => c.rd = x.rd
  BY DEF OperandsFrom
<1>2. /\ f.op = x.op /\ f.pc = x.pc /\ f.rs1 = c.rs1 /\ f.rs2 = c.rs2
      /\ e.op = x.op /\ e.rs1 = x.rs1 /\ e.rs2 = x.rs2
  BY ExecutedFields
<1>3. /\ ReadsRs1(x.op) => f.rs1 = e.rs1
      /\ ReadsRs2(x.op) => f.rs2 = e.rs2
  BY <1>1, <1>2
<1>4. x.op.mem_acc_type # "NONE" => f.addr = e.addr
  <2>1. x.op.mem_acc_type # "NONE" => ReadsRs1(x.op)
    <3>1. x.op.mem_acc_type \in AccessType
      BY <1>0, InstructionsAssumption DEF DecodedWord
    <3> QED
      BY <1>0, <3>1, RecognizedAssumption DEF ReadsRs1, AccessType
  <2> QED
    BY <1>1, <2>1, ExecutedFields
<1>5. IsArithmetic(x.op) =>
        Alu(x.op, c.rs1, c.rs2, x.pc) = Alu(x.op, x.rs1, x.rs2, x.pc)
  <2>1. CASE x.op.type = "R"
    BY <1>1, <2>1 DEF ReadsRs1, ReadsRs2
  <2>2. CASE x.op.type = "I"
    <3>1. /\ Alu(x.op, c.rs1, c.rs2, x.pc) = Alu(x.op, c.rs1, 0, x.pc)
          /\ Alu(x.op, x.rs1, x.rs2, x.pc) = Alu(x.op, x.rs1, 0, x.pc)
      BY <1>0, <2>2, OperandsAssumption
    <3> QED
      BY <1>1, <2>2, <3>1 DEF ReadsRs1
  <2>3. CASE x.op.type = "U"
    <3>1. /\ Alu(x.op, c.rs1, c.rs2, x.pc) = Alu(x.op, c.rs1, 0, x.pc)
          /\ Alu(x.op, x.rs1, x.rs2, x.pc) = Alu(x.op, x.rs1, 0, x.pc)
          /\ Alu(x.op, c.rs1, 0, x.pc) = Alu(x.op, 0, 0, x.pc)
          /\ Alu(x.op, x.rs1, 0, x.pc) = Alu(x.op, 0, 0, x.pc)
      BY <1>0, <2>3, OperandsAssumption, WordFacts
    <3> QED
      BY <3>1
  <2> QED
    BY <2>1, <2>2, <2>3 DEF IsArithmetic
<1>6. Writes(x.op) /\ ~is_load(x.op) => f.rd = e.rd
  <2>1. CASE IsLink(x.op)
    BY <2>1, ExecutedFields
  <2>2. CASE ~IsLink(x.op) /\ IsArithmetic(x.op)
    BY <1>5, <2>2, ExecutedFields
  <2>3. CASE ~IsLink(x.op) /\ ~IsArithmetic(x.op)
    BY <1>1, <2>3, ExecutedFields DEF KeepsRd
  <2> QED
    BY <2>1, <2>2, <2>3
<1>7. x.op.type = "B" => x.op.is_branch /\ x.op.name # "NONE"
  BY <1>0, RecognizedAssumption DEF UndefinedJump
<1>8. x.op.type = "B" => f.br_is_taken = e.br_is_taken
  BY <1>1, <1>7, ExecutedFields DEF ReadsRs1, ReadsRs2
<1>9. Jumps(f) <=> Jumps(e)
  BY <1>2, <1>8 DEF Jumps
<1>10. Jumps(e) => f.branch_addr = e.branch_addr
  <2> SUFFICES ASSUME x.op.is_branch PROVE f.branch_addr = e.branch_addr
    BY <1>2 DEF Jumps
  <2>1. CASE x.op.name = "JALR"
    BY <1>0, <1>1, <2>1, RecognizedAssumption, ExecutedFields DEF ReadsRs1
  <2>2. CASE x.op.name # "JALR"
    BY <2>2, ExecutedFields DEF UndefinedJump
  <2> QED
    BY <2>1, <2>2
<1> QED
  BY <1>2, <1>3, <1>4, <1>6, <1>9, <1>10

\* When the memory stage is next, the abstract machine is at its instruction, which
\* will have there the results it has here.
LEMMA CurrentAgrees ==
  ASSUME AllInv, phase = "memoryAccess", Valid(em_st.load),
         NEW x, x = Obj(em_st.load),
         NEW f, f = Arch!Current
  PROVE  /\ ArchPc = x.pc /\ ArchRegs = regs /\ ArchMem = mem /\ ~ArchHalted
         /\ OfProgram(x)
         /\ f \in InstructionObject /\ f.op = x.op /\ f.pc = x.pc
         /\ ReadsRs1(x.op) => f.rs1 = x.rs1
         /\ ReadsRs2(x.op) => f.rs2 = x.rs2
         /\ Writes(x.op) /\ ~is_load(x.op) => f.rd = x.rd
         /\ x.op.mem_acc_type # "NONE" => f.addr = x.addr
         /\ Jumps(f) <=> Jumps(x)
         /\ Jumps(x) => f.branch_addr = x.branch_addr
<1>0. /\ SafeProgram(prog) /\ FreshInv /\ ExecutedInv /\ HaltInv
      /\ TypeOK /\ PointersInv /\ regs \in [Reg -> Word]
  BY FlowParts DEF TypeOK, HazardUnitTypeOK, RegFileTypeOK
<1>1. mw_st.store.is_stall /\ ~Live(mw_st.store) /\ store = NoStore
      /\ Live(em_st.load)
  BY <1>0 DEF FreshInv, Live, Valid
<1>2. AtWriteBack = mw_st.store /\ AtMemory = em_st.load
  BY DEF AtWriteBack, AtMemory
<1>3. ArchPc = x.pc
  BY <1>1 DEF ArchPc, Pending, Obj
<1>4. ArchRegs = regs /\ ArchMem = mem
  BY <1>1, <1>2 DEF ArchRegs, Valid, Live, ArchMem, NoStore
<1>5. ~ArchHalted
  BY <1>0, <1>1, <1>2 DEF ArchHalted, HaltInv, Valid, Live
<1>6. OfProgram(x) /\ x = Executed(x) /\ OperandsFrom(x, regs)
  BY <1>0, <1>1, <1>2, <1>4 DEF ExecutedInv, Early
<1>7. x \in InstructionObject /\ x.op \in Instructions
  BY <1>0, <1>1, ObjectType DEF PointersInv
<1>8. /\ x.op.rs1 \in Reg /\ x.op.rs2 \in Reg /\ x.op.rd \in Reg /\ x.pc \in Word
  BY <1>7, DecodedFields DEF InstructionObject
<1> DEFINE w == x.op
           c == [NewInstruction EXCEPT
                   !.op = w, !.pc = x.pc,
                   !.rs1 = IF ReadsRs1(w) THEN regs[w.rs1] ELSE 0,
                   !.rs2 = IF ReadsRs2(w) THEN regs[w.rs2] ELSE 0,
                   !.rd  = regs[w.rd]]
<1>9. f = Executed(c)
  <2>1. prog[ArchPc] = w
    BY <1>3, <1>6 DEF OfProgram
  <2>2. Arch!NewInstruction = NewInstruction
    BY DEF Arch!NewInstruction, NewInstruction, Arch!ZeroWord, ZeroWord
  <2>3. f = Arch!Executed(c)
    BY <1>3, <1>4, <2>1, <2>2, ArchFields DEF Arch!Current
  <2> QED
    BY <2>3, ArchOperators
<1>10. /\ c \in InstructionObject /\ c.op = w /\ c.pc = x.pc
       /\ OperandsFrom(c, regs)
  <2>1. /\ c.op = w /\ c.pc = x.pc
        /\ c.rs1 = IF ReadsRs1(w) THEN regs[w.rs1] ELSE 0
        /\ c.rs2 = IF ReadsRs2(w) THEN regs[w.rs2] ELSE 0
        /\ c.rd = regs[w.rd]
    BY DEF NewInstruction
  <2>2. c \in InstructionObject
    <3>1. /\ (IF ReadsRs1(w) THEN regs[w.rs1] ELSE 0) \in Word
          /\ (IF ReadsRs2(w) THEN regs[w.rs2] ELSE 0) \in Word
          /\ regs[w.rd] \in Word
      BY <1>0, <1>8, WordFacts
    <3>2. NewInstruction \in InstructionObject
      BY WordFacts, InstructionsAssumption DEF NewInstruction, InstructionObject
    <3> QED
      BY <1>7, <1>8, <3>1, <3>2 DEF InstructionObject
  <2> HIDE DEF c
  <2> QED
    BY <2>1, <2>2 DEF OperandsFrom
<1>11. ~UndefinedJump(x.op)
  BY <1>0, <1>6 DEF SafeProgram, OfProgram
<1> HIDE DEF c
<1>12. /\ f.op = x.op /\ f.pc = x.pc
       /\ ReadsRs1(x.op) => f.rs1 = x.rs1
       /\ ReadsRs2(x.op) => f.rs2 = x.rs2
       /\ Writes(x.op) /\ ~is_load(x.op) => f.rd = x.rd
       /\ x.op.mem_acc_type # "NONE" => f.addr = x.addr
       /\ Jumps(f) <=> Jumps(x)
       /\ Jumps(x) => f.branch_addr = x.branch_addr
  BY <1>0, <1>6, <1>7, <1>9, <1>10, <1>11, SameResults
<1>13. f \in InstructionObject
  BY <1>9, <1>10, ExecutedFields
<1> QED
  BY <1>3, <1>4, <1>5, <1>6, <1>12, <1>13

\* Behind the instruction that has just taken effect comes the one the abstract
\* machine goes to.
LEMMA NextPc ==
  ASSUME AllInv, memoryStore \/ memoryLoad \/ memoryOther,
         NEW x, x = Obj(em_st.load), ~Doomed'
  PROVE  ArchPc' = IF Jumps(x) THEN x.branch_addr ELSE Plus(x.pc, 1)
<1>0. /\ ChainInv /\ StagesInv /\ DistinctInv /\ TypeOK /\ PointersInv
      /\ instrs \in [Pointer -> InstructionObject]
  BY FlowParts, PassFull DEF TypeOK, HazardUnitTypeOK
<1>1. /\ phase = "memoryAccess" /\ phase' = "execute"
      /\ Valid(em_st.load)
      /\ UNCHANGED <<wf_st, fd_st, de_st, em_st, prog, regs, is_stop>>
      /\ Valid(mw_st'.store)
      /\ \A q \in Pointer \ {em_st.load.instr} : instrs'[q] = instrs[q]
  BY PassFull
<1>2. ~Pending'
  BY <1>1 DEF Pending, Valid
<1>3. ExecutesNext' <=> Valid(de_st.load)
  BY <1>0, <1>1 DEF ExecutesNext, StagesInv, Early, Valid, Live
<1>4. Valid(de_st.load) => Obj(de_st.load)' = Obj(de_st.load)
  BY <1>0, <1>1 DEF DistinctInv, PointersInv, Points, Valid, Live, Obj
<1>5. ArchPc' = IF Valid(de_st.load) THEN Obj(de_st.load).pc
                ELSE IF Valid(fd_st.load) THEN fd_st.load.pc ELSE FetchPc
  BY <1>1, <1>2, <1>3, <1>4 DEF ArchPc, Obj, Valid, FetchPc
<1>6. CASE Jumps(x)
  BY <1>0, <1>1, <1>5, <1>6 DEF ChainInv, Early
<1>7. CASE ~Jumps(x)
  BY <1>0, <1>1, <1>5, <1>7 DEF ChainInv, Early, FetchedAt
<1> QED
  BY <1>6, <1>7

\* The memory stage carries out the instruction the abstract machine is at; a
\* store that is going to fail at the end of the clock it has not carried out.
LEMMA PassRefines ==
  ASSUME AllInv, NoAccessWraps, phase # "aborted",
         memoryStore \/ memoryLoad \/ memoryOther
  PROVE  IF Doomed' THEN UNCHANGED ArchVars ELSE Arch!Step
<1> DEFINE d == em_st.load.instr
           x == Obj(em_st.load)
<1>0. TypeOK /\ PointersInv /\ regs \in [Reg -> Word]
  BY FlowParts DEF TypeOK, HazardUnitTypeOK, RegFileTypeOK
<1>1. /\ phase = "memoryAccess" /\ phase' = "execute"
      /\ Valid(em_st.load) /\ d \in Pointer /\ x \in InstructionObject
      /\ UNCHANGED <<wf_st, fd_st, de_st, em_st, prog, regs, is_stop>>
      /\ ~Live(mw_st.store) /\ store = NoStore
      /\ Valid(mw_st'.store) /\ mw_st'.store.instr = d
      /\ AtWriteBack' = mw_st'.store
      /\ IF is_load(x.op)
           THEN /\ InBounds(x.addr)
                /\ \E v \in ReadFrom(x.addr) : instrs'[d] = [x EXCEPT !.rd = v]
           ELSE instrs' = instrs
  BY PassFull DEF Obj
<1>2. /\ ArchPc = x.pc /\ ArchRegs = regs /\ ArchMem = mem /\ ~ArchHalted
      /\ OfProgram(x)
      /\ Arch!Current.op = x.op
      /\ Writes(x.op) /\ ~is_load(x.op) => Arch!Current.rd = x.rd
      /\ x.op.mem_acc_type # "NONE" => Arch!Current.addr = x.addr
      /\ IsStore(x.op) => Arch!Current.rs2 = x.rs2
      /\ Jumps(Arch!Current) <=> Jumps(x)
      /\ Jumps(x) => Arch!Current.branch_addr = x.branch_addr
  BY <1>1, CurrentAgrees DEF IsStore, ReadsRs2
<1>3. /\ x.op \in Instructions /\ x.op.rd \in Reg /\ x.addr \in Word /\ x.rs2 \in Word
  BY <1>1, DecodedFields DEF InstructionObject
<1>4. /\ x.op.mem_acc_type \in AccessType
      /\ x.op.mem_acc_type = "READ" <=> is_load(x.op)
      /\ x.op.mem_acc_type = "WRITE" <=> IsStore(x.op)
      /\ is_load(x.op) => Writes(x.op) /\ ~IsStore(x.op)
      /\ IsStore(x.op) => ~Writes(x.op)
      /\ x.op.name = "ECALL" => ~IsStore(x.op)
  BY <1>3, InstructionsAssumption, RecognizedAssumption
     DEF DecodedWord, is_load, IsStore, Writes
<1>5. /\ x.op.mem_acc_type # "NONE" /\ InBounds(x.addr) => x.addr \in Address
  BY <1>1 DEF NoAccessWraps, Wraps, Obj
<1>6. /\ instrs'[d].op = x.op
      /\ ~is_load(x.op) => instrs'[d] = x
      /\ is_load(x.op) => instrs'[d].rd = mem[x.addr]
  <2>1. ASSUME is_load(x.op) PROVE instrs'[d].op = x.op /\ instrs'[d].rd = mem[x.addr]
    <3>1. x.addr \in Address
      BY <1>1, <1>4, <1>5, <2>1
    <3>2. ReadFrom(x.addr) = {mem[x.addr]}
      BY <3>1 DEF ReadFrom
    <3> QED
      BY <1>1, <2>1, <3>2 DEF InstructionObject
  <2>2. ASSUME ~is_load(x.op) PROVE instrs'[d] = x
    BY <1>1, <2>2 DEF Obj
  <2> QED
    BY <2>1, <2>2
<1>7. ArchHalted' <=> x.op.name = "ECALL"
  <2>1. ~is_stop
    BY <1>2 DEF ArchHalted
  <2> QED
    BY <1>1, <1>6, <2>1 DEF ArchHalted, Retiring
<1>8. ArchRegs' = IF Writes(x.op) /\ x.op.rd # 0
                    THEN [regs EXCEPT ![x.op.rd] = instrs'[d].rd] ELSE regs
  BY <1>1, <1>6 DEF ArchRegs, Retiring
<1>9. /\ IsStore(x.op) /\ IsSq => /\ store'.size = 1 /\ store'.addr = x.addr
                                  /\ store'.data = x.rs2 /\ mem' = mem
      /\ IsStore(x.op) /\ ~IsSq => /\ InBounds(x.addr) /\ store' = store
                                   /\ mem' = Written(x.addr, x.rs2)
      /\ ~IsStore(x.op) => store' = store /\ mem' = mem
  BY <1>4, LoaderAssumption DEF memoryStore, memoryLoad, memoryOther, Obj
<1>10. CASE Doomed'
  <2>1. IsStore(x.op) /\ IsSq /\ ~InBounds(x.addr)
    BY <1>1, <1>9, <1>10 DEF Doomed, NoStore, InBounds
  <2>2. ArchMem' = ArchMem
    BY <1>2, <1>9, <2>1 DEF ArchMem, Written, InBounds
  <2>3. ArchPc' = ArchPc
    BY <1>1, <1>2, <1>4, <1>6, <1>10, <2>1 DEF ArchPc, Pending, Valid
  <2>4. ArchRegs' = ArchRegs
    BY <1>2, <1>4, <1>8, <2>1
  <2>5. ArchHalted' = ArchHalted
    BY <1>2, <1>4, <1>7, <2>1 DEF ArchHalted
  <2> QED
    BY <1>1, <1>10, <2>2, <2>3, <2>4, <2>5 DEF ArchVars
<1>11. CASE ~Doomed'
  <2>1. IsStore(x.op) => x.addr \in Address
    BY <1>1, <1>4, <1>5, <1>9, <1>11 DEF Doomed, InBounds
  <2>2. x.op.mem_acc_type # "NONE" => x.addr \in Address
    BY <1>1, <1>4, <1>5, <2>1 DEF AccessType
  <2>3. ArchMem' = IF IsStore(x.op) THEN [mem EXCEPT ![x.addr] = x.rs2] ELSE mem
    BY <1>1, <1>9, <2>1 DEF ArchMem, Written, NoStore
  <2>4. ArchPc' = IF Jumps(x) THEN x.branch_addr ELSE Plus(x.pc, 1)
    BY <1>11, NextPc
  <2>5. ArchRegs' = IF Arch!Writes(Arch!Current.op) /\ Arch!Current.op.rd # 0
                      THEN [ArchRegs EXCEPT ![Arch!Current.op.rd] =
                              Arch!Result(Arch!Current)]
                      ELSE ArchRegs
    <3>1. Writes(x.op) => instrs'[d].rd = Arch!Result(Arch!Current)
      BY <1>2, <1>4, <1>6, ArchFields DEF Arch!Result
    <3> QED
      BY <1>2, <1>8, <3>1, ArchFields
  <2>6. ArchMem' = IF Arch!IsStore(Arch!Current.op)
                     THEN [ArchMem EXCEPT ![Arch!Current.addr] = Arch!Current.rs2]
                     ELSE ArchMem
    BY <1>2, <1>4, <2>3, ArchFields
  <2>7. ArchPc' = IF Arch!Jumps(Arch!Current) THEN Arch!Current.branch_addr
                  ELSE Arch!Plus(ArchPc, 1)
    BY <1>2, <2>4, ArchOperators DEF Arch!Plus, Plus
  <2>8. ArchHalted' = (Arch!Current.op.name = "ECALL")
    BY <1>2, <1>7 DEF ArchHalted
  <2>9. ~ArchHalted /\ ArchPc \in Arch!Address /\ UNCHANGED prog
    BY <1>1, <1>2 DEF OfProgram, Arch!Address, Address
  <2>10. Arch!Current.op.mem_acc_type # "NONE" => Arch!Current.addr \in Arch!Address
    BY <1>2, <2>2 DEF Arch!Address, Address
  <2> QED
    BY <1>11, <2>5, <2>6, <2>7, <2>8, <2>9, <2>10 DEF Arch!Step
<1> QED
  BY <1>10, <1>11

LEMMA ISAInit == Init => Arch!Init
<1> SUFFICES ASSUME Init PROVE Arch!Init
  OBVIOUS
<1>1. /\ phase = "writeBack" /\ ~is_stop /\ is_stop \in BOOLEAN
      /\ regs = InitRegs /\ mem = InitMem /\ store = NoStore /\ prog \in Programs
      /\ wf_st.load = [EmptyWF EXCEPT !.pc = Entry]
      /\ ~Valid(em_st.load) /\ ~Valid(fd_st.load) /\ ~Valid(mw_st.load)
      /\ de_st.load.is_stall
  BY DEF Init, EmptyStage, EmptyXS, EmptyFD, Valid
<1>2. ArchPc = Entry
  BY <1>1 DEF ArchPc, Pending, ExecutesNext, FetchPc, EmptyWF
<1>3. ArchRegs = InitRegs /\ ArchHalted = FALSE
  BY <1>1 DEF ArchRegs, ArchHalted, AtWriteBack
<1>4. ArchMem = InitMem
  BY <1>1 DEF ArchMem, NoStore
<1> QED
  BY <1>1, <1>2, <1>3, <1>4 DEF Arch!Init

LEMMA ISAStep ==
  ASSUME AllInv, NoAccessWraps, [Next]_vars
  PROVE  [Arch!Step]_(Arch!vars)
<1>1. UNCHANGED ArchVars => UNCHANGED Arch!vars
  BY DEF ArchVars, Arch!vars
<1>2. CASE UNCHANGED vars
  BY <1>1, <1>2, StillStutter
<1>3. CASE phase = "aborted" /\ ~UNCHANGED vars
  BY <1>3
     DEF Next, vars, finished, writeBack, writeBackBubble, retire, memoryAccess,
       memoryBubble, memoryStore, memoryLoad, memoryOther, memoryThrow,
       PassToWriteBack, execute, executeBubble, executePlain, executeJump,
       executeSystem, RunExecutor, decode, decodeBubble, decodeInstr,
       decodeThrow, fetch, fetchBubble, fetchInstr, fetchThrow, updateLatches,
       endOfClock, updateThrow, Throw, GoTo
<1>4. CASE phase # "aborted"
  <2>1. Arch!Step \/ UNCHANGED ArchVars
    BY <1>4, ClockSteps, StillStutter, StillWriteBack, StillMemoryBubble,
       PassRefines, StillExecuteBubble, StillRun, StillDecode, StillFetch,
       StillClock, StillThrow
  <2> QED
    BY <1>1, <2>1
<1> QED
  BY <1>2, <1>3, <1>4

\* The invariant of the refinement: between two clocks the instructions in flight
\* are consecutive ones of the program but for what a jump has squashed, and they
\* have the operands the register file will hold once those in front are written
\* back.
THEOREM FlowInvariant == Spec /\ SafeProgram(prog) => []FlowInv
<1>1. AllInv /\ [Next]_vars => AllInv'
  BY AllInvStep
<1>2. AllInv => FlowInv
  BY DEF AllInv
<1> QED
  BY AllInvInit, <1>1, <1>2, PTL DEF Spec

\* Every run of a safe program whose accesses do not wrap below address 0 is, with
\* the latches, bypasses, squashes, stops and the store pipeline out of sight, a
\* run of the machine that executes one instruction after the other.
THEOREM ISARefinement ==
  Spec /\ SafeProgram(prog) /\ []NoAccessWraps => ImplementsISA
<1>1. AllInv /\ NoAccessWraps /\ [Next]_vars => [Arch!Step]_(Arch!vars)
  BY ISAStep
<1>2. AllInv /\ [Next]_vars => AllInv'
  BY AllInvStep
<1> QED
  BY AllInvInit, ISAInit, <1>1, <1>2, PTL DEF Spec, ImplementsISA, Arch!Spec
=============================================================================
