--------------------------- MODULE PerfSimProofs ---------------------------
(***************************************************************************)
(* Proofs that IInv is an inductive invariant of PerfSim, for every value  *)
(* of the constants, and of the safety properties that follow from it.     *)
(* Types come first: TypeOK holds initially, and PointersInv is all a step *)
(* needs to preserve it.                                                   *)
(***************************************************************************)
EXTENDS PerfSimInvariant, TLAPS

-----------------------------------------------------------------------------
(* Lemmas about the operators of the model.                                *)

LEMMA WordFacts ==
  /\ 0 \in Word /\ 1 \in Word
  /\ Address \subseteq Word
  /\ 0 \in Reg /\ SP \in Reg
BY MachineAssumption DEF Word, Address, Reg, SP

LEMMA PlusType ==
  ASSUME NEW a \in Word, NEW b \in Word
  PROVE  Plus(a, b) \in Word
BY MachineAssumption DEF Word, Plus

LEMMA BumpType ==
  ASSUME NEW n \in 0 .. MaxCount, NEW k \in Nat
  PROVE  Bump(n, k) \in 0 .. MaxCount
BY MaxCountAssumption DEF Bump

\* A program holds decoded words.
LEMMA DecodedFields ==
  ASSUME NEW w \in Instructions
  PROVE  /\ w.type \in InstrType
         /\ w.rs1 \in Reg /\ w.rs2 \in Reg /\ w.rd \in Reg
         /\ w.imm \in Word
BY InstructionsAssumption DEF DecodedWord

\* An executor changes the data of an Instruction object, not what it is.
LEMMA ExecutedType ==
  ASSUME NEW i \in InstructionObject
  PROVE  Executed(i) \in InstructionObject /\ Executed(i).op = i.op
<1> DEFINE op == i.op
<1>1. op \in Instructions /\ op.imm \in Word
  BY DecodedFields DEF InstructionObject
<1>2. i.pc \in Word /\ i.rs1 \in Word /\ i.rs2 \in Word
  BY DEF InstructionObject
<1>3. /\ Plus(i.pc, 1) \in Word
      /\ Plus(i.rs1, op.imm) \in Word
      /\ Plus(i.pc, op.imm) \in Word
  BY <1>1, <1>2, PlusType, WordFacts
<1>4. /\ Alu(op, i.rs1, i.rs2, i.pc) \in Word
      /\ BranchTaken(op, i.rs1, i.rs2) \in BOOLEAN
  BY <1>1, <1>2, ExecutorsAssumption
<1> QED
  BY <1>1, <1>2, <1>3, <1>4 DEF Executed, InstructionObject

-----------------------------------------------------------------------------
(* Type correctness.  TypeOK needs PointersInv: the program reads and writes *)
(* the object a latch points to.                                             *)

LEMMA LatchTypes ==
  /\ EmptyWF \in WF /\ EmptyFD \in FD /\ EmptyXS \in XS
  /\ NoStore \in Store
BY WordFacts, InstructionsAssumption
   DEF EmptyWF, EmptyFD, EmptyXS, NoStore, WF, FD, XS, Store

\* Handing a latch over, and stopping it, keep its type.
LEMMA UpdateType ==
  ASSUME NEW T, NEW st \in StageOf(T), NEW empty \in T
  PROVE  update(st, empty) \in StageOf(T)
BY DEF StageOf, update, stopped

LEMMA ExtendType ==
  ASSUME NEW T, NEW st \in StageOf(T), NEW n \in Nat
  PROVE  /\ extend(st, n) \in StageOf(T)
         /\ extend(st, n).store = st.store /\ extend(st, n).load = st.load
         /\ extend(st, n).stop_count = st.stop_count + n
BY DEF StageOf, extend

LEMMA TypeInit == Init => TypeOK
<1> SUFFICES ASSUME Init PROVE TypeOK
  OBVIOUS
<1>1. InitRegs \in [Reg -> Word] /\ InitMem \in [Address -> Word]
  BY WordFacts, MachineAssumption, LoaderAssumption
     DEF InitRegs, InitMem, Word, Address
<1>2. /\ [EmptyWF EXCEPT !.pc = Entry] \in WF
      /\ EmptyStage \in StageOf(XS)
  BY LatchTypes, LoaderAssumption DEF EmptyStage, StageOf, EmptyWF, WF
<1>3. NewInstruction \in InstructionObject
  BY WordFacts, InstructionsAssumption DEF NewInstruction, InstructionObject
<1>4. 0 \in Slot /\ 0 \in 0 .. MaxCount
  BY StagesAssumption, MaxCountAssumption DEF Slot
<1>5. RegFileTypeOK /\ DecoderTypeOK
  BY <1>1, <1>4 DEF Init, RegFileTypeOK, DecoderTypeOK
<1>6. HazardUnitTypeOK
  BY <1>2, <1>3, <1>4, <1>5, LatchTypes
     DEF Init, HazardUnitTypeOK, Counters, StageOf
<1> QED
  BY <1>1, <1>4, <1>5, <1>6, LatchTypes, LoaderAssumption DEF Init, TypeOK, Phase

\* RegFile::write and the release of a lock.
LEMMA WriteType ==
  ASSUME RegFileTypeOK, NEW num \in Reg, NEW value \in Word, write(num, value)
  PROVE  RegFileTypeOK'
BY DEF RegFileTypeOK, write

LEMMA HuWriteType ==
  ASSUME TypeOK, NEW p \in Pointer, hu_write(p)
  PROVE  RegFileTypeOK'
<1>1. instrs[p] \in InstructionObject
  BY DEF TypeOK, HazardUnitTypeOK
<1>2. instrs[p].op.rd \in Reg /\ instrs[p].rd \in Word
  BY <1>1, DecodedFields DEF InstructionObject
<1>3. CASE Writes(instrs[p].op)
  BY <1>2, <1>3, WriteType DEF hu_write, TypeOK, HazardUnitTypeOK
<1>4. CASE ~Writes(instrs[p].op)
  BY <1>4 DEF hu_write, TypeOK, HazardUnitTypeOK, RegFileTypeOK
<1> QED
  BY <1>3, <1>4

\* The type invariant of everything but the register file, which most actions
\* leave alone.
LEMMA TypeFrame ==
  ASSUME TypeOK,
         RegFileTypeOK',
         UNCHANGED <<prog, mem, store, ic, clocks, is_stop, instrs, hu, index>>,
         phase' \in Phase,
         wf_st' \in StageOf(WF), fd_st' \in StageOf(FD),
         de_st' \in StageOf(XS), em_st' \in StageOf(XS), mw_st' \in StageOf(XS)
  PROVE  TypeOK'
BY DEF TypeOK, HazardUnitTypeOK, DecoderTypeOK

LEMMA WriteBackType ==
  ASSUME TypeOK, PointersInv, writeBack
  PROVE  TypeOK'
<1>1. mw_st.load \in XS
  BY DEF TypeOK, HazardUnitTypeOK, StageOf
<1>2. RegFileTypeOK'
  <2>1. CASE UNCHANGED <<regs, reg_locker>>
    BY <2>1 DEF TypeOK, HazardUnitTypeOK, RegFileTypeOK
  <2>2. CASE ~mw_st.load.is_stall /\ hu_write(mw_st.load.instr)
    BY <2>2, HuWriteType DEF PointersInv, Points, Live
  <2> QED
    BY <2>1, <2>2 DEF writeBack, writeBackBubble, retire, Valid
<1>3. CASE writeBackBubble
  BY <1>2, <1>3, TypeFrame
     DEF writeBackBubble, GoTo, Phase, latches, TypeOK, HazardUnitTypeOK
<1>4. CASE retire
  <2>1. ic' \in 0 .. MaxCount
    BY <1>4, BumpType DEF retire, TypeOK
  <2>2. is_stop' \in BOOLEAN
    BY <1>4 DEF retire, TypeOK
  <2> QED
    BY <1>2, <1>4, <2>1, <2>2
       DEF retire, GoTo, Phase, latches, TypeOK, HazardUnitTypeOK, DecoderTypeOK
<1> QED
  BY <1>3, <1>4 DEF writeBack

LEMMA MemoryAccessType ==
  ASSUME TypeOK, PointersInv, memoryAccess
  PROVE  TypeOK'
<1>1. /\ em_st.load \in XS
      /\ Live(em_st.load) => em_st.load.instr \in Pointer
  BY DEF TypeOK, HazardUnitTypeOK, StageOf, PointersInv, Points
<1>2. CASE memoryBubble
  <2>1. mw_st' \in StageOf(XS)
    BY <1>2 DEF memoryBubble, TypeOK, HazardUnitTypeOK, StageOf, XS
  <2>2. RegFileTypeOK'
    BY <1>1, <1>2, HuWriteType
       DEF memoryBubble, Live, TypeOK, HazardUnitTypeOK, RegFileTypeOK
  <2> QED
    BY <1>2, <2>1, <2>2, TypeFrame
       DEF memoryBubble, GoTo, Phase, TypeOK, HazardUnitTypeOK
<1>3. ASSUME PassToWriteBack
      PROVE  /\ em_st.load.instr \in Pointer
             /\ instrs[em_st.load.instr] \in InstructionObject
             /\ mw_st' \in StageOf(XS)
             /\ RegFileTypeOK' /\ phase' \in Phase /\ DecoderTypeOK'
  <2>1. em_st.load.instr \in Pointer
    BY <1>1, <1>3 DEF PassToWriteBack, Valid, Live
  <2>2. mw_st' \in StageOf(XS)
    BY <1>3, <2>1 DEF PassToWriteBack, TypeOK, HazardUnitTypeOK, StageOf, XS
  <2> QED
    BY <1>3, <2>1, <2>2
       DEF PassToWriteBack, GoTo, Phase, TypeOK, HazardUnitTypeOK,
           RegFileTypeOK, DecoderTypeOK
<1>4. CASE memoryStore
  <2>1. PassToWriteBack
    BY <1>4 DEF memoryStore
  <2>2. store' \in Store /\ mem' \in [Address -> Word]
    BY <1>3, <1>4, <2>1
       DEF memoryStore, Written, Store, TypeOK, InstructionObject
  <2> QED
    BY <1>3, <1>4, <2>1, <2>2
       DEF memoryStore, PassToWriteBack, TypeOK, HazardUnitTypeOK
<1>5. CASE memoryLoad
  <2>1. PassToWriteBack
    BY <1>5 DEF memoryLoad
  <2>2. instrs' \in [Pointer -> InstructionObject]
    BY <1>3, <1>5, <2>1
       DEF memoryLoad, ReadFrom, TypeOK, HazardUnitTypeOK, InstructionObject
  <2> QED
    BY <1>3, <1>5, <2>1, <2>2
       DEF memoryLoad, PassToWriteBack, TypeOK, HazardUnitTypeOK
<1>6. CASE memoryOther
  BY <1>3, <1>6 DEF memoryOther, PassToWriteBack, TypeOK, HazardUnitTypeOK
<1>7. CASE memoryThrow
  BY <1>7 DEF memoryThrow, Throw, GoTo, latches, Phase, TypeOK,
              HazardUnitTypeOK, RegFileTypeOK, DecoderTypeOK
<1> QED
  BY <1>2, <1>4, <1>5, <1>6, <1>7 DEF memoryAccess

LEMMA ExecuteType ==
  ASSUME TypeOK, PointersInv, execute
  PROVE  TypeOK'
<1>1. /\ de_st.load \in XS
      /\ Live(de_st.load) => de_st.load.instr \in Pointer
  BY DEF TypeOK, HazardUnitTypeOK, StageOf, PointersInv, Points
<1>2. CASE executeBubble
  <2>1. em_st' \in StageOf(XS)
    BY <1>2 DEF executeBubble, TypeOK, HazardUnitTypeOK, StageOf, XS
  <2>2. RegFileTypeOK'
    BY <1>1, <1>2, HuWriteType
       DEF executeBubble, Live, TypeOK, HazardUnitTypeOK, RegFileTypeOK
  <2> QED
    BY <1>2, <2>1, <2>2, TypeFrame
       DEF executeBubble, GoTo, Phase, TypeOK, HazardUnitTypeOK
<1>3. ASSUME RunExecutor
      PROVE  /\ em_st' \in StageOf(XS)
             /\ instrs' \in [Pointer -> InstructionObject]
             /\ Executed(instrs[de_st.load.instr]) \in InstructionObject
             /\ RegFileTypeOK' /\ phase' \in Phase /\ DecoderTypeOK'
  <2>1. de_st.load.instr \in Pointer
    BY <1>1, <1>3 DEF RunExecutor, Valid, Live
  <2>2. Executed(instrs[de_st.load.instr]) \in InstructionObject
    BY <2>1, ExecutedType DEF TypeOK, HazardUnitTypeOK
  <2>3. em_st' \in StageOf(XS)
    BY <1>3, <2>1 DEF RunExecutor, TypeOK, HazardUnitTypeOK, StageOf, XS
  <2>4. instrs' \in [Pointer -> InstructionObject]
    BY <1>3, <2>2 DEF RunExecutor, TypeOK, HazardUnitTypeOK
  <2> QED
    BY <1>3, <2>2, <2>3, <2>4
       DEF RunExecutor, GoTo, Phase, TypeOK, HazardUnitTypeOK, RegFileTypeOK,
           DecoderTypeOK
<1>4. CASE executePlain
  BY <1>3, <1>4 DEF executePlain, RunExecutor, TypeOK, HazardUnitTypeOK
<1>5. CASE executeJump
  <2> DEFINE target == Executed(instrs[de_st.load.instr]).branch_addr
  <2>1. RunExecutor /\ hu_branch(target)
    BY <1>5 DEF executeJump
  <2>2. target \in Word
    BY <1>3, <2>1 DEF InstructionObject
  <2>3. wf_st' \in StageOf(WF)
    BY <2>1, <2>2 DEF hu_branch, TypeOK, HazardUnitTypeOK, StageOf, WF
  <2>4. fd_st' \in StageOf(FD) /\ de_st' \in StageOf(XS)
    BY <2>1 DEF hu_branch, TypeOK, HazardUnitTypeOK, StageOf, FD, XS
  <2>5. hu' \in Counters
    BY <2>1, BumpType DEF hu_branch, TypeOK, HazardUnitTypeOK, Counters
  <2> QED
    BY <1>3, <2>1, <2>3, <2>4, <2>5 DEF RunExecutor, TypeOK, HazardUnitTypeOK
<1>6. CASE executeSystem
  <2>1. RunExecutor /\ hu_exit
    BY <1>6 DEF executeSystem
  <2>2. wf_st' \in StageOf(WF) /\ fd_st' \in StageOf(FD)
    BY <2>1, ExtendType DEF hu_exit, TypeOK, HazardUnitTypeOK
  <2>3. de_st' \in StageOf(XS)
    <3>1. extend(de_st, 5) \in StageOf(XS)
      BY ExtendType DEF TypeOK, HazardUnitTypeOK
    <3> QED
      BY <2>1, <3>1 DEF hu_exit, StageOf, XS
  <2> QED
    BY <1>3, <2>1, <2>2, <2>3
       DEF hu_exit, RunExecutor, TypeOK, HazardUnitTypeOK
<1> QED
  BY <1>2, <1>4, <1>5, <1>6 DEF execute

\* The operands, the stalls and the object Decoder::decode produces.
LEMMA OperandType ==
  ASSUME TypeOK, PointersInv, NEW r \in Reg
  PROVE  Operand(r) \in Word
<1>1. regs[r] \in Word /\ 0 \in Word
  BY WordFacts DEF TypeOK, HazardUnitTypeOK, RegFileTypeOK
<1>2. ASSUME NEW buffer, Points(buffer), Produces(buffer, r)
      PROVE  instrs[buffer.instr].rd \in Word
  BY <1>2 DEF Points, Live, Produces, Valid, TypeOK, HazardUnitTypeOK,
              InstructionObject
<1> QED
  BY <1>1, <1>2 DEF Operand, BypassMemEx, BypassWbEx, PointersInv

LEMMA OnesType ==
  ASSUME NEW p, NEW q
  PROVE  Ones(p, q) \in Nat
BY DEF Ones

LEMMA IndexAfterType ==
  ASSUME DecoderTypeOK, NEW t \in InstrType
  PROVE  IndexAfter(t) \in [InstrType -> Slot]
BY StagesAssumption DEF DecoderTypeOK, IndexAfter, Slot

LEMMA LockedByType ==
  ASSUME RegFileTypeOK, NEW num \in Reg
  PROVE  LockedBy(num) \in [Reg -> Int]
BY DEF RegFileTypeOK, LockedBy

LEMMA DecodedType ==
  ASSUME TypeOK, PointersInv, NEW p \in Pointer, NEW w \in Instructions,
         NEW pc \in Word
  PROVE  Decoded(p, w, pc) \in InstructionObject
<1>1. /\ instrs[p] \in InstructionObject
      /\ Operand(w.rs1) \in Word /\ Operand(w.rs2) \in Word
      /\ regs[w.rd] \in Word /\ 0 \in Word
  BY DecodedFields, OperandType, WordFacts
     DEF TypeOK, HazardUnitTypeOK, RegFileTypeOK
<1> QED
  BY <1>1 DEF Decoded, InstructionObject

LEMMA DecoderDecodeType ==
  ASSUME TypeOK, PointersInv, NEW w \in Instructions, NEW pc \in Word,
         decoder_decode(w, pc)
  PROVE  /\ get_next(w.type) \in Pointer
         /\ instrs' \in [Pointer -> InstructionObject]
         /\ DecoderTypeOK' /\ RegFileTypeOK'
         /\ wf_st' \in StageOf(WF) /\ fd_st' \in StageOf(FD)
         /\ em_st' \in StageOf(XS)
         /\ hu' \in Counters
<1>1. w.type \in InstrType /\ w.rd \in Reg
  BY DecodedFields
<1>2. get_next(w.type) \in Pointer
  BY <1>1 DEF get_next, Pointer, TypeOK, DecoderTypeOK
<1>3. instrs' \in [Pointer -> InstructionObject]
  BY <1>2, DecodedType DEF decoder_decode, TypeOK, HazardUnitTypeOK
<1>4. DecoderTypeOK'
  BY <1>1, IndexAfterType DEF decoder_decode, TypeOK, DecoderTypeOK
<1>5. RegFileTypeOK'
  BY <1>1, LockedByType
     DEF decoder_decode, TypeOK, HazardUnitTypeOK, RegFileTypeOK
<1>6. /\ LoadUses(w) \in Nat /\ MemExBypasses(w) \in Nat
      /\ WbExBypasses(w) \in Nat
  BY OnesType DEF LoadUses, MemExBypasses, WbExBypasses
<1>7. hu_stall(LoadUses(w))
  BY DEF decoder_decode
<1>8. wf_st' \in StageOf(WF) /\ fd_st' \in StageOf(FD)
  BY <1>6, <1>7, ExtendType DEF hu_stall, TypeOK, HazardUnitTypeOK
<1>9. em_st' \in StageOf(XS)
  BY <1>7 DEF hu_stall, TypeOK, HazardUnitTypeOK, StageOf, XS
<1>10. hu' \in Counters
  <2>1. LoadUses(w) + WbExBypasses(w) \in Nat
    BY <1>6
  <2>2. hu \in Counters
    BY DEF TypeOK, HazardUnitTypeOK
  <2>3. /\ Bump(hu.stops, LoadUses(w)) \in 0 .. MaxCount
        /\ Bump(hu.bypasses_mem_ex, MemExBypasses(w)) \in 0 .. MaxCount
        /\ Bump(hu.bypasses_wb_ex, LoadUses(w) + WbExBypasses(w))
             \in 0 .. MaxCount
    BY <1>6, <2>1, <2>2, BumpType DEF Counters
  <2> QED
    BY <2>2, <2>3 DEF decoder_decode, Counters
<1> QED
  BY <1>2, <1>3, <1>4, <1>5, <1>8, <1>9, <1>10

LEMMA DecodeType ==
  ASSUME TypeOK, PointersInv, decode
  PROVE  TypeOK'
<1>1. /\ fd_st.load.instr \in Instructions /\ fd_st.load.pc \in Word
      /\ Valid(fd_st.load) \in BOOLEAN
  BY DEF TypeOK, HazardUnitTypeOK, StageOf, FD, Valid
<1>2. CASE decodeBubble
  <2>1. de_st' \in StageOf(XS)
    BY <1>1, <1>2 DEF decodeBubble, TypeOK, HazardUnitTypeOK, StageOf, XS
  <2> QED
    BY <1>2, <2>1, TypeFrame
       DEF decodeBubble, GoTo, Phase, TypeOK, HazardUnitTypeOK, RegFileTypeOK
<1>3. CASE decodeInstr
  <2> DEFINE w == fd_st.load.instr
  <2>1. decoder_decode(w, fd_st.load.pc)
    BY <1>3 DEF decodeInstr
  <2>2. /\ get_next(w.type) \in Pointer
        /\ instrs' \in [Pointer -> InstructionObject]
        /\ DecoderTypeOK' /\ RegFileTypeOK'
        /\ wf_st' \in StageOf(WF) /\ fd_st' \in StageOf(FD)
        /\ em_st' \in StageOf(XS)
        /\ hu' \in Counters
    BY <1>1, <2>1, DecoderDecodeType
  <2>3. de_st' \in StageOf(XS)
    BY <1>3, <2>2 DEF decodeInstr, TypeOK, HazardUnitTypeOK, StageOf, XS
  <2> QED
    BY <1>3, <2>2, <2>3 DEF decodeInstr, GoTo, Phase, TypeOK, HazardUnitTypeOK
<1>4. CASE decodeThrow
  BY <1>4 DEF decodeThrow, Throw, GoTo, latches, Phase, TypeOK,
              HazardUnitTypeOK, RegFileTypeOK, DecoderTypeOK
<1> QED
  BY <1>2, <1>3, <1>4 DEF decode

LEMMA FetchType ==
  ASSUME TypeOK, fetch
  PROVE  TypeOK'
<1>1. CASE fetchBubble
  <2>1. fd_st' \in StageOf(FD)
    BY <1>1 DEF fetchBubble, Valid, TypeOK, HazardUnitTypeOK, StageOf, WF, FD
  <2> QED
    BY <1>1, <2>1, TypeFrame
       DEF fetchBubble, GoTo, Phase, TypeOK, HazardUnitTypeOK, RegFileTypeOK
<1>2. CASE fetchInstr
  <2>1. /\ FetchPc \in Word /\ Plus(FetchPc, 1) \in Word
        /\ prog[FetchPc] \in Instructions
    BY <1>2, WordFacts, PlusType DEF fetchInstr, TypeOK
  <2>2. fd_st' \in StageOf(FD)
    BY <1>2, <2>1 DEF fetchInstr, TypeOK, HazardUnitTypeOK, StageOf, FD
  <2>3. wf_st' \in StageOf(WF)
    BY <1>2, <2>1 DEF fetchInstr, TypeOK, HazardUnitTypeOK, StageOf, WF
  <2> QED
    BY <1>2, <2>2, <2>3, TypeFrame
       DEF fetchInstr, GoTo, Phase, TypeOK, HazardUnitTypeOK, RegFileTypeOK
<1>3. CASE fetchThrow
  BY <1>3 DEF fetchThrow, Throw, GoTo, latches, Phase, TypeOK,
              HazardUnitTypeOK, RegFileTypeOK, DecoderTypeOK
<1> QED
  BY <1>1, <1>2, <1>3 DEF fetch

LEMMA UpdateLatchesType ==
  ASSUME TypeOK, updateLatches
  PROVE  TypeOK'
<1>1. CASE endOfClock
  <2>1. /\ wf_st' \in StageOf(WF) /\ fd_st' \in StageOf(FD)
        /\ de_st' \in StageOf(XS) /\ em_st' \in StageOf(XS)
        /\ mw_st' \in StageOf(XS)
    BY <1>1, UpdateType, LatchTypes DEF endOfClock, TypeOK, HazardUnitTypeOK
  <2>2. mem' \in [Address -> Word] /\ store' \in Store
    BY <1>1, LatchTypes DEF endOfClock, Written, TypeOK, Store
  <2>3. clocks' \in 0 .. MaxCount
    BY <1>1, BumpType DEF endOfClock, TypeOK
  <2> QED
    BY <1>1, <2>1, <2>2, <2>3
       DEF endOfClock, GoTo, Phase, TypeOK, HazardUnitTypeOK, RegFileTypeOK,
           DecoderTypeOK
<1>2. CASE updateThrow
  BY <1>2 DEF updateThrow, Throw, GoTo, latches, Phase, TypeOK,
              HazardUnitTypeOK, RegFileTypeOK, DecoderTypeOK
<1> QED
  BY <1>1, <1>2 DEF updateLatches

LEMMA TypeStep ==
  ASSUME TypeOK, PointersInv, [Next]_vars
  PROVE  TypeOK'
<1>1. CASE UNCHANGED vars
  BY <1>1 DEF vars, TypeOK, HazardUnitTypeOK, RegFileTypeOK, DecoderTypeOK
<1> QED
  BY <1>1, WriteBackType, MemoryAccessType, ExecuteType, DecodeType, FetchType,
     UpdateLatchesType DEF Next, finished

-----------------------------------------------------------------------------
(* Pointers: a live latch buffer points to an object.                        *)

\* The shape of the latches.
LEMMA LatchShape ==
  ASSUME TypeOK
  PROVE  /\ wf_st \in StageOf(WF) /\ fd_st \in StageOf(FD)
         /\ de_st \in StageOf(XS) /\ em_st \in StageOf(XS)
         /\ mw_st \in StageOf(XS)
BY DEF TypeOK, HazardUnitTypeOK

LEMMA EmptyNotLive == ~Live(EmptyXS)
BY DEF Live, EmptyXS

\* The effects of the hazard unit on the latches, field by field.
LEMMA BranchEffect ==
  ASSUME TypeOK, NEW target, hu_branch(target)
  PROVE  /\ wf_st'.load = wf_st.load /\ wf_st'.stop_count = wf_st.stop_count
         /\ fd_st'.load = fd_st.load /\ fd_st'.stop_count = fd_st.stop_count
         /\ de_st'.load = de_st.load /\ de_st'.stop_count = de_st.stop_count
BY LatchShape DEF hu_branch, StageOf, WF, FD, XS

LEMMA ExitEffect ==
  ASSUME TypeOK, hu_exit
  PROVE  /\ wf_st'.load = wf_st.load
         /\ wf_st'.stop_count = wf_st.stop_count + 5
         /\ fd_st'.load = fd_st.load /\ fd_st'.store = fd_st.store
         /\ fd_st'.stop_count = fd_st.stop_count + 5
         /\ de_st'.load.is_stall = de_st.load.is_stall
         /\ de_st'.load.instr = de_st.load.instr
         /\ de_st'.load.hazard_stall = TRUE
         /\ de_st'.stop_count = de_st.stop_count + 5
<1>1. /\ extend(de_st, 5) \in StageOf(XS)
      /\ extend(de_st, 5).load = de_st.load
      /\ extend(de_st, 5).stop_count = de_st.stop_count + 5
      /\ de_st' = [extend(de_st, 5) EXCEPT !.load.hazard_stall = TRUE]
  BY LatchShape, ExtendType DEF hu_exit
<1>2. /\ de_st'.load = [de_st.load EXCEPT !.hazard_stall = TRUE]
      /\ de_st'.stop_count = de_st.stop_count + 5
      /\ de_st.load \in XS
  BY <1>1 DEF StageOf
<1> QED
  BY <1>2, LatchShape, ExtendType DEF hu_exit, XS

LEMMA StallEffect ==
  ASSUME TypeOK, NEW n \in Nat, hu_stall(n)
  PROVE  /\ wf_st'.load = wf_st.load
         /\ wf_st'.stop_count = wf_st.stop_count + n
         /\ fd_st'.load = fd_st.load /\ fd_st'.store = fd_st.store
         /\ fd_st'.stop_count = fd_st.stop_count + n
         /\ em_st'.load = em_st.load /\ em_st'.stop_count = em_st.stop_count
         /\ em_st'.store.is_stall = em_st.store.is_stall
         /\ em_st'.store.instr = em_st.store.instr
BY LatchShape, ExtendType DEF hu_stall, StageOf, XS

\* The stages that hand an instruction on.
LEMMA PassEffect ==
  ASSUME TypeOK, PassToWriteBack
  PROVE  /\ phase = "memoryAccess" /\ phase' = "execute"
         /\ Valid(em_st.load)
         /\ Live(mw_st'.store) /\ mw_st'.store.instr = em_st.load.instr
         /\ mw_st'.load = mw_st.load /\ mw_st'.stop_count = mw_st.stop_count
         /\ UNCHANGED <<wf_st, fd_st, de_st, em_st, regs, reg_locker, prog, index>>
BY LatchShape DEF PassToWriteBack, GoTo, Live, StageOf, XS

LEMMA RunEffect ==
  ASSUME TypeOK, RunExecutor
  PROVE  /\ phase = "execute" /\ phase' = "decode"
         /\ Valid(de_st.load)
         /\ Live(em_st'.store) /\ em_st'.store.instr = de_st.load.instr
         /\ em_st'.load = em_st.load /\ em_st'.stop_count = em_st.stop_count
         /\ UNCHANGED <<mw_st, regs, reg_locker, prog, index>>
BY LatchShape DEF RunExecutor, GoTo, Live, StageOf, XS

LEMMA MemoryBubbleEffect ==
  ASSUME TypeOK, memoryBubble
  PROVE  /\ phase = "memoryAccess" /\ phase' = "execute"
         /\ ~Valid(em_st.load) /\ ~Live(mw_st'.store)
         /\ mw_st'.load = mw_st.load /\ mw_st'.stop_count = mw_st.stop_count
         /\ UNCHANGED <<wf_st, fd_st, de_st, em_st, prog, index, instrs>>
BY LatchShape DEF memoryBubble, GoTo, Live, StageOf, XS

LEMMA ExecuteBubbleEffect ==
  ASSUME TypeOK, executeBubble
  PROVE  /\ phase = "execute" /\ phase' = "decode"
         /\ ~Valid(de_st.load) /\ ~Live(em_st'.store)
         /\ em_st'.load = em_st.load /\ em_st'.stop_count = em_st.stop_count
         /\ UNCHANGED <<wf_st, fd_st, de_st, mw_st, prog, index, instrs>>
BY LatchShape DEF executeBubble, GoTo, Live, StageOf, XS

LEMMA DecodeBubbleEffect ==
  ASSUME TypeOK, decodeBubble
  PROVE  /\ phase = "decode" /\ phase' = "fetch"
         /\ de_st'.load = de_st.load /\ de_st'.stop_count = de_st.stop_count
         /\ ~Live(Handover(de_st'))
         /\ UNCHANGED <<wf_st, fd_st, em_st, mw_st, prog, index, instrs, regs,
                        reg_locker>>
BY LatchShape, EmptyNotLive
   DEF decodeBubble, GoTo, Live, Handover, stopped, StageOf, XS

LEMMA DecodeEffect ==
  ASSUME TypeOK, PointersInv, decodeInstr,
         NEW w, w = fd_st.load.instr,
         NEW p, p = get_next(w.type)
  PROVE  /\ phase = "decode" /\ phase' = "fetch"
         /\ Valid(fd_st.load) /\ ~stopped(de_st)
         /\ w \in Instructions /\ p \in Pointer
         /\ de_st'.load = de_st.load /\ de_st'.stop_count = de_st.stop_count
         /\ Live(de_st'.store) /\ de_st'.store.instr = p
         /\ instrs' = [instrs EXCEPT ![p] = Decoded(p, w, fd_st.load.pc)]
         /\ instrs'[p].op = w
         /\ index' = IndexAfter(w.type)
         /\ LoadUses(w) \in Nat /\ hu_stall(LoadUses(w))
         /\ UNCHANGED <<mw_st, prog>>
<1>1. w \in Instructions /\ fd_st.load.pc \in Word
  BY LatchShape DEF StageOf, FD
<1>2. p \in Pointer /\ decoder_decode(w, fd_st.load.pc)
  BY <1>1, DecoderDecodeType DEF decodeInstr
<1>3. LoadUses(w) \in Nat /\ hu_stall(LoadUses(w))
  BY <1>2, OnesType DEF decoder_decode, LoadUses
<1>4. instrs' = [instrs EXCEPT ![p] = Decoded(p, w, fd_st.load.pc)]
  BY <1>2 DEF decoder_decode
<1>5. instrs'[p].op = w
  BY <1>2, <1>4 DEF Decoded, TypeOK, HazardUnitTypeOK, InstructionObject
<1>6. /\ de_st'.load = de_st.load /\ de_st'.stop_count = de_st.stop_count
      /\ Live(de_st'.store) /\ de_st'.store.instr = p
  BY LatchShape DEF decodeInstr, Live, StageOf, XS
<1> QED
  BY <1>1, <1>2, <1>3, <1>4, <1>5, <1>6 DEF decodeInstr, GoTo, decoder_decode

\* Only decode makes an object another instruction, and only the one it takes.
LEMMA OpsKept ==
  ASSUME TypeOK, PointersInv, [Next]_vars, NEW q \in Pointer,
         ~decodeInstr \/ q # get_next(fd_st.load.instr.type)
  PROVE  instrs'[q].op = instrs[q].op
<1>1. CASE memoryLoad
  BY <1>1 DEF memoryLoad, PassToWriteBack, Valid, PointersInv, Points, Live,
              TypeOK, HazardUnitTypeOK, InstructionObject
<1>2. CASE RunExecutor
  <2>1. de_st.load.instr \in Pointer
    BY <1>2 DEF RunExecutor, Valid, PointersInv, Points, Live
  <2>2. Executed(instrs[de_st.load.instr]).op = instrs[de_st.load.instr].op
    BY <2>1, ExecutedType DEF TypeOK, HazardUnitTypeOK
  <2> QED
    BY <1>2, <2>1, <2>2 DEF RunExecutor, TypeOK, HazardUnitTypeOK
<1>3. CASE decodeInstr
  BY <1>3, DecodeEffect DEF TypeOK, HazardUnitTypeOK
<1>4. ASSUME ~memoryLoad, ~RunExecutor, ~decodeInstr
      PROVE  UNCHANGED instrs
  BY <1>4 DEF Next, vars, writeBack, writeBackBubble, retire, memoryAccess,
     memoryBubble, memoryStore, memoryOther, memoryThrow, execute,
     executeBubble, executePlain, executeJump, executeSystem, decode,
     decodeBubble, decodeThrow, fetch, fetchBubble, fetchInstr, fetchThrow,
     updateLatches, endOfClock, updateThrow, finished, Throw
<1> QED
  BY <1>1, <1>2, <1>3, <1>4

LEMMA FetchEffect ==
  ASSUME TypeOK, fetchBubble \/ fetchInstr
  PROVE  /\ phase = "fetch" /\ phase' = "update"
         /\ wf_st'.stop_count = wf_st.stop_count
         /\ fd_st'.load = fd_st.load /\ fd_st'.stop_count = fd_st.stop_count
         /\ UNCHANGED <<de_st, em_st, mw_st, prog, index, instrs, regs, reg_locker>>
BY LatchShape DEF fetchBubble, fetchInstr, GoTo, StageOf, WF, FD

LEMMA ClockEffect ==
  ASSUME TypeOK, StopsInv, endOfClock
  PROVE  /\ phase = "update" /\ phase' \in {"writeBack", "stopped"}
         /\ em_st'.load = em_st.store /\ em_st'.stop_count = 0
         /\ mw_st'.load = mw_st.store /\ mw_st'.stop_count = 0
         /\ ~Live(em_st'.store) /\ ~Live(mw_st'.store)
         /\ stopped(de_st) => /\ de_st'.load = de_st.load
                              /\ de_st'.stop_count = de_st.stop_count - 1
         /\ ~stopped(de_st) => /\ de_st'.load = de_st.store
                               /\ de_st'.stop_count = 0
         /\ stopped(fd_st) => /\ fd_st'.load = fd_st.load
                              /\ fd_st'.stop_count = fd_st.stop_count - 1
         /\ ~stopped(fd_st) => /\ fd_st'.load = fd_st.store
                               /\ fd_st'.stop_count = 0
         /\ wf_st'.stop_count = IF stopped(wf_st) THEN wf_st.stop_count - 1 ELSE 0
         /\ UNCHANGED <<prog, index, instrs, regs, reg_locker>>
BY LatchShape, EmptyNotLive
   DEF endOfClock, GoTo, update, stopped, StopsInv, StageOf, Live

LEMMA PointersStep ==
  ASSUME TypeOK, PointersInv, [Next]_vars
  PROVE  PointersInv'
<1>1. CASE UNCHANGED vars
  BY <1>1 DEF vars, PointersInv, Points, Live, Handover, stopped
<1>2. CASE writeBack
  BY <1>2 DEF writeBack, writeBackBubble, retire, GoTo, latches, PointersInv,
              Points, Live
<1>3. CASE memoryAccess
  <2>1. CASE memoryBubble
    BY <2>1, LatchShape DEF memoryBubble, GoTo, PointersInv, Points, Live,
                            StageOf, XS
  <2>2. CASE PassToWriteBack
    BY <2>2, LatchShape DEF PassToWriteBack, GoTo, PointersInv, Points, Live,
                            Valid, StageOf, XS
  <2>3. CASE memoryThrow
    BY <2>3 DEF memoryThrow, Throw, GoTo, latches, PointersInv, Points, Live
  <2> QED
    BY <1>3, <2>1, <2>2, <2>3
       DEF memoryAccess, memoryStore, memoryLoad, memoryOther
<1>4. CASE execute
  <2>1. CASE executeBubble
    BY <2>1, LatchShape DEF executeBubble, GoTo, PointersInv, Points, Live,
                            StageOf, XS
  <2>2. ASSUME RunExecutor,
               de_st'.load.is_stall = de_st.load.is_stall,
               de_st'.load.instr = de_st.load.instr
        PROVE  PointersInv'
    BY <2>2, RunEffect DEF PointersInv, Points, Live, Valid
  <2>3. CASE executePlain
    BY <2>2, <2>3 DEF executePlain
  <2>4. CASE executeJump
    BY <2>2, <2>4, BranchEffect DEF executeJump
  <2>5. CASE executeSystem
    BY <2>2, <2>5, ExitEffect DEF executeSystem
  <2> QED
    BY <1>4, <2>1, <2>3, <2>4, <2>5 DEF execute
<1>5. CASE decode
  <2>1. CASE decodeBubble
    BY <2>1, LatchShape, EmptyNotLive
       DEF decodeBubble, GoTo, PointersInv, Points, Live, Handover, stopped,
           StageOf, XS
  <2>2. CASE decodeInstr
    <3> DEFINE w == fd_st.load.instr
    <3>1. w \in Instructions /\ fd_st.load.pc \in Word
      BY LatchShape DEF StageOf, FD
    <3>2. /\ get_next(w.type) \in Pointer
          /\ LoadUses(w) \in Nat /\ hu_stall(LoadUses(w))
      BY <2>2, <3>1, DecoderDecodeType, OnesType
         DEF decodeInstr, decoder_decode, LoadUses
    <3>3. /\ em_st'.load = em_st.load
          /\ em_st'.store.is_stall = em_st.store.is_stall
          /\ em_st'.store.instr = em_st.store.instr
      BY <3>2, StallEffect
    <3>4. /\ de_st'.load = de_st.load
          /\ de_st'.store.instr = get_next(w.type)
      BY <2>2, LatchShape DEF decodeInstr, StageOf, XS
    <3> QED
      BY <2>2, <3>2, <3>3, <3>4, EmptyNotLive
         DEF decodeInstr, PointersInv, Points, Live, Handover
  <2>3. CASE decodeThrow
    BY <2>3 DEF decodeThrow, Throw, GoTo, latches, PointersInv, Points, Live
  <2> QED
    BY <1>5, <2>1, <2>2, <2>3 DEF decode
<1>6. CASE fetch
  <2>1. CASE phase' = "aborted"
    BY <1>6, <2>1 DEF fetch, fetchBubble, fetchInstr, fetchThrow, Throw, GoTo,
                     latches, PointersInv, Points, Live
  <2>2. CASE phase' = "update" /\ phase = "fetch"
    BY <1>6, <2>2 DEF fetch, fetchBubble, fetchInstr, fetchThrow, Throw, GoTo,
                     latches, PointersInv, Points, Live, Handover, stopped
  <2> QED
    BY <1>6, <2>1, <2>2 DEF fetch, fetchBubble, fetchInstr, fetchThrow, Throw,
                            GoTo
<1>7. CASE updateLatches
  <2>1. CASE endOfClock
    BY <2>1, LatchShape, EmptyNotLive
       DEF endOfClock, GoTo, update, stopped, PointersInv, Points, Live,
           Handover, StageOf
  <2>2. CASE updateThrow
    BY <2>2 DEF updateThrow, Throw, GoTo, latches, PointersInv, Points, Live
  <2> QED
    BY <1>7, <2>1, <2>2 DEF updateLatches
<1> QED
  BY <1>1, <1>2, <1>3, <1>4, <1>5, <1>6, <1>7 DEF Next, finished
-----------------------------------------------------------------------------
(* The steps of PerfSim, once: every lemma below goes through this list.     *)

Frame == <<latches, prog, index, instrs>>

LEMMA WriteBackEffect ==
  ASSUME writeBack
  PROVE  phase = "writeBack" /\ phase' = "memoryAccess" /\ UNCHANGED Frame
BY DEF writeBack, writeBackBubble, retire, GoTo, Frame, latches

LEMMA Steps ==
  ASSUME [Next]_vars
  PROVE  \/ UNCHANGED vars
         \/ writeBack
         \/ memoryBubble
         \/ PassToWriteBack
         \/ executeBubble
         \/ executePlain
         \/ executeJump
         \/ executeSystem
         \/ decodeBubble
         \/ decodeInstr
         \/ fetchBubble \/ fetchInstr
         \/ endOfClock
         \/ phase' = "aborted" /\ UNCHANGED Frame
BY DEF Next, finished, memoryAccess, memoryStore, memoryLoad, memoryOther,
       memoryThrow, execute, decode, decodeThrow, fetch, fetchThrow,
       updateLatches, updateThrow, Throw, GoTo, Frame

\* The executor runs: the three ways execute ends.
LEMMA ExecutedEffect ==
  ASSUME TypeOK, PointersInv, [Next]_vars,
         executePlain \/ executeJump \/ executeSystem
  PROVE  /\ RunExecutor
         /\ de_st'.load.is_stall = de_st.load.is_stall
         /\ de_st'.load.instr = de_st.load.instr
         /\ IF IsSystem(de_st.load)
              THEN hu_exit
              ELSE /\ de_st'.load = de_st.load
                   /\ de_st'.stop_count = de_st.stop_count
                   /\ fd_st'.load = fd_st.load
                   /\ fd_st'.stop_count = fd_st.stop_count
                   /\ wf_st'.stop_count = wf_st.stop_count
<1>1. RunExecutor
  BY DEF executePlain, executeJump, executeSystem
<1>2. Valid(de_st.load) /\ Live(de_st.load) /\ de_st.load.instr \in Pointer
  BY <1>1, RunEffect DEF Valid, Live, PointersInv, Points
<1> DEFINE i == instrs[de_st.load.instr]
<1>3. Executed(i).op = i.op
  BY <1>2, ExecutedType DEF TypeOK, HazardUnitTypeOK
<1>4. CASE executePlain
  BY <1>1, <1>2, <1>3, <1>4 DEF executePlain, IsSystem, OpOf
<1>5. CASE executeJump
  <2>1. ~IsSystem(de_st.load)
    BY <1>3, <1>5 DEF executeJump, Jumps, IsSystem, OpOf
  <2>2. hu_branch(Executed(i).branch_addr)
    BY <1>5 DEF executeJump
  <2> QED
    BY <1>1, <2>1, <2>2, BranchEffect
<1>6. CASE executeSystem
  BY <1>1, <1>2, <1>6, ExitEffect DEF executeSystem, IsSystem, OpOf
<1> QED
  BY <1>4, <1>5, <1>6

-----------------------------------------------------------------------------
(* Fetched words and stops.                                                  *)

LEMMA FetchedStep ==
  ASSUME TypeOK, PointersInv, FetchedInv, [Next]_vars
  PROVE  FetchedInv'
<1>1. ASSUME fd_st'.load = fd_st.load, UNCHANGED prog, phase' # "update"
      PROVE  FetchedInv'
  BY <1>1 DEF FetchedInv, Live
<1>2. CASE UNCHANGED vars
  BY <1>2 DEF vars, FetchedInv, Live, stopped
<1>3. CASE writeBack
  BY <1>1, <1>3, WriteBackEffect DEF Frame, latches
<1>4. CASE memoryBubble \/ PassToWriteBack
  BY <1>1, <1>4, MemoryBubbleEffect, PassEffect
<1>5. CASE executeBubble
  BY <1>1, <1>5, ExecuteBubbleEffect
<1>6. CASE executePlain \/ executeJump \/ executeSystem
  BY <1>1, <1>6, ExecutedEffect, RunEffect, ExitEffect
<1>7. CASE decodeBubble
  BY <1>1, <1>7, DecodeBubbleEffect
<1>8. CASE decodeInstr
  BY <1>1, <1>8, DecodeEffect, StallEffect
<1>9. CASE fetchBubble
  <2>1. fd_st'.store.is_stall = ~Valid(wf_st.load)
    BY <1>9, LatchShape DEF fetchBubble, StageOf, FD
  <2>2. Live(fd_st'.store) => stopped(fd_st')
    BY <1>9, <2>1, FetchEffect DEF fetchBubble, Live, stopped
  <2> QED
    BY <1>9, <2>2, FetchEffect DEF FetchedInv, Live
<1>10. CASE fetchInstr
  <2>1. /\ fd_st'.store.pc \in Address
        /\ fd_st'.store.instr = prog[fd_st'.store.pc]
    BY <1>10, LatchShape DEF fetchInstr, StageOf, FD
  <2> QED
    BY <1>10, <2>1, FetchEffect DEF FetchedInv, Live
<1>11. CASE endOfClock
  <2>1. fd_st'.load = IF stopped(fd_st) THEN fd_st.load ELSE fd_st.store
    BY <1>11, LatchShape DEF endOfClock, update, StageOf
  <2> QED
    BY <1>11, <2>1 DEF endOfClock, GoTo, FetchedInv, Live
<1>12. CASE phase' = "aborted" /\ UNCHANGED Frame
  BY <1>1, <1>12 DEF Frame, latches
<1> QED
  BY <1>2, <1>3, <1>4, <1>5, <1>6, <1>7, <1>8, <1>9, <1>10, <1>11, <1>12, Steps

LEMMA StopsStep ==
  ASSUME TypeOK, PointersInv, StopsInv, [Next]_vars
  PROVE  StopsInv'
<1> DEFINE Counts(st) == st.stop_count \in Nat
<1>0. /\ Counts(wf_st) /\ Counts(fd_st) /\ Counts(de_st)
      /\ Counts(em_st) /\ Counts(mw_st)
  BY LatchShape DEF StageOf
<1>1. ASSUME stopped(de_st), ~decodeInstr, IsSystem(de_st.load),
             de_st'.load.is_stall = de_st.load.is_stall,
             de_st'.load.instr = de_st.load.instr
      PROVE  IsSystem(de_st.load)'
  BY <1>1, OpsKept DEF IsSystem, OpOf, Live, PointersInv, Points
<1>2. CASE UNCHANGED vars
  BY <1>2 DEF vars, StopsInv, IsSystem, OpOf, Live, stopped
<1>3. ASSUME ~decodeInstr, de_st'.load = de_st.load,
             wf_st'.stop_count = wf_st.stop_count,
             fd_st'.stop_count = fd_st.stop_count,
             de_st'.stop_count = de_st.stop_count,
             em_st'.stop_count = em_st.stop_count,
             mw_st'.stop_count = mw_st.stop_count
      PROVE  StopsInv'
  BY <1>1, <1>3 DEF StopsInv, stopped
<1>4. CASE writeBack
  BY <1>3, <1>4, WriteBackEffect DEF decodeInstr, GoTo, Frame, latches
<1>5. CASE memoryBubble \/ PassToWriteBack
  BY <1>3, <1>5, MemoryBubbleEffect, PassEffect DEF decodeInstr, GoTo
<1>6. CASE executeBubble
  BY <1>3, <1>6, ExecuteBubbleEffect DEF decodeInstr, GoTo
<1>7. CASE executePlain \/ executeJump \/ executeSystem
  <2>1. CASE IsSystem(de_st.load)
    <3>1. hu_exit /\ RunExecutor /\ ~decodeInstr
      BY <1>7, <2>1, ExecutedEffect, RunEffect DEF decodeInstr, GoTo
    <3>2. IsSystem(de_st.load)'
      BY <1>7, <2>1, <3>1, OpsKept, ExecutedEffect
         DEF IsSystem, OpOf, Live, PointersInv, Points
    <3>3. /\ wf_st'.stop_count = wf_st.stop_count + 5
          /\ fd_st'.stop_count = fd_st.stop_count + 5
          /\ de_st'.stop_count = de_st.stop_count + 5
          /\ em_st'.stop_count = em_st.stop_count
          /\ mw_st'.stop_count = mw_st.stop_count
          /\ de_st'.load.hazard_stall
      BY <3>1, ExitEffect, RunEffect
    <3> QED
      BY <1>0, <3>2, <3>3 DEF StopsInv
  <2> QED
    BY <1>3, <1>7, <2>1, ExecutedEffect, RunEffect DEF decodeInstr, GoTo
<1>8. CASE decodeBubble
  BY <1>3, <1>8, DecodeBubbleEffect DEF decodeBubble, decodeInstr
<1>9. CASE decodeInstr
  BY <1>0, <1>9, DecodeEffect, StallEffect DEF StopsInv, stopped
<1>10. CASE fetchBubble \/ fetchInstr
  BY <1>3, <1>10, FetchEffect DEF decodeInstr, GoTo
<1>11. CASE endOfClock
  <2>1. ~decodeInstr
    BY <1>11 DEF endOfClock, decodeInstr, GoTo
  <2>2. stopped(de_st') => stopped(de_st) /\ de_st'.load = de_st.load
    BY <1>0, <1>11, ClockEffect DEF stopped
  <2>3. stopped(de_st') => de_st'.load.hazard_stall /\ IsSystem(de_st.load)'
    BY <1>1, <2>1, <2>2 DEF StopsInv
  <2> QED
    BY <1>0, <1>11, <2>3, ClockEffect DEF StopsInv, stopped
<1>12. CASE phase' = "aborted" /\ UNCHANGED Frame
  BY <1>12 DEF Frame, latches, StopsInv, IsSystem, OpOf, Live, stopped
<1> QED
  BY <1>2, <1>4, <1>5, <1>6, <1>7, <1>8, <1>9, <1>10, <1>11, <1>12, Steps

-----------------------------------------------------------------------------
(* The rings of objects.                                                     *)

LEMMA PrevFacts ==
  ASSUME NEW i \in Slot
  PROVE  /\ Prev(i) \in Slot /\ Prev(i) # i
         /\ Prev(Prev(i)) # i
         /\ Prev(IF i = Stages - 1 THEN 0 ELSE i + 1) = i
BY StagesAssumption DEF Prev, Slot

\* Taking an object makes it the last one, and the last one the one before it.
LEMMA RingAdvance ==
  ASSUME DecoderTypeOK, NEW t \in InstrType, index' = IndexAfter(t)
  PROVE  /\ \A p : p = get_next(t) => Last(p)'
         /\ \A q \in Pointer : Last(q) => LastTwo(q)'
<1>1. \A u \in InstrType : index[u] \in Slot /\ index'[u] \in Slot
  BY StagesAssumption DEF DecoderTypeOK, IndexAfter, Slot
<1>2. Prev(index'[t]) = index[t]
  BY <1>1, PrevFacts DEF DecoderTypeOK, IndexAfter
<1>3. \A u \in InstrType : u # t => index'[u] = index[u]
  BY DEF DecoderTypeOK, IndexAfter
<1>4. ASSUME NEW q \in Pointer, Last(q)
      PROVE  LastTwo(q)'
  <2>1. q[1] \in InstrType /\ q[2] \in Slot
    BY DEF Pointer
  <2> QED
    BY <1>2, <1>3, <1>4, <2>1 DEF Last, LastTwo
<1> QED
  BY <1>2, <1>4 DEF get_next, Last

\* No instruction in the execute or memory stage has the object decode takes.
LEMMA SlotFree ==
  ASSUME TypeOK, RingInv, phase = "decode", NEW t \in InstrType,
         NEW p, p = get_next(t)
  PROVE  /\ Live(em_st.store) => em_st.store.instr # p
         /\ Live(mw_st.store) => mw_st.store.instr # p
<1>1. index[t] \in Slot
  BY DEF TypeOK, DecoderTypeOK
<1> QED
  BY <1>1, PrevFacts DEF RingInv, Last, LastTwo, get_next

LEMMA RingStep ==
  ASSUME TypeOK, PointersInv, StopsInv, phase # "aborted" => RingInv,
         [Next]_vars, phase' # "aborted"
  PROVE  RingInv'
<1>1. CASE UNCHANGED vars
  BY <1>1 DEF vars, RingInv, Live, Last, LastTwo, stopped, Handover
<1>2. CASE writeBack
  BY <1>2, WriteBackEffect DEF Frame, latches, RingInv, Live, Last, LastTwo,
                               stopped, Handover
<1>3. CASE memoryBubble \/ PassToWriteBack
  BY <1>3, MemoryBubbleEffect, PassEffect
     DEF RingInv, Live, Last, LastTwo, stopped, Valid
<1>4. CASE executeBubble
  BY <1>4, ExecuteBubbleEffect DEF RingInv, Live, Last, LastTwo, stopped
<1>5. CASE executePlain \/ executeJump \/ executeSystem
  BY <1>5, ExecutedEffect, RunEffect
     DEF RingInv, Live, Last, LastTwo, stopped, Valid
<1>6. CASE decodeBubble
  BY <1>6, DecodeBubbleEffect DEF RingInv, Live, Last, LastTwo, stopped
<1>7. CASE decodeInstr
  <2> DEFINE t == fd_st.load.instr.type
  <2>1. PICK p : p = get_next(t)
    OBVIOUS
  <2>2. /\ phase' = "fetch" /\ ~stopped(de_st')
        /\ de_st'.store.instr = p
        /\ index' = IndexAfter(t) /\ t \in InstrType
        /\ em_st'.store.is_stall = em_st.store.is_stall
        /\ em_st'.store.instr = em_st.store.instr
    BY <1>7, <2>1, DecodeEffect, StallEffect, DecodedFields DEF stopped
  <2>3. Last(p)' /\ \A q \in Pointer : Last(q) => LastTwo(q)'
    BY <2>1, <2>2, RingAdvance DEF TypeOK
  <2>4. Live(em_st.store) =>
          em_st.store.instr \in Pointer /\ Last(em_st.store.instr)
    BY <1>7 DEF decodeInstr, GoTo, RingInv, PointersInv, Points
  <2>5. Live(em_st'.store) => LastTwo(em_st.store.instr)'
    BY <2>2, <2>3, <2>4 DEF Live, Last, LastTwo
  <2>6. Last(de_st.store.instr)'
    BY <2>2, <2>3 DEF Last
  <2> QED
    BY <2>2, <2>5, <2>6 DEF RingInv
<1>8. CASE fetchBubble \/ fetchInstr
  BY <1>8, FetchEffect DEF RingInv, Live, Last, LastTwo, stopped, Handover
<1>9. CASE endOfClock
  <2>1. stopped(de_st) \/ Handover(de_st) = de_st.store
    BY DEF Handover
  <2> QED
    BY <1>9, <2>1, ClockEffect, LatchShape
       DEF RingInv, Live, Last, LastTwo, stopped, StageOf
<1> QED
  BY <1>1, <1>2, <1>3, <1>4, <1>5, <1>6, <1>7, <1>8, <1>9, Steps

\* Except for the object decode takes, a buffer's object stays the same
\* instruction.
LEMMA OpKept ==
  ASSUME TypeOK, PointersInv, [Next]_vars, NEW b, Points(b),
         ~decodeInstr \/ (Live(b) => b.instr # get_next(fd_st.load.instr.type))
  PROVE  Live(b) => instrs'[b.instr].op = instrs[b.instr].op
BY OpsKept DEF Points, Live

LEMMA LinksStep ==
  ASSUME TypeOK, PointersInv, StopsInv, phase # "aborted" => LinksInv,
         [Next]_vars, phase' # "aborted"
  PROVE  LinksInv'
<1>1. CASE UNCHANGED vars
  BY <1>1 DEF vars, LinksInv, Live, Valid, IsSystem, OpOf
<1>2. CASE PassToWriteBack \/ memoryBubble
  BY <1>2, PassEffect, MemoryBubbleEffect DEF LinksInv, Live, Valid
<1>3. CASE executeBubble
  BY <1>3, ExecuteBubbleEffect DEF LinksInv, Live, Valid
<1>4. CASE executePlain \/ executeJump \/ executeSystem
  <2>1. /\ RunExecutor /\ ~decodeInstr
        /\ de_st'.load.is_stall = de_st.load.is_stall
        /\ de_st'.load.instr = de_st.load.instr
    BY <1>4, ExecutedEffect, RunEffect DEF decodeInstr, GoTo
  <2>2. Live(de_st.load) /\ ~de_st.load.hazard_stall
    BY <2>1, RunEffect DEF Valid, Live
  <2>3. IsSystem(de_st.load)' <=> IsSystem(de_st.load)
    <3>1. Points(de_st.load)
      BY DEF PointersInv
    <3> QED
      BY <2>1, <2>2, <3>1, OpsKept DEF IsSystem, OpOf, Live, Points
  <2>4. de_st'.load.hazard_stall => IsSystem(de_st.load)'
    BY <1>4, <2>2, <2>3, ExecutedEffect
  <2> QED
    BY <2>1, <2>2, <2>4, RunEffect DEF LinksInv, Live, Valid
<1>5. phase' \in {"execute", "decode"} \/ LinksInv'
  BY DEF LinksInv
<1>6. writeBack \/ decodeBubble \/ decodeInstr \/ fetchBubble \/ fetchInstr
        \/ endOfClock => phase' \notin {"execute", "decode"}
  BY DEF writeBack, writeBackBubble, retire, decodeBubble, decodeInstr,
         fetchBubble, fetchInstr, endOfClock, GoTo
<1> QED
  BY <1>1, <1>2, <1>3, <1>4, <1>5, <1>6, Steps

LEMMA DrainStep ==
  ASSUME TypeOK, PointersInv, StopsInv, RingInv, DrainInv,
         [Next]_vars, phase' # "aborted"
  PROVE  DrainInv'
<1>0. de_st.stop_count \in Nat
  BY LatchShape DEF StageOf
<1>1. CASE UNCHANGED vars
  BY <1>1 DEF vars, DrainInv, IsSystem, OpOf, Live
<1>2. CASE writeBack
  <2>1. ~decodeInstr
    BY <1>2 DEF decodeInstr, writeBack, writeBackBubble, retire, GoTo
  <2>2. IsSystem(em_st.load)' <=> IsSystem(em_st.load)
    BY <1>2, <2>1, OpKept, WriteBackEffect
       DEF PointersInv, IsSystem, OpOf, Live, Frame, latches
  <2> QED
    BY <1>2, <2>2, WriteBackEffect DEF DrainInv, Frame, latches
<1>3. CASE memoryBubble
  BY <1>3, MemoryBubbleEffect DEF DrainInv, IsSystem
<1>4. CASE PassToWriteBack
  <2>1. ~decodeInstr
    BY <1>4, PassEffect DEF decodeInstr, GoTo
  <2>2. IsSystem(em_st.load)' <=> IsSystem(em_st.load)
    BY <1>4, <2>1, OpKept, PassEffect
       DEF PointersInv, IsSystem, OpOf, Live
  <2>3. IsSystem(mw_st.store)' => IsSystem(em_st.load)'
    BY <1>4, PassEffect DEF IsSystem, OpOf, Live, Valid
  <2> QED
    BY <1>4, <2>2, <2>3, PassEffect DEF DrainInv
<1>5. CASE executeBubble
  <2>1. ~decodeInstr
    BY <1>5, ExecuteBubbleEffect DEF decodeInstr, GoTo
  <2>2. IsSystem(mw_st.store)' <=> IsSystem(mw_st.store)
    BY <1>5, <2>1, OpKept, ExecuteBubbleEffect
       DEF PointersInv, IsSystem, OpOf, Live
  <2> QED
    BY <1>5, <2>2, ExecuteBubbleEffect DEF DrainInv, IsSystem, Live
<1>6. CASE executePlain \/ executeJump \/ executeSystem
  <2>1. RunExecutor /\ ~decodeInstr /\ ~IsSystem(mw_st.store)
    <3>1. RunExecutor
      BY <1>6, ExecutedEffect
    <3>2. ~stopped(de_st)
      BY <3>1, RunEffect DEF StopsInv, Valid
    <3> QED
      BY <1>0, <3>1, <3>2, RunEffect DEF DrainInv, stopped, decodeInstr, GoTo
  <2>2. ~IsSystem(mw_st.store)'
    BY <2>1, OpKept, RunEffect DEF PointersInv, IsSystem, OpOf, Live
  <2>3. IsSystem(em_st.store)' => IsSystem(de_st.load)
    <3>1. Live(de_st.load) /\ de_st.load.instr \in Pointer
      BY <2>1, RunEffect DEF Valid, Live, PointersInv, Points
    <3>2. instrs'[de_st.load.instr].op = instrs[de_st.load.instr].op
      BY <2>1, <3>1, OpsKept
    <3> QED
      BY <2>1, <3>1, <3>2, RunEffect DEF IsSystem, OpOf, Live
  <2>4. IsSystem(de_st.load) => 3 < de_st'.stop_count
    <3>1. IsSystem(de_st.load) => hu_exit
      BY <1>6, ExecutedEffect
    <3>2. hu_exit => de_st'.stop_count = de_st.stop_count + 5
      BY ExitEffect
    <3> QED
      BY <1>0, <3>1, <3>2
  <2> QED
    BY <2>1, <2>2, <2>3, <2>4, RunEffect DEF DrainInv
<1>7. CASE decodeBubble
  <2>1. ~decodeInstr
    BY <1>7 DEF decodeBubble, decodeInstr
  <2>2. /\ IsSystem(mw_st.store)' <=> IsSystem(mw_st.store)
        /\ IsSystem(em_st.store)' <=> IsSystem(em_st.store)
    BY <1>7, <2>1, OpKept, DecodeBubbleEffect
       DEF PointersInv, IsSystem, OpOf, Live
  <2> QED
    BY <1>7, <2>2, DecodeBubbleEffect DEF DrainInv
<1>8. CASE decodeInstr
  <2>1. ~IsSystem(mw_st.store) /\ ~IsSystem(em_st.store)
    BY <1>0, <1>8, DecodeEffect DEF DrainInv, stopped
  <2> DEFINE p == get_next(fd_st.load.instr.type)
  <2>2. /\ Live(em_st.store) => em_st.store.instr # p
        /\ Live(mw_st.store) => mw_st.store.instr # p
    BY <1>8, DecodeEffect, DecodedFields, SlotFree
  <2>3. ~IsSystem(mw_st.store)'
    BY <1>8, <2>1, <2>2, OpKept, DecodeEffect
       DEF PointersInv, IsSystem, OpOf, Live
  <2>4. Live(em_st.store) => instrs'[em_st.store.instr].op
                               = instrs[em_st.store.instr].op
    BY <2>2, OpKept DEF PointersInv
  <2>5. /\ em_st'.store.is_stall = em_st.store.is_stall
        /\ em_st'.store.instr = em_st.store.instr
    BY <1>8, DecodeEffect, StallEffect
  <2>6. ~IsSystem(em_st.store)'
    BY <2>1, <2>4, <2>5 DEF IsSystem, OpOf, Live
  <2> QED
    BY <1>8, <2>3, <2>6, DecodeEffect DEF DrainInv
<1>9. CASE fetchBubble \/ fetchInstr
  BY <1>9, FetchEffect DEF DrainInv, IsSystem, OpOf, Live
<1>10. CASE endOfClock
  <2>1. /\ IsSystem(em_st.load)' => IsSystem(em_st.store)
        /\ IsSystem(mw_st.load)' => IsSystem(mw_st.store)
    BY <1>10, ClockEffect DEF IsSystem, OpOf, Live
  <2>2. stopped(de_st) => de_st'.stop_count = de_st.stop_count - 1
    BY <1>10, ClockEffect
  <2>3. IsSystem(em_st.load)' => 2 < de_st'.stop_count
    BY <1>0, <1>10, <2>1, <2>2, ClockEffect DEF DrainInv, stopped
  <2>4. IsSystem(mw_st.load)' =>
          1 < de_st'.stop_count /\ em_st'.load.is_stall
    BY <1>0, <1>10, <2>1, <2>2, ClockEffect DEF DrainInv, stopped
  <2> QED
    BY <1>10, <2>3, <2>4, ClockEffect DEF DrainInv
<1> QED
  BY <1>1, <1>2, <1>3, <1>4, <1>5, <1>6, <1>7, <1>8, <1>9, <1>10, Steps

-----------------------------------------------------------------------------
(* Register locks.                                                           *)

\* The lock of register r that an instruction with decoded word op, in a buffer
\* that is or is not stalled, holds.
Lock(is_stall, op, r) == IF ~is_stall /\ Writes(op) /\ op.rd = r THEN 1 ELSE 0

\* The release of a lock by the instruction that holds it.
LEMMA Release ==
  ASSUME TypeOK, NEW b, Points(b),
         IF b.is_stall THEN UNCHANGED <<regs, reg_locker>> ELSE hu_write(b.instr)
  PROVE  \A r \in Reg :
           reg_locker'[r] = IF r = 0 THEN reg_locker[0]
                            ELSE reg_locker[r] + Holds(b, r)
<1>1. reg_locker \in [Reg -> Int]
  BY DEF TypeOK, HazardUnitTypeOK, RegFileTypeOK
<1>2. CASE b.is_stall
  BY <1>1, <1>2 DEF Holds
<1>3. CASE ~b.is_stall
  <2>1. instrs[b.instr].op.rd \in Reg
    BY <1>3, DecodedFields
       DEF Points, Live, TypeOK, HazardUnitTypeOK, InstructionObject
  <2> QED
    BY <1>1, <1>3, <2>1 DEF hu_write, write, Holds
<1> QED
  BY <1>2, <1>3

\* A buffer whose instruction is the same after a step holds the same lock.
LEMMA LockKept ==
  ASSUME TypeOK, PointersInv, [Next]_vars, NEW b, Points(b),
         ~decodeInstr \/ (Live(b) => b.instr # get_next(fd_st.load.instr.type)),
         NEW c, c.is_stall = b.is_stall, c.instr = b.instr
  PROVE  \A r : Lock(c.is_stall, instrs'[c.instr].op, r) = Holds(b, r)
BY OpKept DEF Lock, Holds, Live

\* The locks counted when a phase comes next.
LEMMA Held ==
  ASSUME NEW r
  PROVE  /\ phase \in {"writeBack", "stopped"} => HeldLocks(r) =
              Holds(de_st.load, r) + Holds(em_st.load, r) + Holds(mw_st.load, r)
         /\ phase = "memoryAccess" => HeldLocks(r) =
              Holds(de_st.load, r) + Holds(em_st.load, r) + Holds(EmptyXS, r)
         /\ phase = "execute" => HeldLocks(r) =
              Holds(de_st.load, r) + Holds(EmptyXS, r) + Holds(mw_st.store, r)
         /\ phase = "decode" => HeldLocks(r) =
              Holds(EmptyXS, r) + Holds(em_st.store, r) + Holds(mw_st.store, r)
         /\ phase \in {"fetch", "update"} => HeldLocks(r) =
              Holds(Handover(de_st), r) + Holds(em_st.store, r)
                + Holds(mw_st.store, r)
BY DEF HeldLocks, LockHolders

LEMMA LockStep ==
  ASSUME TypeOK, PointersInv, StopsInv, RingInv, LockBalance,
         [Next]_vars, phase # "aborted", phase' # "aborted"
  PROVE  LockBalance'
<1>0. /\ reg_locker \in [Reg -> Int] /\ 0 \in Reg
      /\ reg_locker[0] = 0
      /\ \A r \in Reg \ {0} : reg_locker[r] = -HeldLocks(r)
  BY WordFacts DEF TypeOK, HazardUnitTypeOK, RegFileTypeOK, LockBalance
<1>1. /\ \A b, r : Holds(b, r) \in {0, 1}
      /\ \A r : Holds(EmptyXS, r) = 0 /\ Holds(EmptyXS, r)' = 0
  BY DEF Holds, EmptyXS
<1>2. CASE UNCHANGED vars
  BY <1>2 DEF vars, LockBalance, HeldLocks, LockHolders, Holds, Handover, stopped
<1>3. CASE writeBack
  <2>1. /\ phase = "writeBack" /\ phase' = "memoryAccess" /\ ~decodeInstr
        /\ UNCHANGED Frame
    BY <1>3, WriteBackEffect DEF decodeInstr, GoTo
  <2>2. \A r \in Reg :
          reg_locker'[r] = IF r = 0 THEN reg_locker[0]
                           ELSE reg_locker[r] + Holds(mw_st.load, r)
    BY <1>3, Release
       DEF writeBack, writeBackBubble, retire, Valid, PointersInv
  <2>3. \A r : HeldLocks(r)' = Holds(de_st.load, r) + Holds(em_st.load, r)
    BY <1>1, <2>1 DEF HeldLocks, LockHolders, Holds, Frame, latches
  <2>4. \A r : HeldLocks(r) = Holds(de_st.load, r) + Holds(em_st.load, r)
                                + Holds(mw_st.load, r)
    BY <2>1, Held
  <2> QED
    BY <1>0, <1>1, <2>2, <2>3, <2>4 DEF LockBalance
<1>4. CASE memoryBubble
  <2>1. /\ phase = "memoryAccess" /\ phase' = "execute"
        /\ UNCHANGED <<de_st, instrs>> /\ mw_st'.store.is_stall
    BY <1>4, MemoryBubbleEffect DEF Live
  <2>2. \A r \in Reg :
          reg_locker'[r] = IF r = 0 THEN reg_locker[0]
                           ELSE reg_locker[r] + Holds(em_st.load, r)
    BY <1>4, Release DEF memoryBubble, PointersInv
  <2>3. \A r : HeldLocks(r)' = Holds(de_st.load, r)
    BY <1>1, <2>1 DEF HeldLocks, LockHolders, Holds
  <2>4. \A r : HeldLocks(r) = Holds(de_st.load, r) + Holds(em_st.load, r)
    BY <1>1, <2>1, Held
  <2> QED
    BY <1>0, <1>1, <2>2, <2>3, <2>4 DEF LockBalance
<1>5. CASE PassToWriteBack
  <2>1. /\ phase = "memoryAccess" /\ phase' = "execute" /\ ~decodeInstr
        /\ UNCHANGED <<de_st, reg_locker>>
        /\ mw_st'.store.instr = em_st.load.instr
        /\ mw_st'.store.is_stall = em_st.load.is_stall
    <3>1. ~mw_st'.store.is_stall /\ ~em_st.load.is_stall
      BY <1>5, PassEffect DEF Live, Valid
    <3> QED
      BY <1>5, <3>1, LatchShape, PassEffect
         DEF decodeInstr, GoTo, PassToWriteBack, StageOf, XS
  <2>2. \A r : Holds(mw_st.store, r)' = Holds(em_st.load, r)
    BY <2>1, LockKept DEF PointersInv, Holds, Lock
  <2>3. \A r : Holds(de_st.load, r)' = Holds(de_st.load, r)
    BY <2>1, LockKept DEF PointersInv, Holds, Lock
  <2>4. \A r : HeldLocks(r)' = Holds(de_st.load, r) + Holds(em_st.load, r)
    <3>1. \A r : HeldLocks(r)' = Holds(de_st.load, r)' + Holds(EmptyXS, r)'
                                   + Holds(mw_st.store, r)'
      BY <2>1 DEF HeldLocks, LockHolders
    <3> QED
      BY <1>1, <2>2, <2>3, <3>1
  <2>5. \A r : HeldLocks(r) = Holds(de_st.load, r) + Holds(em_st.load, r)
    BY <1>1, <2>1, Held
  <2> QED
    BY <1>0, <1>1, <2>1, <2>4, <2>5 DEF LockBalance
<1>6. CASE executeBubble
  <2>1. /\ phase = "execute" /\ phase' = "decode"
        /\ UNCHANGED <<mw_st, instrs>> /\ em_st'.store.is_stall
    BY <1>6, ExecuteBubbleEffect DEF Live
  <2>2. \A r \in Reg :
          reg_locker'[r] = IF r = 0 THEN reg_locker[0]
                           ELSE reg_locker[r] + Holds(de_st.load, r)
    BY <1>6, Release DEF executeBubble, PointersInv
  <2>3. \A r : HeldLocks(r)' = Holds(mw_st.store, r)
    BY <1>1, <2>1 DEF HeldLocks, LockHolders, Holds
  <2>4. \A r : HeldLocks(r) = Holds(de_st.load, r) + Holds(mw_st.store, r)
    BY <1>1, <2>1, Held
  <2> QED
    BY <1>0, <1>1, <2>2, <2>3, <2>4 DEF LockBalance
<1>7. CASE executePlain \/ executeJump \/ executeSystem
  <2>1. /\ phase = "execute" /\ phase' = "decode" /\ ~decodeInstr
        /\ UNCHANGED <<mw_st, reg_locker>>
        /\ em_st'.store.instr = de_st.load.instr
        /\ em_st'.store.is_stall = de_st.load.is_stall
    <3>1. RunExecutor
      BY <1>7, ExecutedEffect
    <3>2. em_st'.store.is_stall = FALSE /\ de_st.load.is_stall = FALSE
      BY <3>1, LatchShape DEF RunExecutor, Valid, StageOf, XS
    <3> QED
      BY <3>1, <3>2, RunEffect DEF decodeInstr, GoTo
  <2>2. \A r : Holds(em_st.store, r)' = Holds(de_st.load, r)
    BY <2>1, LockKept DEF PointersInv, Holds, Lock
  <2>3. \A r : Holds(mw_st.store, r)' = Holds(mw_st.store, r)
    BY <2>1, LockKept DEF PointersInv, Holds, Lock
  <2>4. \A r : HeldLocks(r)' = Holds(de_st.load, r) + Holds(mw_st.store, r)
    <3>1. \A r : HeldLocks(r)' = Holds(EmptyXS, r)' + Holds(em_st.store, r)'
                                   + Holds(mw_st.store, r)'
      BY <2>1 DEF HeldLocks, LockHolders
    <3> QED
      BY <1>1, <2>2, <2>3, <3>1
  <2>5. \A r : HeldLocks(r) = Holds(de_st.load, r) + Holds(mw_st.store, r)
    BY <1>1, <2>1, Held
  <2> QED
    BY <1>0, <1>1, <2>1, <2>4, <2>5 DEF LockBalance
<1>8. CASE decodeBubble
  <2>1. /\ phase = "decode" /\ phase' = "fetch" /\ ~Live(Handover(de_st'))
        /\ UNCHANGED <<em_st, mw_st, instrs, reg_locker>>
    BY <1>8, DecodeBubbleEffect
  <2>2. \A r : HeldLocks(r)' = Holds(em_st.store, r) + Holds(mw_st.store, r)
    BY <1>1, <2>1 DEF HeldLocks, LockHolders, Holds, Live, Handover, stopped
  <2>3. \A r : HeldLocks(r) = Holds(em_st.store, r) + Holds(mw_st.store, r)
    BY <1>1, <2>1, Held
  <2> QED
    BY <1>0, <2>1, <2>2, <2>3 DEF LockBalance
<1>9. CASE decodeInstr
  <2>1. PICK w : w = fd_st.load.instr
    OBVIOUS
  <2>2. PICK p : p = get_next(w.type)
    OBVIOUS
  <2>3. /\ phase = "decode" /\ phase' = "fetch" /\ UNCHANGED mw_st
        /\ Handover(de_st') = de_st'.store
        /\ ~de_st'.store.is_stall /\ de_st'.store.instr = p
        /\ instrs'[p].op = w /\ w \in Instructions
        /\ em_st'.store.is_stall = em_st.store.is_stall
        /\ em_st'.store.instr = em_st.store.instr
    BY <1>9, <2>1, <2>2, DecodeEffect, StallEffect DEF Handover, stopped, Live
  <2>4. /\ Live(em_st.store) => em_st.store.instr # p
        /\ Live(mw_st.store) => mw_st.store.instr # p
    BY <2>2, <2>3, DecodedFields, SlotFree
  <2>5. \A r : Holds(em_st.store, r)' = Holds(em_st.store, r)
    BY <2>1, <2>2, <2>3, <2>4, LockKept DEF PointersInv, Holds, Lock
  <2>6. \A r : Holds(mw_st.store, r)' = Holds(mw_st.store, r)
    BY <2>1, <2>2, <2>3, <2>4, LockKept DEF PointersInv, Holds, Lock
  <2>7. \A r : HeldLocks(r)' = Lock(FALSE, w, r) + Holds(em_st.store, r)
                                 + Holds(mw_st.store, r)
    <3>1. \A r : Holds(Handover(de_st), r)' = Lock(FALSE, w, r)
      BY <2>3 DEF Holds, Lock
    <3>2. \A r : HeldLocks(r)' = Holds(Handover(de_st), r)'
                   + Holds(em_st.store, r)' + Holds(mw_st.store, r)'
      BY <2>3 DEF HeldLocks, LockHolders
    <3> QED
      BY <2>5, <2>6, <3>1, <3>2
  <2>8. \A r : HeldLocks(r) = Holds(em_st.store, r) + Holds(mw_st.store, r)
    BY <1>1, <2>3, Held
  <2>9. \A r \in Reg : reg_locker'[r] = IF r = 0 THEN reg_locker[0]
                                        ELSE reg_locker[r] - Lock(FALSE, w, r)
    BY <1>0, <1>9, <2>1, <2>3, DecodedFields
       DEF decodeInstr, decoder_decode, LockedBy, Lock
  <2> QED
    BY <1>0, <1>1, <2>7, <2>8, <2>9 DEF LockBalance, Lock
<1>10. CASE fetchBubble \/ fetchInstr
  <2>1. \A r : HeldLocks(r)' = HeldLocks(r)
    BY <1>10, FetchEffect
       DEF HeldLocks, LockHolders, Holds, Handover, stopped
  <2> QED
    BY <1>0, <1>10, <2>1, FetchEffect DEF LockBalance
<1>11. CASE endOfClock
  <2>1. /\ phase = "update" /\ phase' \in {"writeBack", "stopped"}
        /\ em_st'.load = em_st.store /\ mw_st'.load = mw_st.store
        /\ UNCHANGED <<instrs, reg_locker>>
    BY <1>11, ClockEffect
  <2>2. \A r : Holds(de_st.load, r)' = Holds(Handover(de_st), r)
    <3>1. CASE stopped(de_st)
      <4>1. IsSystem(de_st.load) /\ de_st'.load = de_st.load
        BY <1>11, <3>1, ClockEffect DEF StopsInv
      <4> QED
        BY <1>1, <2>1, <3>1, <4>1
           DEF Handover, Holds, IsSystem, OpOf, Writes
    <3>2. CASE ~stopped(de_st)
      BY <1>11, <2>1, <3>2, ClockEffect DEF Handover, Holds
    <3> QED
      BY <3>1, <3>2
  <2>3. \A r : HeldLocks(r)' = HeldLocks(r)
    <3>1. \A r : HeldLocks(r)' = Holds(de_st.load, r)' + Holds(em_st.load, r)'
                                   + Holds(mw_st.load, r)'
      BY <2>1 DEF HeldLocks, LockHolders
    <3>2. \A r : /\ Holds(em_st.load, r)' = Holds(em_st.store, r)
                 /\ Holds(mw_st.load, r)' = Holds(mw_st.store, r)
      BY <2>1 DEF Holds
    <3> QED
      BY <2>1, <2>2, <3>1, <3>2, Held
  <2> QED
    BY <1>0, <2>1, <2>3 DEF LockBalance
<1> QED
  BY <1>2, <1>3, <1>4, <1>5, <1>6, <1>7, <1>8, <1>9, <1>10, <1>11, Steps

-----------------------------------------------------------------------------
(* The inductive invariant.                                                  *)

LEMMA IInvInit == Init => IInv
<1> SUFFICES ASSUME Init PROVE IInv
  OBVIOUS
<1>1. TypeOK
  BY TypeInit
<1>2. /\ ~Live(de_st.load) /\ ~Live(em_st.load) /\ ~Live(mw_st.load)
      /\ ~Live(em_st.store) /\ ~Live(mw_st.store) /\ ~Live(fd_st.load)
      /\ ~stopped(de_st) /\ phase = "writeBack"
      /\ wf_st.stop_count = 0 /\ fd_st.stop_count = 0 /\ de_st.stop_count = 0
      /\ em_st.stop_count = 0 /\ mw_st.stop_count = 0
  BY DEF Init, EmptyStage, EmptyXS, EmptyFD, Live, stopped
<1>3. PointersInv /\ FetchedInv /\ StopsInv
  BY <1>2 DEF PointersInv, FetchedInv, StopsInv, Points, stopped
<1>4. RingInv /\ LinksInv /\ DrainInv
  BY <1>2 DEF RingInv, LinksInv, DrainInv, IsSystem
<1>5. LockBalance
  <2>1. \A r : HeldLocks(r) = 0
    BY <1>2 DEF HeldLocks, LockHolders, Holds, Live
  <2> QED
    BY <2>1, WordFacts DEF LockBalance, Init
<1> QED
  BY <1>1, <1>3, <1>4, <1>5 DEF IInv

LEMMA AbortedStays ==
  ASSUME [Next]_vars, phase' # "aborted"
  PROVE  phase # "aborted"
BY DEF Next, vars, finished, writeBack, writeBackBubble, retire, memoryAccess,
       memoryBubble, memoryStore, memoryLoad, memoryOther, memoryThrow,
       PassToWriteBack, execute, executeBubble, executePlain, executeJump,
       executeSystem, RunExecutor, decode, decodeBubble, decodeInstr,
       decodeThrow, fetch, fetchBubble, fetchInstr, fetchThrow, updateLatches,
       endOfClock, updateThrow, Throw, GoTo

LEMMA IInvStep == IInv /\ [Next]_vars => IInv'
<1> SUFFICES ASSUME IInv, [Next]_vars PROVE IInv'
  OBVIOUS
<1>1. TypeOK' /\ PointersInv' /\ FetchedInv' /\ StopsInv'
  BY TypeStep, PointersStep, FetchedStep, StopsStep DEF IInv
<1>2. phase' # "aborted" => RingInv' /\ LinksInv' /\ DrainInv'
  BY AbortedStays, RingStep, LinksStep, DrainStep DEF IInv
<1>3. LockBalance'
  <2>1. CASE phase' = "aborted"
    BY <2>1 DEF LockBalance
  <2>2. CASE phase' # "aborted"
    BY <2>2, AbortedStays, LockStep DEF IInv
  <2> QED
    BY <2>1, <2>2
<1> QED
  BY <1>1, <1>2, <1>3 DEF IInv

THEOREM Invariance == Spec => []IInv
BY IInvInit, IInvStep, PTL DEF Spec

-----------------------------------------------------------------------------
(* The properties of PerfSimSafety, for every program, register count, pool  *)
(* size of at least three, executor and memory.                              *)

\* Every variable keeps the type the program declares for it.
THEOREM TypeCorrect == Spec => []TypeOK
BY Invariance, PTL DEF IInv

\* The lock counter of a register counts the instructions in flight that will
\* write it, whatever is squashed, stalled or stopped on the way.
THEOREM LocksBalanced == Spec => []LockBalance
BY Invariance, PTL DEF IInv

\* HazardUnit::decode finds a producer for every locked operand: its last line,
\* which returns a default-constructed Register, is never reached.
THEOREM OperandsFound == Spec => []OperandsResolved
<1>1. IInv => OperandsResolved
  <2> SUFFICES ASSUME IInv, phase = "decode", ~stopped(de_st),
                      NEW r \in Reg, is_lock(r)
               PROVE  Produces(de_st.load, r) \/ Produces(em_st.load, r)
    BY DEF OperandsResolved
  <2>1. HeldLocks(r) # 0
    BY DEF IInv, LockBalance, is_lock
  <2>2. Holds(em_st.store, r) = 1 \/ Holds(mw_st.store, r) = 1
    BY <2>1 DEF HeldLocks, LockHolders, Holds, EmptyXS
  <2>3. CASE Holds(em_st.store, r) = 1
    <3>1. /\ Live(em_st.store) /\ Writes(OpOf(em_st.store))
          /\ OpOf(em_st.store).rd = r
      BY <2>3 DEF Holds, Live, OpOf
    <3>2. /\ Live(de_st.load) /\ em_st.store.instr = de_st.load.instr
          /\ de_st.load.hazard_stall => IsSystem(de_st.load)
      BY <3>1 DEF IInv, LinksInv
    <3>3. ~de_st.load.hazard_stall
      BY <3>1, <3>2 DEF IsSystem, OpOf, Writes
    <3> QED
      BY <3>1, <3>2, <3>3 DEF Produces, Valid, Live, OpOf
  <2>4. CASE Holds(mw_st.store, r) = 1
    <3>1. Valid(em_st.load) /\ mw_st.store.instr = em_st.load.instr
      BY <2>4 DEF Holds, Live, IInv, LinksInv
    <3> QED
      BY <2>4, <3>1 DEF Holds, Produces
  <2> QED
    BY <2>2, <2>3, <2>4
<1> QED
  BY <1>1, Invariance, PTL

\* CyclicArray::get_next never hands out an object a latch still points to.
THEOREM SlotsFree == Spec => []NextSlotFree
<1>1. IInv => NextSlotFree
  <2> SUFFICES ASSUME IInv, phase = "decode"
               PROVE  \A b \in {em_st.store, mw_st.store} :
                        Live(b) => b.instr # get_next(fd_st.load.instr.type)
    BY DEF NextSlotFree, Live
  <2>1. fd_st.load.instr.type \in InstrType
    BY LatchShape, DecodedFields DEF IInv, StageOf, FD
  <2> QED
    BY <2>1, SlotFree DEF IInv
<1> QED
  BY <1>1, Invariance, PTL

\* A latch buffer that is processed holds an instruction of the program or a
\* pointer to an object, never what clear() left there.
THEOREM NoEmptyProcessed == Spec => []NothingEmptyProcessed
<1>1. nullptr \notin Pointer
  BY DEF nullptr, Pointer, InstrType
<1>2. IInv => NothingEmptyProcessed
  BY <1>1 DEF IInv, FetchedInv, PointersInv, Points, Live,
              NothingEmptyProcessed
<1> QED
  BY <1>2, Invariance, PTL

\* Behind a system instruction in the memory or write-back stage nothing is
\* processed.
THEOREM SystemDrains == Spec => []DrainBehindSystem
<1>1. IInv => DrainBehindSystem
  <2> SUFFICES ASSUME IInv, phase = "writeBack" PROVE DrainBehindSystem
    BY DEF DrainBehindSystem
  <2>1. de_st.stop_count \in Nat
    BY LatchShape DEF IInv, StageOf
  <2>2. IsSystem(em_st.load) \/ IsSystem(mw_st.load) => stopped(de_st)
    BY <2>1 DEF IInv, DrainInv, stopped
  <2>3. stopped(de_st) => ~Valid(de_st.load)
    BY DEF IInv, StopsInv, Valid
  <2>4. IsSystem(mw_st.load) => ~Valid(em_st.load)
    BY DEF IInv, DrainInv, Valid
  <2> QED
    BY <2>2, <2>3, <2>4 DEF DrainBehindSystem, IsSystem, OpOf, Live, Valid
<1> QED
  BY <1>1, Invariance, PTL

\* The fetch latch and the one it fills stop and resume together.
THEOREM StopsTogether == Spec => []StopsAgree
<1>1. IInv => StopsAgree
  BY DEF IInv, StopsInv, StopsAgree
<1> QED
  BY <1>1, Invariance, PTL
=============================================================================
