------------------------- MODULE PerfSimTraceProofs -------------------------
(***************************************************************************)
(* The trace.txt of a safe program is what the machine of module TracedISA *)
(* writes, and the figures in the Log.txt of an accountable one account    *)
(* for every clock.                                                        *)
(***************************************************************************)
EXTENDS PerfSimTraceInvariant, PerfSimISAProofs, SequenceTheorems

-----------------------------------------------------------------------------
(* The steps of the traced simulator.                                        *)

LEMMA TracedSteps ==
  ASSUME [TracedNext]_tracedVars
  PROVE  /\ [Next]_vars
         /\ \/ retireTraced
            \/ ~retire /\ trace' = trace
            \/ exit
            \/ UNCHANGED vars /\ trace' = trace
<1>1. CASE retireTraced
  BY <1>1 DEF retireTraced, Next, writeBack
<1>2. CASE stageCall
  <2>1. ~retire
    BY <1>2
       DEF stageCall, retire, writeBackBubble, memoryAccess, memoryBubble,
         memoryStore, memoryLoad, memoryOther, memoryThrow, PassToWriteBack,
         execute, executeBubble, executePlain, executeJump, executeSystem,
         RunExecutor, decode, decodeBubble, decodeInstr, decodeThrow, fetch,
         fetchBubble, fetchInstr, fetchThrow, updateLatches, endOfClock,
         updateThrow, Throw, GoTo
  <2> QED
    BY <1>2, <2>1 DEF stageCall, Next, writeBack
<1>3. CASE dump \/ exit \/ exited \/ UNCHANGED tracedVars
  BY <1>3 DEF dump, exit, exited, tracedVars
<1> QED
  BY <1>1, <1>2, <1>3 DEF TracedNext

LEMMA AppendedLine ==
  ASSUME NEW logger \in Flushed, logger.is_open, NEW l \in Lines,
         NEW after, after = endl(print(logger, l))
  PROVE  after \in Flushed /\ after.is_open /\ after.file = Append(logger.file, l)
<1> DEFINE p == [logger EXCEPT !.buffer = Append(@, l)]
<1>0. Append(<<>>, l) = <<l>> /\ logger.buffer = <<>>
  BY DEF Flushed
<1>1. p.is_open /\ p.buffer = <<l>> /\ p.file = logger.file
  BY <1>0 DEF Flushed
<1>2. after = [p EXCEPT !.file = @ \o p.buffer, !.buffer = <<>>]
  BY DEF print, endl
<1>3. DOMAIN p = {"is_open", "buffer", "file"}
  BY DEF Flushed
<1>4. logger.file \o <<l>> = Append(logger.file, l) /\ Append(logger.file, l) \in Seq(Lines)
  BY AppendIsConcat, AppendProperties DEF Flushed
<1> HIDE DEF p
<1>5. after = [is_open |-> TRUE, buffer |-> <<>>, file |-> Append(logger.file, l)]
  BY <1>1, <1>2, <1>3, <1>4
<1> QED
  BY <1>4, <1>5 DEF Flushed

LEMMA ClosedTrace ==
  ASSUME NEW logger \in Flushed, NEW after, after = close(logger)
  PROVE  after \in Flushed /\ after.file = logger.file
<1>1. logger.file \o <<>> = logger.file
  BY ConcatEmptySeq DEF Flushed
<1>2. endl(logger) \in Flushed /\ endl(logger).file = logger.file
  BY <1>1 DEF Flushed, endl
<1> QED
  BY <1>2 DEF close, Flushed

\* Once run() has returned it makes no more steps.
LEMMA StoppedForGood == ASSUME [Next]_vars, phase = "stopped" PROVE UNCHANGED vars
BY DEF Next, vars, finished, writeBack, writeBackBubble, retire, memoryAccess,
       memoryBubble, memoryStore, memoryLoad, memoryOther, memoryThrow,
       PassToWriteBack, execute, executeBubble, executePlain, executeJump,
       executeSystem, RunExecutor, decode, decodeBubble, decodeInstr,
       decodeThrow, fetch, fetchBubble, fetchInstr, fetchThrow, updateLatches,
       endOfClock, updateThrow, Throw, GoTo

\* What retire writes to the trace.
LEMMA RetiredLine ==
  ASSUME IInv, TraceInv, retireTraced,
         NEW i, i = instrs[mw_st.load.instr]
  PROVE  /\ i \in InstructionObject
         /\ trace.is_open /\ trace' \in Flushed /\ trace'.is_open
         /\ trace'.file = IF IsTraced(i) /\ Len(trace.file) < MaxLines
                            THEN Append(trace.file, Line(i)) ELSE trace.file
<1>1. retire /\ phase = "writeBack" /\ Valid(mw_st.load)
  BY DEF retireTraced, retire, GoTo
<1>2. i \in InstructionObject
  BY <1>1 DEF IInv, PointersInv, Points, Live, Valid, TypeOK, HazardUnitTypeOK
<1>3. trace.is_open /\ Line(i) \in Lines
  BY <1>1, <1>2 DEF TraceInv, Lines
<1>4. trace' = IF IsTraced(i) /\ Len(trace.file) < MaxLines
                 THEN endl(print(trace, Line(i))) ELSE trace
  BY DEF retireTraced, dumpInstruction
<1>5. trace \in Flushed
  BY DEF TraceInv
<1>6. CASE IsTraced(i) /\ Len(trace.file) < MaxLines
  BY <1>2, <1>3, <1>4, <1>5, <1>6, AppendedLine
<1>7. CASE ~(IsTraced(i) /\ Len(trace.file) < MaxLines)
  BY <1>2, <1>3, <1>4, <1>5, <1>7
<1> QED
  BY <1>6, <1>7

LEMMA TraceInvInit == TracedInit => TraceInv
<1> SUFFICES ASSUME TracedInit PROVE TraceInv
  OBVIOUS
<1>1. trace = [is_open |-> TRUE, buffer |-> <<>>, file |-> <<>>]
  BY DEF TracedInit, Opened
<1>2. <<>> \in Seq(Lines)
  OBVIOUS
<1> QED
  BY <1>1, <1>2 DEF TraceInv, Flushed

LEMMA TraceInvStep == IInv /\ TraceInv /\ [TracedNext]_tracedVars => TraceInv'
<1> SUFFICES ASSUME IInv, TraceInv, [TracedNext]_tracedVars PROVE TraceInv'
  OBVIOUS
<1>1. phase' # "stopped" => phase # "stopped"
  BY TracedSteps, StoppedForGood DEF vars
<1>2. CASE retireTraced
  BY <1>2, RetiredLine DEF TraceInv
<1>3. CASE trace' = trace
  BY <1>1, <1>3 DEF TraceInv
<1>4. CASE exit
  <2>1. phase' = "stopped" /\ trace' = close(trace)
    BY <1>4 DEF exit, vars
  <2> QED
    BY <2>1, ClosedTrace DEF TraceInv
<1> QED
  BY <1>2, <1>3, <1>4, TracedSteps

\* The ECALL that ends the run is the last instruction to retire.
LEMMA HaltedInvInit == Init => HaltedInv
BY DEF Init, HaltedInv

LEMMA HaltedInvStep == AllInv /\ HaltedInv /\ [Next]_vars => HaltedInv'
<1> SUFFICES ASSUME AllInv, HaltedInv, [Next]_vars PROVE HaltedInv'
  OBVIOUS
<1>1. CASE UNCHANGED <<phase, is_stop, mw_st>>
  BY <1>1 DEF HaltedInv, Valid, Live
<1>2. CASE \E from \in {"memoryAccess", "decode", "fetch", "update"} : Throw(from)
  BY <1>2 DEF HaltedInv, Throw, GoTo, Late
<1>3. CASE phase # "aborted" /\ ~UNCHANGED vars
  <2>1. TypeOK /\ PointersInv /\ StopsInv /\ HaltInv
    BY <1>3, FlowParts
  <2>2. CASE writeBack
    BY <1>3, <2>2, WriteBackFull DEF HaltedInv, Late
  <2>3. CASE memoryBubble
    BY <2>1, <2>3, MemoryBubbleEffect DEF HaltedInv, Late
  <2>4. CASE memoryStore \/ memoryLoad \/ memoryOther
    <3>1. phase = "memoryAccess" /\ phase' = "execute" /\ Valid(em_st.load) /\ is_stop' = is_stop
      BY <2>4, PassFull
    <3>2. ~is_stop
      BY <2>1, <3>1 DEF HaltInv, Valid, Live
    <3> QED
      BY <3>1, <3>2 DEF HaltedInv
  <2>5. CASE executeBubble \/ executePlain \/ executeJump \/ executeSystem
    <3>1. /\ phase = "execute" /\ phase' = "decode"
          /\ mw_st' = mw_st /\ is_stop' = is_stop
      BY <2>1, <2>5, ExecuteFull DEF executeBubble, GoTo
    <3> QED
      BY <3>1 DEF HaltedInv, Live
  <2>6. CASE decodeBubble \/ decodeInstr \/ fetchBubble \/ fetchInstr
    <3>1. /\ phase \in {"decode", "fetch"} /\ phase' \in {"fetch", "update"}
          /\ mw_st' = mw_st /\ is_stop' = is_stop
      BY <2>6, DecodeSafe DEF decodeBubble, decodeInstr, fetchBubble, fetchInstr, GoTo
    <3> QED
      BY <3>1 DEF HaltedInv, Live, Late
  <2>7. CASE endOfClock
    <3>1. /\ phase = "update" /\ phase' = IF is_stop THEN "stopped" ELSE "writeBack"
          /\ is_stop' = is_stop /\ mw_st'.load = mw_st.store
      BY <2>1, <2>7, ClockFull
    <3> QED
      BY <3>1 DEF HaltedInv, Live, Valid, Late
  <2> QED
    BY <1>2, <1>3, <2>2, <2>3, <2>4, <2>5, <2>6, <2>7, ClockSteps
<1>4. CASE phase = "aborted" \/ UNCHANGED vars
  <2>1. CASE phase = "aborted"
    BY <2>1, AbortedStays DEF HaltedInv, Late
  <2>2. CASE UNCHANGED vars
    BY <1>1, <2>2 DEF vars, latches
  <2> QED
    BY <1>4, <2>1, <2>2
<1> QED
  BY <1>3, <1>4

-----------------------------------------------------------------------------
(* The line that is owed.  The memory stage owes it, writeBack writes it.    *)

LEMMA OwedKept ==
  ASSUME Doomed' <=> Doomed,
         AtWriteBack' = AtWriteBack,
         Valid(AtWriteBack) => Obj(AtWriteBack)' = Obj(AtWriteBack)
  PROVE  Owed' = Owed
<1>1. /\ Valid(AtWriteBack)' = Valid(AtWriteBack)
      /\ Valid(AtWriteBack) => Retiring' = Retiring
  BY DEF Retiring, Obj, Valid
<1> QED
  BY <1>1 DEF Owed

LEMMA OwedEmpty == ASSUME ~Valid(AtWriteBack) PROVE Owed = <<>>
BY DEF Owed

LEMMA OwedEmptyKept ==
  ASSUME ~Valid(AtWriteBack), ~Valid(AtWriteBack)'
  PROVE  Owed' = Owed
BY DEF Owed

\* From the memory stage to the end of the clock nothing touches the object that
\* is on its way to writeBack.
LEMMA RetiringKept ==
  ASSUME AllInv, phase # "aborted",
         \/ executeBubble \/ executePlain \/ executeJump \/ executeSystem
         \/ decodeBubble \/ decodeInstr \/ fetchBubble \/ fetchInstr
         \/ endOfClock
         \/ \E from \in {"memoryAccess", "decode", "fetch", "update"} : Throw(from)
  PROVE  /\ AtWriteBack' = AtWriteBack
         /\ Valid(AtWriteBack) => Obj(AtWriteBack)' = Obj(AtWriteBack)
         /\ Doomed' <=> Doomed
<1>0. /\ TypeOK /\ PointersInv /\ StopsInv /\ HandedInv /\ DistinctInv /\ NoLoadStall
      /\ instrs \in [Pointer -> InstructionObject]
  BY FlowParts DEF TypeOK, HazardUnitTypeOK
<1>1. CASE executeBubble
  BY <1>1 DEF executeBubble, GoTo, AtWriteBack, Obj, Doomed
<1>2. CASE executePlain \/ executeJump \/ executeSystem
  <2> DEFINE d == de_st.load.instr
  <2>1. /\ phase = "execute" /\ phase' = "decode"
        /\ Valid(de_st.load) /\ d \in Pointer
        /\ UNCHANGED <<mw_st, store>>
        /\ instrs' = [instrs EXCEPT ![d] = Executed(instrs[d])]
    BY <1>0, <1>2, ExecuteFull
  <2>2. AtWriteBack = mw_st.store /\ AtWriteBack' = mw_st.store
    BY <2>1 DEF AtWriteBack
  <2>3. Valid(mw_st.store) => mw_st.store.instr \in Pointer \ {d}
    BY <1>0, <2>1 DEF HandedInv, Middle, DistinctInv, PointersInv, Points, Valid, Live
  <2> QED
    BY <1>0, <2>1, <2>2, <2>3 DEF Obj, Doomed
<1>3. CASE decodeBubble
  BY <1>3 DEF decodeBubble, GoTo, AtWriteBack, Obj, Doomed
<1>4. CASE decodeInstr
  <2> DEFINE p == get_next(fd_st.load.instr.type)
  <2>1. /\ phase = "decode" /\ phase' = "fetch" /\ UNCHANGED mw_st
        /\ p \in Pointer
        /\ instrs' = [instrs EXCEPT ![p] = Decoded(p, fd_st.load.instr, fd_st.load.pc)]
        /\ Live(mw_st.store) => mw_st.store.instr # p
    BY <1>4, DecodeSafe
  <2>2. UNCHANGED store
    BY <1>4 DEF decodeInstr
  <2> HIDE DEF p
  <2>3. AtWriteBack = mw_st.store /\ AtWriteBack' = mw_st.store
    BY <2>1 DEF AtWriteBack
  <2> QED
    BY <1>0, <2>1, <2>2, <2>3 DEF Obj, Doomed, PointersInv, Points, Valid, Live
<1>5. CASE fetchBubble \/ fetchInstr
  BY <1>5 DEF fetchBubble, fetchInstr, GoTo, AtWriteBack, Obj, Doomed
<1>6. CASE endOfClock
  <2>1. /\ phase = "update" /\ phase' \in {"stopped", "writeBack"}
        /\ UNCHANGED instrs /\ mw_st'.load = mw_st.store
    BY <1>0, <1>6, ClockFull
  <2>2. ~Doomed /\ ~Doomed'
    BY <1>6 DEF endOfClock, Doomed, NoStore
  <2> QED
    BY <2>1, <2>2 DEF AtWriteBack, Obj
<1>7. CASE \E from \in {"memoryAccess", "decode", "fetch", "update"} : Throw(from)
  BY <1>7 DEF Throw, GoTo, AtWriteBack, Obj, Doomed, latches
<1> QED
  BY <1>1, <1>2, <1>3, <1>4, <1>5, <1>6, <1>7

\* writeBack writes the line that is owed.
LEMMA OwedRetires ==
  ASSUME AllInv, TraceInv, phase # "aborted", retireTraced
  PROVE  /\ Owed' = <<>> /\ trace.is_open /\ trace'.is_open
         /\ IF Owed = <<>>
              THEN trace'.file = trace.file
              ELSE trace'.file = IF Len(trace.file) < MaxLines
                                   THEN trace.file \o Owed ELSE trace.file
<1> DEFINE i == instrs[mw_st.load.instr]
<1>0. FreshInv /\ IInv
  BY FlowParts DEF AllInv
<1>1. retire /\ phase = "writeBack" /\ Valid(mw_st.load)
  BY DEF retireTraced, retire, GoTo
<1>2. AtWriteBack' = mw_st.store /\ ~Valid(mw_st.store) /\ UNCHANGED mw_st
  BY <1>1, WriteBackFull DEF writeBack, Valid, Live
<1>3. store = NoStore
  BY <1>0, <1>1 DEF FreshInv
<1>4. AtWriteBack = mw_st.load /\ Retiring = i /\ ~Doomed
  BY <1>1, <1>3 DEF AtWriteBack, Retiring, Doomed, NoStore
<1>5. Owed = IF IsTraced(i) THEN <<Line(i)>> ELSE <<>>
  BY <1>1, <1>4 DEF Owed
<1>6. /\ i \in InstructionObject /\ trace.is_open /\ trace'.is_open
      /\ trace'.file = IF IsTraced(i) /\ Len(trace.file) < MaxLines
                         THEN Append(trace.file, Line(i)) ELSE trace.file
  BY <1>0, RetiredLine
<1>7. Append(trace.file, Line(i)) = trace.file \o <<Line(i)>>
  BY <1>6, AppendIsConcat DEF TraceInv, Flushed, Lines
<1>8. Owed' = <<>>
  BY <1>2 DEF Owed, Valid
<1> QED
  BY <1>5, <1>6, <1>7, <1>8

\* A bubble writes nothing, and none is behind it.
LEMMA OwedBubble ==
  ASSUME AllInv, phase # "aborted", writeBackBubble \/ memoryBubble
  PROVE  Owed' = Owed
<1>0. FreshInv /\ NoLoadStall /\ TypeOK
  BY FlowParts
<1>1. CASE writeBackBubble
  BY <1>1, OwedEmptyKept, WriteBackFull
     DEF writeBackBubble, GoTo, writeBack, AtWriteBack, Valid, Live
<1>2. CASE memoryBubble
  BY <1>0, <1>2, OwedEmptyKept, MemoryBubbleEffect
     DEF memoryBubble, GoTo, AtWriteBack, FreshInv, Valid, Live
<1> QED
  BY <1>1, <1>2

-----------------------------------------------------------------------------
(* The refinement.                                                           *)

\* The operators of both abstract machines are those of Instruction and Trace.
LEMMA TracedFields ==
  ASSUME NEW w
  PROVE  /\ Traced!Writes(w) <=> Writes(w)
         /\ Traced!ReadsRs1(w) <=> ReadsRs1(w)
         /\ Traced!ReadsRs2(w) <=> ReadsRs2(w)
         /\ Traced!is_load(w) <=> is_load(w)
         /\ Traced!IsStore(w) <=> IsStore(w)
BY DEF Traced!Writes, Writes, Traced!ReadsRs1, ReadsRs1, Traced!ReadsRs2, ReadsRs2,
       Traced!is_load, is_load, Traced!IsStore, IsStore

LEMMA TracedOperators ==
  ASSUME NEW i
  PROVE  /\ Traced!Executed(i) = Executed(i)
         /\ Traced!Jumps(i) <=> Jumps(i)
         /\ Traced!IsTraced(i) <=> IsTraced(i)
         /\ Traced!Line(i) = Line(i)
<1>1. /\ Traced!Executed(i) = Executed(i)
      /\ Traced!Jumps(i) <=> Jumps(i)
  BY DEF Traced!Executed, Executed, Traced!Jumps, Jumps, Traced!IsLink, IsLink,
         Traced!IsArithmetic, IsArithmetic, Traced!Plus, Plus
<1>2. Traced!IsTraced(i) <=> IsTraced(i)
  BY DEF Traced!IsTraced, IsTraced
<1>3. Traced!Line(i) = Line(i)
  BY TracedFields DEF Traced!Line, Line, Traced!Column, Column
<1> QED
  BY <1>1, <1>2, <1>3

LEMMA TracedCurrent == Traced!Current = Arch!Current
<1>1. Traced!NewInstruction = Arch!NewInstruction
  BY DEF Traced!NewInstruction, Arch!NewInstruction, Traced!ZeroWord, Arch!ZeroWord
<1>2. \A i : Traced!Executed(i) = Arch!Executed(i)
  BY TracedOperators, ArchOperators
<1> DEFINE w == prog[ArchPc]
           a1 == IF Arch!ReadsRs1(w) THEN ArchRegs[w.rs1] ELSE 0
           a2 == IF Arch!ReadsRs2(w) THEN ArchRegs[w.rs2] ELSE 0
           t1 == IF Traced!ReadsRs1(w) THEN ArchRegs[w.rs1] ELSE 0
           t2 == IF Traced!ReadsRs2(w) THEN ArchRegs[w.rs2] ELSE 0
           object(new, v1, v2) == [new EXCEPT !.op = w, !.pc = ArchPc, !.rs1 = v1,
                                              !.rs2 = v2, !.rd = ArchRegs[w.rd]]
<1>3. Arch!Current = Arch!Executed(object(Arch!NewInstruction, a1, a2))
  BY DEF Arch!Current
<1>4. Traced!Current = Traced!Executed(object(Traced!NewInstruction, t1, t2))
  BY DEF Traced!Current
<1>5. t1 = a1 /\ t2 = a2
  BY DEF Traced!ReadsRs1, Arch!ReadsRs1, Traced!ReadsRs2, Arch!ReadsRs2
<1> HIDE DEF a1, a2, t1, t2, object
<1> QED
  BY <1>1, <1>2, <1>3, <1>4, <1>5

LEMMA TracedStep ==
  /\ Traced!Result(Traced!Current) = Arch!Result(Arch!Current)
  /\ Traced!Step <=> Arch!Step
  /\ Traced!Init <=> Arch!Init
<1> DEFINE f == Arch!Current
<1>1. Traced!Current = f
  BY TracedCurrent
<1>2. Traced!Result(f) = Arch!Result(f)
  BY TracedFields, ArchFields DEF Traced!Result, Arch!Result
<1>3. /\ Traced!Writes(f.op) <=> Arch!Writes(f.op)
      /\ Traced!IsStore(f.op) <=> Arch!IsStore(f.op)
      /\ Traced!Jumps(f) <=> Arch!Jumps(f)
      /\ Traced!Plus(ArchPc, 1) = Arch!Plus(ArchPc, 1)
      /\ Traced!Address = Arch!Address
  BY TracedFields, ArchFields, TracedOperators, ArchOperators
     DEF Traced!Plus, Arch!Plus, Traced!Address, Arch!Address
<1> HIDE DEF f
<1>4. Traced!Step <=> Arch!Step
  BY <1>1, <1>2, <1>3 DEF Traced!Step, Arch!Step, f
<1>5. Traced!Init <=> Arch!Init
  BY DEF Traced!Init, Arch!Init
<1> QED
  BY <1>1, <1>2, <1>4, <1>5 DEF f

\* The line of the instruction the memory stage carries out is the one the
\* abstract machine writes.
LEMMA LineAgrees ==
  ASSUME AllInv, NoAccessWraps, memoryStore \/ memoryLoad \/ memoryOther,
         NEW y, y = instrs'[em_st.load.instr],
         NEW f, f = Arch!Current
  PROVE  /\ IsTraced(f) <=> IsTraced(y)
         /\ Line([f EXCEPT !.rd = Arch!Result(f)]) = Line(y)
<1> DEFINE d == em_st.load.instr
           x == Obj(em_st.load)
<1>1. /\ phase = "memoryAccess" /\ Valid(em_st.load) /\ x \in InstructionObject
      /\ d \in Pointer
      /\ IF is_load(x.op)
           THEN /\ InBounds(x.addr)
                /\ \E v \in ReadFrom(x.addr) : instrs'[d] = [x EXCEPT !.rd = v]
           ELSE instrs' = instrs
  BY PassFull DEF Obj
<1>2. /\ f \in InstructionObject /\ f.op = x.op /\ f.pc = x.pc
      /\ ReadsRs1(x.op) => f.rs1 = x.rs1
      /\ ReadsRs2(x.op) => f.rs2 = x.rs2
      /\ Writes(x.op) /\ ~is_load(x.op) => f.rd = x.rd
      /\ x.op.mem_acc_type # "NONE" => f.addr = x.addr
      /\ ArchMem = mem
  BY <1>1, CurrentAgrees
<1>3. CASE is_load(x.op)
  <2>1. x.addr \in Address
    BY <1>1, <1>3 DEF NoAccessWraps, Wraps, Obj, is_load
  <2>2. y = [x EXCEPT !.rd = mem[x.addr]]
    BY <1>1, <1>3, <2>1 DEF ReadFrom
  <2>3. Arch!Result(f) = mem[x.addr]
    BY <1>2, <1>3, ArchFields DEF Arch!Result, is_load
  <2> QED
    BY <1>1, <1>2, <2>2, <2>3 DEF Line, Column, IsTraced, InstructionObject
<1>4. CASE ~is_load(x.op)
  <2>1. y = x
    BY <1>1, <1>4 DEF Obj
  <2>2. Arch!Result(f) = f.rd
    BY <1>2, <1>4, ArchFields DEF Arch!Result
  <2> QED
    BY <1>1, <1>2, <1>4, <2>1, <2>2 DEF Line, Column, IsTraced, InstructionObject
<1> QED
  BY <1>3, <1>4

LEMMA PassTraced ==
  ASSUME AllInv, NoAccessWraps, phase # "aborted",
         memoryStore \/ memoryLoad \/ memoryOther,
         trace' = trace
  PROVE  [Traced!TracedNext]_Traced!tracedVars
<1> DEFINE d == em_st.load.instr
           f == Arch!Current
           l == Line([f EXCEPT !.rd = Arch!Result(f)])
<1>1. /\ ~Live(mw_st.store) /\ AtWriteBack = mw_st.store
      /\ AtWriteBack' = mw_st'.store
      /\ Valid(mw_st'.store) /\ mw_st'.store.instr = d
  BY PassFull
<1>2. Owed = <<>>
  BY <1>1 DEF Owed, Valid, Live
<1>3. Valid(AtWriteBack)' /\ Retiring' = instrs'[d]
  BY <1>1 DEF Retiring, Valid
<1>4. (IsTraced(f) <=> IsTraced(instrs'[d])) /\ l = Line(instrs'[d])
  BY LineAgrees
<1>5. CASE Doomed'
  <2>1. UNCHANGED ArchVars
    BY <1>5, PassRefines
  <2>2. Owed' = <<>>
    BY <1>5 DEF Owed
  <2> QED
    BY <1>2, <2>1, <2>2 DEF ArchVars, Traced!tracedVars, Traced!vars
<1>6. CASE ~Doomed'
  <2>1. Arch!Step
    BY <1>6, PassRefines
  <2>2. Owed' = IF IsTraced(f) THEN <<l>> ELSE <<>>
    BY <1>3, <1>4, <1>6 DEF Owed
  <2>3. /\ Traced!Step /\ Traced!Current = f /\ Traced!Result(f) = Arch!Result(f)
        /\ Traced!IsTraced(f) <=> IsTraced(f)
        /\ Traced!Line([f EXCEPT !.rd = Arch!Result(f)]) = l
    BY <2>1, TracedStep, TracedCurrent, TracedOperators
  <2> HIDE DEF f, l
  <2>4. Traced!TraceStep
    BY <1>2, <2>2, <2>3 DEF Traced!TraceStep, l
  <2> QED
    BY <2>4 DEF Traced!TracedNext
<1> QED
  BY <1>5, <1>6

\* main returns: the machine has halted and owes no line.
LEMMA ExitTraced ==
  ASSUME TraceInv, HaltedInv, exit
  PROVE  [Traced!TracedNext]_Traced!tracedVars
<1>1. phase = "stopped" /\ UNCHANGED vars /\ trace' = close(trace)
  BY DEF exit
<1>2. UNCHANGED ArchVars /\ UNCHANGED <<phase, mw_st, instrs, store>>
  BY <1>1, StillStutter DEF vars, latches
<1>3. Owed = <<>> /\ Owed' = <<>>
  <2>1. ~Valid(AtWriteBack)
    BY <1>1 DEF HaltedInv, AtWriteBack
  <2>2. ~Valid(AtWriteBack)'
    BY <1>2, <2>1 DEF AtWriteBack, Valid
  <2> QED
    BY <2>1, <2>2, OwedEmpty DEF Owed
<1>4. ArchHalted
  BY <1>1 DEF HaltedInv, ArchHalted
<1>5. trace'.file = trace.file /\ ~trace'.is_open
  <2>1. trace'.file = trace.file
    BY <1>1, ClosedTrace DEF TraceInv
  <2>2. trace' = [endl(trace) EXCEPT !.is_open = FALSE] /\ "is_open" \in DOMAIN endl(trace)
    BY <1>1 DEF close, endl, TraceInv, Flushed
  <2> QED
    BY <2>1, <2>2
<1>6. Traced!Close
  BY <1>2, <1>3, <1>4, <1>5 DEF Traced!Close, Traced!vars, ArchVars
<1> QED
  BY <1>6 DEF Traced!TracedNext

\* A line is written.
LEMMA RetireTraced ==
  ASSUME AllInv, TraceInv, phase # "aborted", retireTraced
  PROVE  [Traced!TracedNext]_Traced!tracedVars
<1>1. UNCHANGED ArchVars
  BY StillWriteBack DEF retireTraced, writeBack
<1>2. CASE Owed = <<>>
  BY <1>1, <1>2, OwedRetires DEF ArchVars, Traced!tracedVars, Traced!vars
<1>3. CASE Owed # <<>>
  <2>1. Traced!WriteLine
    BY <1>1, <1>3, OwedRetires DEF Traced!WriteLine, Traced!vars, ArchVars
  <2> QED
    BY <2>1 DEF Traced!TracedNext
<1> QED
  BY <1>2, <1>3

LEMMA TracedStepRefines ==
  ASSUME AllInv, TraceInv, HaltedInv, NoAccessWraps, [TracedNext]_tracedVars
  PROVE  [Traced!TracedNext]_Traced!tracedVars
<1>1. [Next]_vars
  BY TracedSteps
<1>2. CASE exit
  BY <1>2, ExitTraced
<1>3. CASE UNCHANGED vars /\ trace' = trace
  <2>1. UNCHANGED <<phase, mw_st, instrs, store>>
    BY <1>3 DEF vars, latches
  <2>2. Owed' = Owed
    BY <2>1, OwedKept DEF AtWriteBack, Doomed, Obj
  <2> QED
    BY <1>3, <2>2, StillStutter DEF ArchVars, Traced!tracedVars, Traced!vars
<1>4. CASE ~UNCHANGED vars
  <2>1. phase # "aborted"
    BY <1>1, <1>4
       DEF Next, vars, finished, writeBack, writeBackBubble, retire, memoryAccess,
         memoryBubble, memoryStore, memoryLoad, memoryOther, memoryThrow,
         PassToWriteBack, execute, executeBubble, executePlain, executeJump,
         executeSystem, RunExecutor, decode, decodeBubble, decodeInstr,
         decodeThrow, fetch, fetchBubble, fetchInstr, fetchThrow, updateLatches,
         endOfClock, updateThrow, Throw, GoTo
  <2>2. CASE retireTraced
    BY <2>1, <2>2, RetireTraced
  <2>3. CASE trace' = trace /\ (memoryStore \/ memoryLoad \/ memoryOther)
    BY <2>1, <2>3, PassTraced
  <2>4. CASE ~retire /\ trace' = trace /\ ~(memoryStore \/ memoryLoad \/ memoryOther)
    <3>1. UNCHANGED ArchVars
      BY <1>1, <1>4, <2>1, <2>4, ClockSteps, StillWriteBack, StillMemoryBubble,
         StillExecuteBubble, StillRun, StillDecode, StillFetch, StillClock, StillThrow
    <3>2. writeBackBubble \/ memoryBubble => Owed' = Owed
      BY <2>1, OwedBubble
    <3>3. ~(writeBackBubble \/ memoryBubble) => Owed' = Owed
      BY <1>1, <1>4, <2>1, <2>4, ClockSteps, RetiringKept, OwedKept DEF writeBack
    <3> QED
      BY <2>4, <3>1, <3>2, <3>3 DEF ArchVars, Traced!tracedVars, Traced!vars
  <2> QED
    BY <1>4, <2>2, <2>3, <2>4, TracedSteps DEF exit
<1> QED
  BY <1>2, <1>3, <1>4, TracedSteps DEF retireTraced, retire, vars, GoTo

\* For every safe program whose accesses do not wrap, trace.txt holds at every
\* moment the lines of the instructions that have retired, as the machine executes
\* them that carries out one after the other: each once, in order, with its operands
\* and its result.  Each retires before the next one takes effect, and all have
\* retired when main returns; after an exception at most one line is missing.
THEOREM TraceRefinement ==
  TracedSpec /\ SafeProgram(prog) /\ []NoAccessWraps => TracesISA
<1>1. TracedInit => Init
  BY DEF TracedInit
<1>2. AllInv /\ [TracedNext]_tracedVars => AllInv'
  BY AllInvStep, TracedSteps
<1>3. AllInv /\ TraceInv /\ [TracedNext]_tracedVars => TraceInv'
  BY TraceInvStep DEF AllInv
<1>4. AllInv /\ HaltedInv /\ [TracedNext]_tracedVars => HaltedInv'
  BY HaltedInvStep, TracedSteps
<1>5. AllInv /\ TraceInv /\ HaltedInv /\ NoAccessWraps /\ [TracedNext]_tracedVars
        => [Traced!TracedNext]_Traced!tracedVars
  BY TracedStepRefines
<1>6. TracedInit => Traced!TracedInit
  <2> SUFFICES ASSUME TracedInit PROVE Traced!TracedInit
    OBVIOUS
  <2>1. Traced!Init
    BY <1>1, ISAInit, TracedStep
  <2>2. ~Valid(AtWriteBack) /\ trace.file = <<>> /\ trace.is_open
    BY DEF TracedInit, Init, AtWriteBack, EmptyStage, EmptyXS, Valid, Opened
  <2> QED
    BY <2>1, <2>2, OwedEmpty DEF Traced!TracedInit
<1> QED
  BY <1>1, <1>2, <1>3, <1>4, <1>5, <1>6, AllInvInit, TraceInvInit, HaltedInvInit, PTL
     DEF TracedSpec, TracesISA, Traced!TracedSpec

-----------------------------------------------------------------------------
(* The accounting.  AccountInv, one lemma per step of the clock.             *)

Account == IInv /\ UsageInv /\ AccountInv

LEMMA AccountParts ==
  ASSUME Account, Accountable, phase # "aborted"
  PROVE  /\ TypeOK /\ PointersInv /\ FetchedInv /\ StopsInv /\ DrainInv
         /\ FreshInv /\ HandedInv
         /\ SquashInv /\ FrontInv /\ BackInv /\ OrderInv /\ OpsInv /\ EndInv /\ CountInv
         /\ instrs \in [Pointer -> InstructionObject]
         /\ clocks \in Nat /\ ic \in Nat /\ hu.branches \in Nat /\ hu.stops \in Nat
         /\ hu \in Counters
<1>1. TypeOK
  BY DEF Account, IInv
<1>2. /\ clocks \in Nat /\ ic \in Nat /\ hu.branches \in Nat /\ hu.stops \in Nat
      /\ hu \in Counters /\ instrs \in [Pointer -> InstructionObject]
  BY <1>1, MaxCountAssumption DEF TypeOK, HazardUnitTypeOK, Counters
<1> QED
  BY <1>1, <1>2 DEF Account, IInv, UsageInv, AccountInv

\* The parts that are not about numbers hold from one clock to the execute stage.
LEMMA EarlyKept ==
  ASSUME Account, Accountable, phase \in Early, phase' \in Early,
         UNCHANGED <<wf_st, fd_st, de_st, prog>>, em_st'.store = em_st.store,
         \A p \in Pointer : instrs'[p].op = instrs[p].op /\ instrs'[p].pc = instrs[p].pc
  PROVE  SquashInv' /\ FrontInv' /\ BackInv' /\ OrderInv' /\ OpsInv'
<1>0. /\ SquashInv /\ FrontInv /\ BackInv /\ OrderInv /\ OpsInv /\ PointersInv
  BY AccountParts DEF Early
<1>1. SquashInv' /\ FrontInv' /\ BackInv'
  BY <1>0 DEF SquashInv, FrontInv, BackInv, Early, Late, Valid, Live, stopped
<1>2. OrderInv'
  BY <1>0 DEF OrderInv, Running, Early, Late, Valid, Live, FetchPc, OfProgram, Obj,
              PointersInv, Points
<1>3. OpsInv'
  BY <1>0 DEF OpsInv
<1> QED
  BY <1>1, <1>2, <1>3

\* A processed ECALL is the only system instruction there is.
LEMMA SysIsECALL ==
  ASSUME Account, Accountable, phase # "aborted", NEW p \in Pointer,
         instrs[p].op.type = "SYSTEM"
  PROVE  instrs[p].op.name = "ECALL"
BY AccountParts DEF OpsInv, Accountable, ZeroWord

LEMMA AccountWriteBack ==
  ASSUME Account, Accountable, phase # "aborted", clocks < MaxCount, writeBack
  PROVE  AccountInv'
<1>0. /\ TypeOK /\ PointersInv /\ DrainInv /\ HandedInv
      /\ BackInv /\ EndInv /\ CountInv
      /\ clocks \in Nat /\ ic \in Nat /\ hu.branches \in Nat /\ hu.stops \in Nat
      /\ instrs \in [Pointer -> InstructionObject]
  BY AccountParts
<1>1. /\ phase = "writeBack" /\ phase' = "memoryAccess"
      /\ UNCHANGED <<wf_st, fd_st, de_st, em_st, mw_st, instrs, hu, clocks, prog>>
  BY DEF writeBack, writeBackBubble, retire, GoTo, latches
<1>2. SquashInv' /\ FrontInv' /\ BackInv' /\ OrderInv' /\ OpsInv'
  BY <1>1, EarlyKept DEF Early
<1>3. \/ ~Valid(mw_st.load) /\ ic' = ic /\ is_stop' = is_stop
      \/ /\ Valid(mw_st.load) /\ ic' = Bump(ic, 1)
         /\ is_stop' = (is_stop \/ instrs[mw_st.load.instr].op.name = "ECALL")
  BY DEF writeBack, writeBackBubble, retire
<1>4. ~is_stop
  BY <1>0, <1>1 DEF EndInv
<1>5. is_stop' => IsSystem(mw_st.load) /\ Valid(mw_st.load)
  <2> SUFFICES ASSUME is_stop' PROVE IsSystem(mw_st.load) /\ Valid(mw_st.load)
    OBVIOUS
  <2>1. Valid(mw_st.load) /\ instrs[mw_st.load.instr].op.name = "ECALL"
    BY <1>3, <1>4
  <2>2. instrs[mw_st.load.instr].op \in Instructions
    BY <1>0, <2>1 DEF PointersInv, Points, Valid, Live, InstructionObject
  <2> QED
    BY <2>1, <2>2, RecognizedAssumption DEF IsSystem, OpOf, Valid, Live
<1>6. is_stop' => stopped(de_st)
  BY <1>0, <1>1, <1>5, LatchShape DEF DrainInv, stopped, StageOf
<1>7. EndInv'
  BY <1>0, <1>1, <1>6 DEF EndInv, BackInv, Early, Live, stopped
<1>8. Sys(mw_st.load) => is_stop' /\ ~Sys(em_st.load)
  BY <1>0, <1>1, <1>3, SysIsECALL
     DEF Sys, DrainInv, PointersInv, Points, Valid, Live, IsSystem, OpOf
<1>9. CountInv'
  <2>1. Valid(mw_st.load) => Accounted <= clocks + 3
    BY <1>0, <1>1 DEF CountInv, Bubble
  <2>2. Valid(mw_st.load) => ic' = ic + 1
    BY <1>0, <1>3, <2>1, MaxCountAssumption DEF Accounted, Bump
  <2>3. Accounted' = Accounted + (1 - Bubble(mw_st.load))
    BY <1>0, <1>1, <1>3, <2>2 DEF Accounted, Bubble
  <2>4. /\ Sys(em_st.load)' <=> Sys(em_st.load)
        /\ Bubble(em_st.load)' = Bubble(em_st.load)
        /\ Bubble(de_st.load)' = Bubble(de_st.load)
        /\ Bubble(fd_st.load)' = Bubble(fd_st.load)
        /\ stopped(de_st)' <=> stopped(de_st)
    BY <1>1 DEF Sys, OpOf, Bubble, Valid, stopped
  <2>5. Accounted \in Nat
    BY <1>0 DEF Accounted
  <2>6. CASE stopped(de_st)
    <3>1. \/ Sys(em_st.load) /\ Accounted = clocks + Bubble(mw_st.load)
          \/ Sys(mw_st.load) /\ Accounted = clocks
      BY <1>0, <1>1, <2>6 DEF CountInv
    <3>2. Sys(mw_st.load) => Bubble(mw_st.load) = 0
      BY DEF Sys, Bubble
    <3>3. (Sys(em_st.load) \/ is_stop') /\ Accounted' = clocks + 1
      BY <1>0, <1>8, <2>3, <3>1, <3>2 DEF Bubble
    <3> QED
      BY <1>1, <2>4, <2>6, <3>3 DEF CountInv, Late
  <2>7. CASE ~stopped(de_st)
    BY <1>0, <1>1, <2>3, <2>4, <2>7 DEF CountInv, Late, Bubble
  <2> QED
    BY <2>6, <2>7
<1> QED
  BY <1>2, <1>7, <1>9 DEF AccountInv

\* The memory stage leaves the numbers and the latches in front of it alone.
LEMMA AccountMemory ==
  ASSUME Account, Accountable, phase # "aborted",
         memoryBubble \/ memoryStore \/ memoryLoad \/ memoryOther
  PROVE  AccountInv'
<1>0. /\ EndInv /\ CountInv /\ instrs \in [Pointer -> InstructionObject] /\ PointersInv
  BY AccountParts
<1>1. /\ phase = "memoryAccess" /\ phase' = "execute"
      /\ UNCHANGED <<wf_st, fd_st, de_st, em_st, hu, clocks, ic, is_stop, prog>>
  BY DEF memoryBubble, memoryStore, memoryLoad, memoryOther, PassToWriteBack, GoTo
<1>2. \A p \in Pointer : instrs'[p].op = instrs[p].op /\ instrs'[p].pc = instrs[p].pc
  <2>1. CASE memoryBubble \/ memoryStore \/ memoryOther
    BY <2>1 DEF memoryBubble, memoryStore, memoryOther
  <2>2. CASE memoryLoad
    <3>1. PICK v : instrs' = [instrs EXCEPT ![em_st.load.instr].rd = v]
      BY <2>2 DEF memoryLoad
    <3> QED
      BY <1>0, <3>1 DEF InstructionObject
  <2> QED
    BY <2>1, <2>2
<1>3. SquashInv' /\ FrontInv' /\ BackInv' /\ OrderInv' /\ OpsInv'
  BY <1>1, <1>2, EarlyKept DEF Early
<1>4. EndInv'
  BY <1>0, <1>1, <1>3 DEF EndInv, BackInv, Early, stopped
<1>5. CountInv'
  <2>1. Sys(em_st.load)' <=> Sys(em_st.load)
    BY <1>0, <1>1, <1>2 DEF Sys, OpOf, Valid, PointersInv, Points, Live
  <2> QED
    BY <1>0, <1>1, <2>1 DEF CountInv, Late, Accounted, Bubble, Valid, stopped
<1> QED
  BY <1>3, <1>4, <1>5 DEF AccountInv

\* A bubble in the execute stage, one behind a system instruction included.
LEMMA AccountExecuteBubble ==
  ASSUME Account, Accountable, phase # "aborted", executeBubble
  PROVE  AccountInv'
<1>0. /\ TypeOK /\ HandedInv /\ PointersInv
      /\ SquashInv /\ FrontInv /\ BackInv /\ OrderInv /\ OpsInv /\ EndInv /\ CountInv
      /\ clocks \in Nat
  BY AccountParts
<1>1. /\ phase = "execute" /\ phase' = "decode" /\ ~Valid(de_st.load)
      /\ em_st' = [em_st EXCEPT !.store.is_stall = TRUE]
      /\ UNCHANGED <<wf_st, fd_st, de_st, mw_st, instrs, hu, clocks, ic, is_stop, prog>>
  BY DEF executeBubble, GoTo
<1>2. /\ ~Live(em_st'.store) /\ ~em_st'.store.hazard_stall
      /\ em_st'.load = em_st.load
  BY <1>0, <1>1, LatchShape DEF BackInv, Early, Live, StageOf, XS
<1>3. SquashInv' /\ FrontInv' /\ BackInv'
  BY <1>0, <1>1, <1>2
     DEF SquashInv, FrontInv, BackInv, Early, Late, Valid, Live, stopped
<1>4. OrderInv' /\ OpsInv'
  BY <1>0, <1>1
     DEF OrderInv, OpsInv, Running, Early, Late, Valid, FetchPc, stopped
<1>5. EndInv'
  BY <1>0, <1>1, <1>2 DEF EndInv, stopped
<1>6. CountInv'
  <2>1. ~wf_st.store.is_jump
    BY <1>0, <1>1 DEF SquashInv, Late
  <2>2. /\ Bubble(mw_st.store) = Bubble(em_st.load)
        /\ Sys(mw_st.store) <=> Sys(em_st.load)
    BY <1>0, <1>1 DEF HandedInv, Middle, Bubble, Valid, Live, Sys, OpOf
  <2>3. /\ Bubble(em_st.store)' = 1 /\ Bubble(de_st.load) = 1
        /\ Bubble(fd_st.load)' = Bubble(fd_st.load)
        /\ Bubble(mw_st.store)' = Bubble(mw_st.store)
        /\ Sys(mw_st.store)' <=> Sys(mw_st.store)
        /\ ~Sys(em_st.store)'
        /\ Accounted' = Accounted
    BY <1>1, <1>2 DEF Bubble, Sys, OpOf, Valid, Live, Accounted
  <2>4. \A b : Bubble(b) \in {0, 1}
    BY DEF Bubble
  <2>5. CASE stopped(de_st)
    <3>1. (Sys(mw_st.store)' \/ is_stop') /\ Accounted' = clocks' + 1
      BY <1>0, <1>1, <2>2, <2>3, <2>5 DEF CountInv
    <3> QED
      BY <1>1, <2>5, <3>1 DEF CountInv, Late, stopped
  <2>6. CASE ~stopped(de_st)
    <3>1. Accounted' = clocks' + 1 + Bubble(mw_st.store)' + Bubble(em_st.store)'
                         + Bubble(fd_st.load)'
      BY <1>0, <1>1, <2>2, <2>3, <2>4, <2>6 DEF CountInv
    <3> QED
      BY <1>0, <1>1, <2>1, <2>3, <2>4, <2>6, <3>1 DEF CountInv, Late, stopped
  <2> QED
    BY <2>5, <2>6
<1> QED
  BY <1>3, <1>4, <1>5, <1>6 DEF AccountInv

\* A taken jump adds the two bubbles behind it to those in flight and to those
\* accounted for; a system instruction takes the slots behind it out.
LEMMA AccountRun ==
  ASSUME Account, Accountable, phase # "aborted", clocks < MaxCount,
         executePlain \/ executeJump \/ executeSystem
  PROVE  AccountInv'
<1> DEFINE d == de_st.load.instr
           i == Executed(instrs[d])
<1>0. /\ TypeOK /\ StopsInv /\ HandedInv /\ PointersInv
      /\ SquashInv /\ FrontInv /\ BackInv /\ OrderInv /\ OpsInv /\ EndInv /\ CountInv
      /\ clocks \in Nat /\ ic \in Nat /\ hu.branches \in Nat /\ hu.stops \in Nat
      /\ hu \in Counters /\ instrs \in [Pointer -> InstructionObject]
  BY AccountParts
<1>1. /\ phase = "execute" /\ phase' = "decode"
      /\ Valid(de_st.load) /\ d \in Pointer
      /\ UNCHANGED <<mw_st, prog, is_stop>>
      /\ instrs' = [instrs EXCEPT ![d] = i] /\ instrs'[d] = i
      /\ i.op = instrs[d].op /\ i.pc = instrs[d].pc
      /\ em_st'.load = em_st.load
      /\ Live(em_st'.store) /\ em_st'.store.instr = d
      /\ em_st'.store.hazard_stall = em_st.store.hazard_stall
      /\ wf_st'.load = wf_st.load /\ fd_st'.load = fd_st.load
      /\ Live(de_st'.load) /\ de_st'.load.instr = d
      /\ wf_st'.store.is_stall = wf_st.store.is_stall
      /\ wf_st'.store.hazard_stall = wf_st.store.hazard_stall
      /\ IF Jumps(i)
           THEN /\ wf_st'.store.is_jump
                /\ fd_st'.store.hazard_stall /\ de_st'.store.hazard_stall
           ELSE /\ wf_st'.store = wf_st.store /\ fd_st'.store = fd_st.store
                /\ de_st'.store = de_st.store
      /\ IF i.op.type = "SYSTEM"
           THEN /\ de_st'.load.hazard_stall /\ ~Jumps(i)
                /\ fd_st'.stop_count = fd_st.stop_count + 5
                /\ de_st'.stop_count = de_st.stop_count + 5
           ELSE /\ de_st'.load = de_st.load
                /\ fd_st'.stop_count = fd_st.stop_count
                /\ de_st'.stop_count = de_st.stop_count
  BY <1>0, ExecuteFull
<1>2. UNCHANGED <<ic, clocks>>
  BY DEF executePlain, executeJump, executeSystem, RunExecutor
<1>3. /\ ~stopped(de_st) /\ ~stopped(fd_st) /\ ~wf_st.store.is_jump /\ ~is_stop
      /\ ~em_st.store.hazard_stall
      /\ ~fd_st.store.hazard_stall /\ ~de_st.store.hazard_stall
      /\ Valid(fd_st.load)
  BY <1>0, <1>1
     DEF StopsInv, FrontInv, SquashInv, EndInv, BackInv, OrderInv, Early, Late, Valid
<1>4. /\ stopped(fd_st)' <=> i.op.type = "SYSTEM"
      /\ stopped(de_st)' <=> i.op.type = "SYSTEM"
  BY <1>0, <1>1, <1>3, LatchShape DEF stopped, StageOf
<1>5. /\ Valid(fd_st.load)' /\ Valid(em_st.store)'
      /\ i.op.type # "SYSTEM" => Valid(de_st.load)'
      /\ i.op.type = "SYSTEM" => ~Valid(de_st.load)'
      /\ Obj(de_st.load)' = i
  BY <1>1, <1>3 DEF Valid, Live, Obj
<1>6. Jumps(i) => i.op.type # "SYSTEM"
  BY <1>1
<1>7. wf_st'.store.is_jump <=> Jumps(i)
  BY <1>1, <1>3
<1> HIDE DEF i
<1>8. SquashInv'
  BY <1>1, <1>3, <1>4, <1>5, <1>6, <1>7 DEF SquashInv, Late
<1>9. FrontInv' /\ BackInv'
  <2>1. Valid(wf_st.load)' /\ Valid(wf_st.store)'
    BY <1>0, <1>1 DEF FrontInv, Valid
  <2>2. FrontInv'
    BY <1>1, <1>4, <2>1 DEF FrontInv
  <2>3. BackInv'
    BY <1>1, <1>3, <1>4, <1>5 DEF BackInv, Early
  <2> QED
    BY <2>2, <2>3
<1>10. OrderInv' /\ OpsInv' /\ EndInv'
  <2>1. FetchPc' = FetchPc
    BY <1>1 DEF FetchPc
  <2>2. OfProgram(i) /\ fd_st.load.pc \in {i.pc, Plus(i.pc, 1)}
    BY <1>0, <1>1 DEF OrderInv, OfProgram, Early, Obj
  <2>3. OrderInv'
    BY <1>0, <1>1, <1>3, <1>5, <2>1, <2>2 DEF OrderInv, Running, Early, Late, OfProgram
  <2>4. \A p \in Pointer : instrs'[p].op = instrs[p].op
    BY <1>0, <1>1
  <2>5. OpsInv' /\ EndInv'
    BY <1>0, <1>1, <1>3, <2>4 DEF OpsInv, EndInv
  <2> QED
    BY <2>3, <2>5
<1>11. CountInv'
  <2>1. Accounted = clocks + 1 + Bubble(em_st.load)
    BY <1>0, <1>1, <1>3 DEF CountInv, Bubble
  <2>2. /\ Bubble(mw_st.store)' = Bubble(em_st.load) /\ Bubble(em_st.load) \in {0, 1}
        /\ Bubble(em_st.store)' = 0 /\ Bubble(fd_st.load)' = 0
        /\ Sys(em_st.store)' <=> i.op.type = "SYSTEM"
    BY <1>0, <1>1, <1>5 DEF HandedInv, Middle, Bubble, Valid, Live, Sys, OpOf
  <2>3. Accounted' = Accounted + (IF Jumps(i) THEN 2 ELSE 0)
    <3>1. CASE executeJump
      <4>1. Jumps(i) /\ hu' = [hu EXCEPT !.branches = Bump(@, 1)]
        BY <3>1 DEF executeJump, hu_branch, i
      <4>2. hu'.branches = Bump(hu.branches, 1) /\ hu'.stops = hu.stops
        BY <1>0, <4>1 DEF Counters
      <4>3. Bump(hu.branches, 1) = hu.branches + 1
        BY <1>0, <2>1, <2>2, MaxCountAssumption DEF Accounted, Bump
      <4> QED
        BY <1>0, <1>2, <4>1, <4>2, <4>3 DEF Accounted
    <3>2. CASE executePlain \/ executeSystem
      <4>1. ~Jumps(i) /\ hu' = hu
        BY <1>1, <1>6, <3>2 DEF executePlain, executeSystem, hu_exit, i
      <4> QED
        BY <1>0, <1>2, <4>1 DEF Accounted
    <3> QED
      BY <3>1, <3>2
  <2>4. CASE i.op.type = "SYSTEM"
    <3>1. Sys(em_st.store)' /\ Accounted' = clocks' + 1 + Bubble(mw_st.store)'
      BY <1>0, <1>2, <1>6, <2>1, <2>2, <2>3, <2>4
    <3> QED
      BY <1>1, <1>4, <2>4, <3>1 DEF CountInv, Late
  <2>5. CASE i.op.type # "SYSTEM"
    <3>1. Accounted' = clocks' + 1 + Bubble(mw_st.store)' + Bubble(em_st.store)'
                         + Bubble(fd_st.load)'
                         + (IF wf_st'.store.is_jump THEN 2 ELSE 0)
      BY <1>0, <1>2, <1>7, <2>1, <2>2, <2>3
    <3> QED
      BY <1>1, <1>4, <2>5, <3>1 DEF CountInv, Late
  <2> QED
    BY <2>4, <2>5
<1> QED
  BY <1>8, <1>9, <1>10, <1>11 DEF AccountInv

LEMMA AccountDecodeBubble ==
  ASSUME Account, Accountable, phase # "aborted", decodeBubble
  PROVE  AccountInv'
<1>0. /\ TypeOK /\ SquashInv /\ FrontInv /\ OrderInv /\ OpsInv /\ EndInv /\ CountInv
  BY AccountParts
<1>1. /\ phase = "decode" /\ phase' = "fetch"
      /\ ~Valid(fd_st.load) \/ stopped(de_st)
      /\ de_st'.load = de_st.load /\ de_st'.stop_count = de_st.stop_count
      /\ de_st'.store.is_stall = ~Valid(fd_st.load)
      /\ de_st'.store.hazard_stall = de_st.store.hazard_stall
      /\ UNCHANGED <<wf_st, fd_st, em_st, mw_st, prog, instrs, hu, clocks, ic, is_stop>>
  BY <1>0, LatchShape DEF decodeBubble, GoTo, StageOf, XS
<1>2. SquashInv' /\ FrontInv'
  BY <1>0, <1>1 DEF SquashInv, FrontInv, Early, Late, Valid, Live, stopped
<1>3. BackInv' /\ OrderInv' /\ OpsInv' /\ EndInv'
  BY <1>0, <1>1
     DEF BackInv, OrderInv, OpsInv, EndInv, Running, Early, Late, Valid, Live,
         FetchPc, stopped
<1>4. CountInv'
  BY <1>0, <1>1 DEF CountInv, Late, Accounted, Bubble, Sys, OpOf, Valid, stopped
<1> QED
  BY <1>2, <1>3, <1>4 DEF AccountInv

\* An instruction is stopped for one clock at most, behind a load that has just
\* executed and is squashed instead.
LEMMA OneLoadUse ==
  ASSUME Account, Accountable, phase = "decode", Valid(fd_st.load), ~stopped(de_st),
         NEW w, w = fd_st.load.instr
  PROVE  /\ LoadUses(w) \in {0, 1}
         /\ LoadUses(w) = 1 => Valid(em_st.store) /\ ~wf_st.store.is_jump
<1> DEFINE i == Obj(de_st.load)
<1>0. /\ FetchedInv /\ PointersInv /\ SquashInv /\ BackInv /\ OrderInv
      /\ instrs \in [Pointer -> InstructionObject]
  BY AccountParts
<1>1. ASSUME NEW r, LoadUse(r)
      PROVE  /\ Valid(de_st.load) /\ i.op.rd = r /\ is_load(i.op)
             /\ i.op.type = "I" /\ ~Jumps(i)
  <2>1. Valid(de_st.load) /\ i.op.rd = r /\ is_load(i.op)
    BY <1>1 DEF LoadUse, Produces, Obj
  <2>2. i.op \in Instructions
    BY <1>0, <2>1 DEF PointersInv, Points, Valid, Live, Obj, InstructionObject
  <2> QED
    BY <2>1, <2>2, RecognizedAssumption DEF is_load, Jumps
<1>2. ~(ReadsRs1(w) /\ LoadUse(w.rs1) /\ ReadsRs2(w) /\ LoadUse(w.rs2))
  <2> SUFFICES ASSUME ReadsRs1(w), LoadUse(w.rs1), ReadsRs2(w), LoadUse(w.rs2)
               PROVE  FALSE
    OBVIOUS
  <2>1. /\ Valid(de_st.load) /\ is_load(i.op) /\ i.op.type = "I"
        /\ i.op.rd = w.rs1 /\ i.op.rd = w.rs2
    BY <1>1
  <2>2. /\ i.pc \in Address /\ i.op = prog[i.pc]
        /\ fd_st.load.pc \in {i.pc, Plus(i.pc, 1)}
        /\ fd_st.load.pc \in Address /\ w = prog[fd_st.load.pc]
    BY <1>0, <2>1 DEF OrderInv, OfProgram, FetchedInv, Valid, Live
  <2>3. fd_st.load.pc = Plus(i.pc, 1)
    BY <2>1, <2>2 DEF ReadsRs2
  <2>4. UsesLoadTwice(i.pc)
    BY <2>1, <2>2, <2>3 DEF UsesLoadTwice
  <2> QED
    BY <2>2, <2>4 DEF Accountable
<1>3. LoadUses(w) \in {0, 1}
  BY <1>2 DEF LoadUses, Ones
<1>4. ASSUME LoadUses(w) = 1 PROVE Valid(em_st.store) /\ ~wf_st.store.is_jump
  <2>1. PICK r : LoadUse(r)
    BY <1>4 DEF LoadUses, Ones
  <2>2. Valid(de_st.load) /\ ~Jumps(i)
    BY <1>1, <2>1
  <2> QED
    BY <1>0, <2>2 DEF BackInv, SquashInv, Valid, Live
<1> QED
  BY <1>3, <1>4

\* A stop adds the bubble of the load to those in flight and to those accounted
\* for.
LEMMA AccountDecode ==
  ASSUME Account, Accountable, phase # "aborted", clocks < MaxCount, decodeInstr
  PROVE  AccountInv'
<1> DEFINE w == fd_st.load.instr
           p == get_next(w.type)
           n == LoadUses(w)
<1>0. /\ TypeOK /\ StopsInv /\ PointersInv /\ FetchedInv
      /\ SquashInv /\ FrontInv /\ OrderInv /\ OpsInv /\ EndInv /\ CountInv
      /\ clocks \in Nat /\ ic \in Nat /\ hu.branches \in Nat /\ hu.stops \in Nat
      /\ hu \in Counters /\ instrs \in [Pointer -> InstructionObject]
  BY AccountParts
<1>1. /\ phase = "decode" /\ phase' = "fetch"
      /\ Valid(fd_st.load) /\ ~stopped(de_st)
      /\ w \in Instructions /\ p \in Pointer
      /\ de_st'.load = de_st.load /\ de_st'.stop_count = de_st.stop_count
      /\ Live(de_st'.store) /\ de_st'.store.instr = p
      /\ instrs' = [instrs EXCEPT ![p] = Decoded(p, w, fd_st.load.pc)]
      /\ instrs'[p].op = w
      /\ n \in Nat /\ hu_stall(n)
      /\ UNCHANGED <<mw_st, prog>>
  BY <1>0, DecodeEffect
<1>2. /\ de_st'.store.hazard_stall = de_st.store.hazard_stall
      /\ hu'.branches = hu.branches /\ hu'.stops = Bump(hu.stops, n)
      /\ UNCHANGED <<clocks, ic, is_stop>>
  BY <1>0, LatchShape DEF decodeInstr, decoder_decode, StageOf, XS, Counters
<1>3. /\ n \in {0, 1}
      /\ n = 1 => Valid(em_st.store) /\ ~wf_st.store.is_jump
  BY <1>1, OneLoadUse
<1>4. instrs'[p].pc = fd_st.load.pc
  BY <1>0, <1>1 DEF Decoded, InstructionObject
<1> HIDE DEF n, p
<1>5. /\ wf_st'.load = wf_st.load /\ wf_st'.store = wf_st.store
      /\ fd_st'.load = fd_st.load /\ fd_st'.store = fd_st.store
      /\ fd_st'.stop_count = fd_st.stop_count + n
      /\ em_st'.store.is_stall = em_st.store.is_stall
      /\ em_st'.store.hazard_stall = IF n > 0 THEN TRUE ELSE em_st.store.hazard_stall
  BY <1>0, <1>1, LatchShape DEF hu_stall, extend, StageOf, XS
<1>6. fd_st.stop_count = 0 /\ (stopped(fd_st)' <=> n = 1) /\ ~stopped(de_st)'
  BY <1>0, <1>1, <1>3, <1>5, LatchShape DEF FrontInv, stopped, StageOf
<1>7. SquashInv'
  BY <1>0, <1>1, <1>2, <1>3, <1>5, <1>6 DEF SquashInv, Late, Valid
<1>8. FrontInv'
  <2>1. Valid(wf_st.load)' /\ Valid(wf_st.store)' /\ Valid(fd_st.load)'
    BY <1>0, <1>1, <1>5 DEF FrontInv, Valid
  <2>2. Obj(de_st.store)' = instrs'[p] /\ Live(de_st.store)'
    BY <1>1 DEF Obj, Live
  <2> QED
    BY <1>1, <1>3, <1>4, <1>5, <1>6, <2>1, <2>2 DEF FrontInv, Early
<1>9. BackInv' /\ OrderInv' /\ EndInv'
  BY <1>0, <1>1, <1>2, <1>5
     DEF BackInv, OrderInv, EndInv, Running, Early, Late, Valid, FetchPc
<1>10. OpsInv'
  <2>1. \E a \in Address : w = prog[a]
    BY <1>0, <1>1 DEF FetchedInv, Valid, Live
  <2>2. \A q \in Pointer : instrs'[q].op = IF q = p THEN w ELSE instrs[q].op
    BY <1>0, <1>1
  <2> QED
    BY <1>0, <1>1, <2>1, <2>2 DEF OpsInv
<1>11. CountInv'
  <2>1. Accounted = clocks + 1 + Bubble(mw_st.store) + Bubble(em_st.store)
                      + (IF wf_st.store.is_jump THEN 2 ELSE 0)
    BY <1>0, <1>1 DEF CountInv, Late, Bubble
  <2>2. Bubble(mw_st.store) \in {0, 1} /\ Bubble(em_st.store) \in {0, 1}
    BY DEF Bubble
  <2>3. n = 1 => Accounted <= clocks + 2
    BY <1>0, <1>3, <2>1, <2>2 DEF Bubble
  <2>4. Bump(hu.stops, n) = hu.stops + n
    BY <1>0, <1>3, <2>3, MaxCountAssumption DEF Accounted, Bump, TypeOK, HazardUnitTypeOK, Counters
  <2>5. Accounted' = Accounted + n
    BY <1>0, <1>2, <1>3, <2>4 DEF Accounted
  <2>6. /\ Bubble(mw_st.store)' = Bubble(mw_st.store)
        /\ Bubble(em_st.store)' = Bubble(em_st.store) + n
        /\ Bubble(fd_st.load)' = 0
    BY <1>1, <1>3, <1>5 DEF Bubble, Valid
  <2>7. Accounted' = clocks' + 1 + Bubble(mw_st.store)' + Bubble(em_st.store)'
                       + Bubble(fd_st.load)'
                       + (IF wf_st'.store.is_jump THEN 2 ELSE 0)
    BY <1>0, <1>2, <1>3, <1>5, <2>1, <2>2, <2>5, <2>6
  <2> QED
    BY <1>1, <1>6, <2>7 DEF CountInv, Late
<1> QED
  BY <1>7, <1>8, <1>9, <1>10, <1>11 DEF AccountInv

LEMMA AccountFetch ==
  ASSUME Account, Accountable, phase # "aborted", fetchBubble \/ fetchInstr
  PROVE  AccountInv'
<1>0. /\ TypeOK /\ SquashInv /\ FrontInv /\ BackInv /\ OrderInv /\ OpsInv
      /\ EndInv /\ CountInv /\ Valid(wf_st.load)
  BY AccountParts DEF FrontInv
<1>1. /\ phase = "fetch" /\ phase' = "update"
      /\ UNCHANGED <<de_st, em_st, mw_st, prog, instrs, is_stop>>
      /\ wf_st'.load = wf_st.load /\ fd_st'.load = fd_st.load
      /\ fd_st'.stop_count = fd_st.stop_count
      /\ wf_st'.store.is_stall = wf_st.store.is_stall
      /\ wf_st'.store.hazard_stall = wf_st.store.hazard_stall
      /\ wf_st'.store.is_jump = wf_st.store.is_jump
      /\ fd_st'.store.hazard_stall = fd_st.store.hazard_stall
      /\ Live(fd_st'.store)
      /\ ~stopped(fd_st) => /\ fd_st'.store.pc = FetchPc
                            /\ wf_st'.store.pc = Plus(FetchPc, 1)
  BY <1>0, FetchFull
<1>2. UNCHANGED <<ic, clocks, hu>>
  BY DEF fetchBubble, fetchInstr
<1>3. SquashInv' /\ BackInv' /\ OpsInv' /\ EndInv'
  BY <1>0, <1>1
     DEF SquashInv, BackInv, OpsInv, EndInv, Early, Late, Valid, Live, stopped
<1>4. FrontInv'
  BY <1>0, <1>1 DEF FrontInv, Early, Valid, Live, Obj, stopped, FetchPc
<1>5. OrderInv'
  BY <1>0, <1>1 DEF OrderInv, Running, Early, Late, Valid, FetchPc
<1>6. CountInv'
  BY <1>0, <1>1, <1>2 DEF CountInv, Late, Accounted, Bubble, Sys, OpOf, Valid, stopped
<1> QED
  BY <1>3, <1>4, <1>5, <1>6 DEF AccountInv

\* The latches that the end of a clock hands over.
LEMMA HandedOver ==
  ASSUME Account, Accountable, phase # "aborted", endOfClock
  PROVE  /\ phase = "update" /\ phase' = IF is_stop THEN "stopped" ELSE "writeBack"
         /\ UNCHANGED <<prog, instrs, is_stop, ic, hu>>
         /\ em_st'.load = em_st.store /\ em_st'.store = EmptyXS
         /\ mw_st'.load = mw_st.store
         /\ stopped(wf_st) <=> stopped(fd_st)
         /\ IF stopped(fd_st)
              THEN /\ wf_st'.load = wf_st.load /\ wf_st'.store = wf_st.store
                   /\ fd_st'.load = fd_st.load /\ fd_st'.store = fd_st.store
                   /\ fd_st'.stop_count = fd_st.stop_count - 1
              ELSE /\ wf_st'.load = wf_st.store /\ wf_st'.store = EmptyWF
                   /\ fd_st'.load = fd_st.store /\ fd_st'.store = EmptyFD
                   /\ fd_st'.stop_count = 0
         /\ IF stopped(de_st)
              THEN /\ de_st'.load = de_st.load /\ de_st'.store = de_st.store
                   /\ de_st'.stop_count = de_st.stop_count - 1
              ELSE /\ de_st'.load = de_st.store /\ de_st'.store = EmptyXS
                   /\ de_st'.stop_count = 0
         /\ stopped(de_st) => /\ stopped(fd_st) /\ ~Valid(de_st.load)
                              /\ ~wf_st.store.is_jump
         /\ ~stopped(de_st) /\ stopped(fd_st) => fd_st.stop_count = 1
         /\ is_stop => stopped(de_st)
<1>0. TypeOK /\ StopsInv /\ SquashInv /\ FrontInv /\ EndInv
  BY AccountParts
<1>1. /\ phase = "update" /\ (stopped(wf_st) <=> stopped(fd_st))
      /\ stopped(de_st) => stopped(fd_st)
  BY <1>0, LatchShape DEF StopsInv, stopped, endOfClock, GoTo, StageOf
<1>2. stopped(de_st) => ~Valid(de_st.load) /\ ~wf_st.store.is_jump
  BY <1>0, <1>1 DEF StopsInv, SquashInv, Valid
<1>3. /\ ~stopped(de_st) /\ stopped(fd_st) => fd_st.stop_count = 1
      /\ is_stop => stopped(de_st)
  BY <1>0, <1>1 DEF FrontInv, EndInv
<1>4. UNCHANGED <<ic, hu>>
  BY DEF endOfClock
<1> QED
  BY <1>0, <1>1, <1>2, <1>3, <1>4, ClockFull

\* The parts of AccountInv on the order of the instructions.
LEMMA OrderHandedOver ==
  ASSUME Account, Accountable, phase # "aborted", endOfClock
  PROVE  OrderInv'
<1>0. FetchedInv /\ SquashInv /\ FrontInv /\ OrderInv
  BY AccountParts
<1>1. phase = "update" /\ phase' \in {"stopped", "writeBack"}
  BY HandedOver
<1>2. ~stopped(fd_st) =>
        /\ fd_st'.load = fd_st.store /\ wf_st'.load = wf_st.store
        /\ Live(fd_st.store) /\ fd_st.store.pc = FetchPc
        /\ wf_st.store.pc = Plus(FetchPc, 1)
        /\ Valid(fd_st.store) <=> ~wf_st.store.is_jump
  BY <1>0, HandedOver DEF FrontInv, SquashInv, Valid, Live
<1>3. Valid(fd_st.load)' => FetchPc' = Plus(fd_st'.load.pc, 1)
  <2>1. CASE stopped(fd_st)
    BY <1>0, <1>1, <2>1, HandedOver DEF OrderInv, Running, Late, Valid, FetchPc
  <2>2. CASE ~stopped(fd_st)
    BY <1>2, <2>2 DEF FetchPc, Valid
  <2> QED
    BY <2>1, <2>2
<1>4. ASSUME Valid(de_st.load)'
      PROVE  (LET i == Obj(de_st.load) IN
              /\ OfProgram(i) /\ Valid(fd_st.load)
              /\ fd_st.load.pc \in {i.pc, Plus(i.pc, 1)})'
  <2>1. ~stopped(de_st) /\ de_st'.load = de_st.store /\ Valid(de_st.store)
    BY <1>4, HandedOver DEF Valid
  <2>2. /\ ~wf_st.store.is_jump /\ Valid(fd_st.load)
        /\ Obj(de_st.store).pc = fd_st.load.pc
        /\ Obj(de_st.store).op = fd_st.load.instr
    BY <1>0, <1>1, <2>1 DEF SquashInv, FrontInv, Valid, Live
  <2>3. Obj(de_st.load)' = Obj(de_st.store) /\ OfProgram(Obj(de_st.load))'
    BY <1>0, <2>1, <2>2, HandedOver DEF Obj, OfProgram, FetchedInv, Valid, Live
  <2>4. CASE stopped(fd_st)
    BY <2>2, <2>3, <2>4, HandedOver DEF Valid
  <2>5. CASE ~stopped(fd_st)
    <3>1. FetchPc = Plus(fd_st.load.pc, 1)
      BY <1>0, <1>1, <2>2 DEF OrderInv, Running, Late
    <3> QED
      BY <1>2, <2>2, <2>3, <2>5, <3>1 DEF Valid
  <2> QED
    BY <2>4, <2>5
<1> QED
  BY <1>3, <1>4 DEF OrderInv

\* A clock is over: it has retired an instruction, or let out a bubble that the
\* figures have accounted for.
LEMMA CountHandedOver ==
  ASSUME Account, Accountable, phase # "aborted", clocks < MaxCount, endOfClock
  PROVE  /\ CountInv'
         /\ phase' = "writeBack" /\ stopped(de_st) => stopped(de_st)'
<1>0. /\ TypeOK /\ DrainInv /\ SquashInv /\ FrontInv /\ EndInv /\ CountInv
      /\ clocks \in Nat /\ ic \in Nat /\ hu.branches \in Nat /\ hu.stops \in Nat
  BY AccountParts
<1>1. phase = "update" /\ phase' = IF is_stop THEN "stopped" ELSE "writeBack"
  BY HandedOver
<1>2. clocks' = clocks + 1
  BY <1>0, MaxCountAssumption DEF endOfClock, Bump
<1>3. Accounted' = Accounted
  BY HandedOver DEF Accounted
<1>4. /\ Sys(em_st.load)' <=> Sys(em_st.store)
      /\ Sys(mw_st.load)' <=> Sys(mw_st.store)
      /\ Bubble(em_st.load)' = Bubble(em_st.store)
      /\ Bubble(mw_st.load)' = Bubble(mw_st.store)
  BY HandedOver DEF Sys, OpOf, Bubble, Valid
<1>5. CASE is_stop
  <2>1. stopped(de_st) /\ ~Sys(em_st.store)
    BY <1>0, <1>1, <1>5 DEF EndInv, Sys, Valid, Live
  <2>2. Accounted = clocks + 1
    BY <1>0, <1>1, <2>1 DEF CountInv, Late
  <2> QED
    BY <1>1, <1>2, <1>3, <1>5, <2>2 DEF CountInv, Late
<1>6. CASE ~is_stop /\ stopped(de_st)
  <2>1. \/ Sys(em_st.store) /\ Accounted = clocks + 1 + Bubble(mw_st.store)
        \/ Sys(mw_st.store) /\ Accounted = clocks + 1
    BY <1>0, <1>1, <1>6 DEF CountInv, Late
  <2>2. 2 < de_st.stop_count /\ de_st.stop_count \in Nat
    BY <1>0, <1>1, <2>1, LatchShape
       DEF DrainInv, Sys, IsSystem, Valid, Live, StageOf
  <2>3. stopped(de_st)'
    BY <1>6, <2>2, HandedOver DEF stopped
  <2> QED
    BY <1>1, <1>2, <1>3, <1>4, <1>6, <2>1, <2>3 DEF CountInv, Late
<1>7. CASE ~is_stop /\ ~stopped(de_st)
  <2>1. Accounted = clocks + 1 + Bubble(mw_st.store) + Bubble(em_st.store)
                      + Bubble(fd_st.load)
                      + (IF wf_st.store.is_jump THEN 2 ELSE 0)
    BY <1>0, <1>1, <1>7 DEF CountInv, Late
  <2>2. ~stopped(de_st)' /\ de_st'.load = de_st.store
    BY <1>7, HandedOver DEF stopped
  <2>3. /\ Live(de_st.store) <=> Valid(fd_st.load)
        /\ de_st.store.hazard_stall <=> wf_st.store.is_jump
        /\ fd_st.store.hazard_stall <=> wf_st.store.is_jump
        /\ wf_st.store.is_jump => ~stopped(fd_st) /\ Valid(fd_st.load)
        /\ stopped(fd_st) => Valid(fd_st.load)
        /\ ~stopped(fd_st) => Live(fd_st.store)
    BY <1>0, <1>1, <1>7 DEF SquashInv, FrontInv
  <2>4. Bubble(de_st.load)' + Bubble(fd_st.load)' =
          Bubble(fd_st.load) + (IF wf_st.store.is_jump THEN 2 ELSE 0)
    <3>1. CASE stopped(fd_st)
      <4>1. fd_st'.load = fd_st.load
        BY <3>1, HandedOver
      <4> QED
        BY <2>2, <2>3, <3>1, <4>1 DEF Bubble, Valid, Live
    <3>2. CASE ~stopped(fd_st)
      <4>1. fd_st'.load = fd_st.store
        BY <3>2, HandedOver
      <4> QED
        BY <2>2, <2>3, <3>2, <4>1 DEF Bubble, Valid, Live
    <3> QED
      BY <3>1, <3>2
  <2>5. Accounted' = clocks' + Bubble(mw_st.load)' + Bubble(em_st.load)'
                       + Bubble(de_st.load)' + Bubble(fd_st.load)'
    <3>1. \A b : Bubble(b) \in {0, 1}
      BY DEF Bubble
    <3>2. Bubble(de_st.load)' \in {0, 1} /\ Bubble(fd_st.load)' \in {0, 1}
      BY DEF Bubble
    <3> QED
      BY <1>0, <1>2, <1>3, <1>4, <2>1, <2>4, <3>1, <3>2
  <2> QED
    BY <1>1, <1>7, <2>2, <2>5 DEF CountInv, Late
<1> QED
  BY <1>5, <1>6, <1>7

LEMMA AccountClock ==
  ASSUME Account, Accountable, phase # "aborted", clocks < MaxCount, endOfClock
  PROVE  AccountInv'
<1>0. /\ TypeOK /\ SquashInv /\ FrontInv /\ BackInv /\ OpsInv
  BY AccountParts
<1>1. /\ phase = "update" /\ phase' = IF is_stop THEN "stopped" ELSE "writeBack"
      /\ UNCHANGED <<prog, instrs, is_stop>>
  BY HandedOver
<1>2. ~wf_st'.store.is_jump /\ ~fd_st'.store.hazard_stall /\ ~de_st'.store.hazard_stall
  <2>1. stopped(fd_st) => ~wf_st.store.is_jump
    BY <1>0 DEF SquashInv
  <2>2. stopped(fd_st) => ~wf_st'.store.is_jump /\ ~fd_st'.store.hazard_stall
    BY <1>0, <2>1, HandedOver DEF SquashInv
  <2>3. ~stopped(fd_st) => ~wf_st'.store.is_jump /\ ~fd_st'.store.hazard_stall
    BY HandedOver DEF EmptyWF, EmptyFD
  <2>4. stopped(de_st) => ~de_st'.store.hazard_stall
    BY <1>0, <2>1, HandedOver DEF SquashInv
  <2>5. ~stopped(de_st) => ~de_st'.store.hazard_stall
    BY HandedOver DEF EmptyXS
  <2> QED
    BY <2>2, <2>3, <2>4, <2>5
<1>3. SquashInv'
  BY <1>2 DEF SquashInv
<1>4. FrontInv'
  <2>1. Valid(wf_st.load)' /\ Valid(wf_st.store)'
    BY <1>0, HandedOver DEF FrontInv, Valid, EmptyWF
  <2>2. phase' = "writeBack" /\ stopped(fd_st)' => stopped(de_st)'
    <3>1. CASE stopped(de_st)
      BY <3>1, CountHandedOver
    <3>2. CASE ~stopped(de_st)
      BY <3>2, HandedOver DEF stopped
    <3> QED
      BY <3>1, <3>2
  <2> QED
    BY <1>1, <2>1, <2>2 DEF FrontInv, Early
<1>5. BackInv' /\ EndInv'
  BY <1>1, HandedOver, EmptyNotLive DEF BackInv, EndInv, EmptyXS, Live
<1>6. OpsInv'
  BY <1>0, <1>1 DEF OpsInv
<1> QED
  BY <1>3, <1>4, <1>5, <1>6, OrderHandedOver, CountHandedOver DEF AccountInv

LEMMA AccountInit == Init => AccountInv
<1> SUFFICES ASSUME Init, Accountable PROVE AccountInv
  BY DEF AccountInv
<1>1. /\ phase = "writeBack" /\ ic = 0 /\ clocks = 0 /\ is_stop = FALSE
      /\ wf_st = [store |-> EmptyWF, load |-> [EmptyWF EXCEPT !.pc = Entry],
                  stop_count |-> 0]
      /\ fd_st = [store |-> EmptyFD, load |-> EmptyFD, stop_count |-> 0]
      /\ de_st = EmptyStage /\ em_st = EmptyStage /\ mw_st = EmptyStage
      /\ hu.branches = 0 /\ hu.stops = 0
      /\ instrs = [p \in Pointer |-> NewInstruction]
  BY DEF Init
<1>2. /\ ~stopped(de_st) /\ ~stopped(fd_st)
      /\ Bubble(mw_st.load) = 1 /\ Bubble(em_st.load) = 1
      /\ Bubble(de_st.load) = 1 /\ Bubble(fd_st.load) = 1
      /\ ~Valid(fd_st.load) /\ ~Valid(de_st.load)
      /\ Valid(wf_st.load) /\ Valid(wf_st.store)
  BY <1>1 DEF stopped, Bubble, Valid, EmptyStage, EmptyXS, EmptyFD, EmptyWF
<1>3. SquashInv /\ FrontInv /\ BackInv /\ OrderInv /\ EndInv
  BY <1>1, <1>2
     DEF SquashInv, FrontInv, BackInv, OrderInv, EndInv, Early, EmptyStage, EmptyXS,
         EmptyFD, EmptyWF, Live
<1>4. OpsInv
  BY <1>1 DEF OpsInv, NewInstruction
<1>5. CountInv
  BY <1>1, <1>2 DEF CountInv, Late, Accounted
<1> QED
  BY <1>3, <1>4, <1>5 DEF AccountInv

LEMMA AccountStutter ==
  ASSUME Account, Accountable, phase # "aborted", UNCHANGED vars
  PROVE  AccountInv'
<1>0. SquashInv /\ FrontInv /\ BackInv /\ OrderInv /\ OpsInv /\ EndInv /\ CountInv
  BY AccountParts
<1>1. UNCHANGED <<phase, prog, ic, clocks, is_stop, hu, instrs,
                  wf_st, fd_st, de_st, em_st, mw_st>>
  BY DEF vars
<1>2. SquashInv' /\ FrontInv' /\ BackInv'
  BY <1>0, <1>1 DEF SquashInv, FrontInv, BackInv, Valid, Live, Obj, stopped, FetchPc
<1>3. OrderInv' /\ OpsInv' /\ EndInv'
  BY <1>0, <1>1
     DEF OrderInv, OpsInv, EndInv, Running, Valid, Live, Obj, OfProgram, stopped, FetchPc
<1>4. CountInv'
  BY <1>0, <1>1 DEF CountInv, Accounted, Bubble, Sys, OpOf, Valid, stopped
<1> QED
  BY <1>2, <1>3, <1>4 DEF AccountInv

LEMMA ProgramKept == ASSUME [Next]_vars PROVE prog' = prog
BY DEF Next, vars, finished, writeBack, writeBackBubble, retire, memoryAccess,
       memoryBubble, memoryStore, memoryLoad, memoryOther, memoryThrow,
       PassToWriteBack, execute, executeBubble, executePlain, executeJump,
       executeSystem, RunExecutor, decode, decodeBubble, decodeInstr,
       decodeThrow, fetch, fetchBubble, fetchInstr, fetchThrow, updateLatches,
       endOfClock, updateThrow, Throw, GoTo

LEMMA AccountStep == Account /\ clocks < MaxCount /\ [Next]_vars => AccountInv'
<1> SUFFICES ASSUME Account, clocks < MaxCount, [Next]_vars, Accountable' PROVE AccountInv'
  BY DEF AccountInv
<1>0. Accountable
  BY ProgramKept DEF Accountable, UsesLoadTwice
<1>1. CASE phase = "aborted"
  BY <1>1, AbortedStays DEF AccountInv
<1>2. CASE \E from \in {"memoryAccess", "decode", "fetch", "update"} : Throw(from)
  BY <1>2 DEF AccountInv, Throw, GoTo
<1>3. CASE phase # "aborted"
  BY <1>0, <1>2, <1>3, ClockSteps, AccountStutter, AccountWriteBack, AccountMemory,
     AccountExecuteBubble, AccountRun, AccountDecodeBubble, AccountDecode,
     AccountFetch, AccountClock
<1> QED
  BY <1>1, <1>3

-----------------------------------------------------------------------------
(* The log.                                                                  *)

LEMMA Reports ==
  ASSUME NEW l, l = endl(print(Opened, Figures))
  PROVE  l = [is_open |-> TRUE, buffer |-> <<>>, file |-> <<Figures>>]
<1>1. Append(<<>>, Figures) = <<Figures>> /\ <<>> \o <<Figures>> = <<Figures>>
  OBVIOUS
<1> QED
  BY <1>1 DEF endl, print, Opened

LEMMA ClosedLog ==
  ASSUME NEW f, NEW l \in [is_open : BOOLEAN, buffer : {<<>>}, file : {<<f>>}]
  PROVE  close(l) \in [is_open : BOOLEAN, buffer : {<<>>}, file : {<<f>>}]
<1>1. <<f>> \o <<>> = <<f>>
  OBVIOUS
<1>2. endl(l) \in [is_open : BOOLEAN, buffer : {<<>>}, file : {<<f>>}]
  BY <1>1 DEF endl
<1> QED
  BY <1>2 DEF close

LEMMA LogInvStep == LogInv /\ [TracedNext]_tracedVars => LogInv'
<1> SUFFICES ASSUME LogInv, [TracedNext]_tracedVars PROVE LogInv'
  OBVIOUS
<1>1. Opened.file = <<>> /\ <<Figures>> # <<>>
  BY DEF Opened
<1>2. CASE log' = log
  <2>1. CASE log = Opened
    BY <1>2, <2>1 DEF LogInv
  <2>2. CASE phase = "stopped" /\ log \in Reported
    <3>1. UNCHANGED vars
      BY <2>2, TracedSteps, StoppedForGood
    <3>2. UNCHANGED <<phase, Figures>>
      BY <3>1 DEF vars, Figures
    <3> QED
      BY <1>2, <2>2, <3>2 DEF LogInv, Reported
  <2> QED
    BY <2>1, <2>2 DEF LogInv
<1>3. CASE dump
  <2>1. log = Opened
    BY <1>1, <1>3 DEF dump, LogInv, Reported
  <2>2. phase' = "stopped" /\ Figures' = Figures
    BY <1>3 DEF dump, vars, Figures
  <2>3. log' = [is_open |-> TRUE, buffer |-> <<>>, file |-> <<Figures>>]
    BY <1>3, <2>1, Reports DEF dump
  <2> QED
    BY <2>2, <2>3 DEF LogInv, Reported
<1>4. CASE exit
  <2>1. log \in Reported
    BY <1>1, <1>4 DEF exit, LogInv
  <2>2. phase' = "stopped" /\ Figures' = Figures
    BY <1>4 DEF exit, vars, Figures
  <2>3. log' = close(log)
    BY <1>4 DEF exit
  <2>4. log' \in [is_open : BOOLEAN, buffer : {<<>>}, file : {<<Figures>>}]
    BY <2>1, <2>3, ClosedLog DEF Reported
  <2> QED
    BY <2>2, <2>4 DEF LogInv, Reported
<1> QED
  BY <1>2, <1>3, <1>4
     DEF TracedNext, retireTraced, stageCall, exited, tracedVars

\* The counter of the clocks never goes back.
LEMMA ClocksGrow ==
  ASSUME TypeOK, [Next]_vars, clocks' < MaxCount
  PROVE  clocks < MaxCount
<1>1. CASE endOfClock
  BY <1>1, MaxCountAssumption DEF endOfClock, Bump, TypeOK
<1>2. CASE ~endOfClock
  <2>1. clocks' = clocks
    BY <1>2
       DEF Next, vars, finished, writeBack, writeBackBubble, retire, memoryAccess,
         memoryBubble, memoryStore, memoryLoad, memoryOther, memoryThrow,
         PassToWriteBack, execute, executeBubble, executePlain, executeJump,
         executeSystem, RunExecutor, decode, decodeBubble, decodeInstr,
         decodeThrow, fetch, fetchBubble, fetchInstr, fetchThrow, updateLatches,
         updateThrow, Throw
  <2> QED
    BY <2>1
<1> QED
  BY <1>1, <1>2

\* The figures in the Log.txt of an accountable program account for every clock of
\* its run, unless the run is longer than the model counts: four clocks to fill
\* the pipeline, one for each instruction retired, two for each jump taken, one
\* for each stop behind a load.
THEOREM CyclesAccounted == TracedSpec => [](clocks < MaxCount => CycleAccounting)
<1> DEFINE Counted == clocks < MaxCount => AccountInv
<1>1. TracedInit => IInv /\ UsageInv /\ Counted /\ LogInv
  <2>1. TracedInit => Init /\ log = Opened
    BY DEF TracedInit
  <2> QED
    BY <2>1, IInvInit, UsageInit, AccountInit DEF LogInv
<1>2. IInv /\ UsageInv /\ [TracedNext]_tracedVars => IInv' /\ UsageInv'
  BY TracedSteps, IInvStep, UsageStep
<1>3. IInv /\ UsageInv /\ Counted /\ [TracedNext]_tracedVars => Counted'
  <2> SUFFICES ASSUME IInv, UsageInv, Counted, [TracedNext]_tracedVars, clocks' < MaxCount
               PROVE  AccountInv'
    OBVIOUS
  <2>1. clocks < MaxCount /\ [Next]_vars
    BY TracedSteps, ClocksGrow DEF IInv
  <2> QED
    BY <2>1, AccountStep DEF Account
<1>4. IInv /\ UsageInv /\ Counted /\ LogInv => (clocks < MaxCount => CycleAccounting)
  <2> SUFFICES ASSUME IInv, UsageInv, AccountInv, LogInv, log.file # <<>>, Accountable
               PROVE  log.file[1].clocks = log.file[1].ic + 4
                        + 2 * log.file[1].branches + log.file[1].stops
    BY DEF CycleAccounting
  <2>1. phase = "stopped" /\ log.file[1] = Figures
    BY DEF LogInv, Reported, Opened
  <2>2. Accounted = clocks
    BY <2>1 DEF AccountInv, CountInv
  <2>3. /\ Figures.clocks = clocks /\ Figures.ic = ic
        /\ Figures.branches = hu.branches /\ Figures.stops = hu.stops
    BY DEF Figures
  <2> QED
    BY <2>1, <2>2, <2>3 DEF Accounted
<1> QED
  BY <1>1, <1>2, <1>3, <1>4, LogInvStep, PTL DEF TracedSpec
=============================================================================
