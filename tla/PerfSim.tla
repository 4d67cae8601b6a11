------------------------------ MODULE PerfSim ------------------------------
(***************************************************************************)
(* The clock loop of PerfSim::run.  Every iteration calls the stages from  *)
(* the last to the first, writeBack, memoryAccess, execute, decode, fetch, *)
(* and then updates the latches and the store pipeline.  One action per    *)
(* call; phase is the call to be made next.                                *)
(*                                                                         *)
(* The instruction memory prog is kept apart from the data memory mem: the *)
(* programs considered do not write their own text.  Loads and stores move *)
(* whole words.  Uncaught exceptions end the program: phase "aborted".     *)
(***************************************************************************)
EXTENDS Decoder

CONSTANTS
  Programs,       \* the instruction memories ElfManager::load may leave
  Image,          \* the data memory it leaves
  Entry,          \* ElfManager::getEntry
  IsSq            \* Config::is_sq, stores go through the store pipeline

ASSUME LoaderAssumption ==
  /\ Programs \subseteq [Address -> Instructions]
  /\ Image \in [Address -> Word]
  /\ Entry \in Word
  /\ IsSq \in BOOLEAN

VARIABLES
  phase,
  prog, mem,
  store,          \* Pipeline::store, the store pushed in this clock
  ic, clocks, is_stop

vars == <<phase, prog, mem, store, ic, clocks, is_stop, regs, reg_locker,
          wf_st, fd_st, de_st, em_st, mw_st, instrs, hu, index>>

Phase == {"writeBack", "memoryAccess", "execute", "decode", "fetch", "update",
          "stopped", "aborted"}

Store == [size : {0, 1}, addr : Word, data : Word]
NoStore == [size |-> 0, addr |-> 0, data |-> 0]

TypeOK ==
  /\ HazardUnitTypeOK
  /\ DecoderTypeOK
  /\ phase \in Phase
  /\ prog \in [Address -> Instructions]
  /\ mem \in [Address -> Word]
  /\ store \in Store
  /\ ic \in 0 .. MaxCount
  /\ clocks \in 0 .. MaxCount
  /\ is_stop \in BOOLEAN

-----------------------------------------------------------------------------
\* The constructor: the program is loaded, sp points at the top of memory,
\* where argc = 0 is written, and the fetch latch holds the entry point.
SP == 2
InitRegs == [r \in Reg |-> IF r = SP THEN MemSize - 1 ELSE 0]
InitMem  == [Image EXCEPT ![MemSize - 1] = 0]

EmptyStage == [store |-> EmptyXS, load |-> EmptyXS, stop_count |-> 0]

Init ==
  /\ phase = "writeBack"
  /\ prog \in Programs
  /\ mem = InitMem
  /\ store = NoStore
  /\ ic = 0 /\ clocks = 0 /\ is_stop = FALSE
  /\ regs = InitRegs
  /\ reg_locker = [r \in Reg |-> 0]
  /\ wf_st = [store |-> EmptyWF, load |-> [EmptyWF EXCEPT !.pc = Entry],
              stop_count |-> 0]
  /\ fd_st = [store |-> EmptyFD, load |-> EmptyFD, stop_count |-> 0]
  /\ de_st = EmptyStage /\ em_st = EmptyStage /\ mw_st = EmptyStage
  /\ instrs = [p \in Pointer |-> NewInstruction]
  /\ hu = [bypasses_mem_ex |-> 0, bypasses_wb_ex |-> 0, branches |-> 0,
           stops |-> 0]
  /\ index = [t \in InstrType |-> 0]

GoTo(from, to) == phase = from /\ phase' = to

\* An uncaught exception in a stage: the process is gone, and what the stage had
\* already changed does not matter.
Throw(from) ==
  /\ GoTo(from, "aborted")
  /\ UNCHANGED <<prog, mem, store, ic, clocks, is_stop, regs, reg_locker,
                 latches, instrs, hu, index>>

-----------------------------------------------------------------------------
\* PerfSim::writeBack.  A bubble retires nothing.
writeBackBubble ==
  /\ GoTo("writeBack", "memoryAccess")
  /\ ~Valid(mw_st.load)
  /\ IF mw_st.load.is_stall
       THEN UNCHANGED <<regs, reg_locker>>
       ELSE hu_write(mw_st.load.instr)
  /\ UNCHANGED <<prog, mem, store, ic, clocks, is_stop, latches, instrs, hu,
                 index>>

\* An instruction retires: its rd is written, and ECALL ends the simulation
\* with this clock.
retire ==
  /\ GoTo("writeBack", "memoryAccess")
  /\ Valid(mw_st.load)
  /\ hu_write(mw_st.load.instr)
  /\ ic' = Bump(ic, 1)
  /\ is_stop' = (is_stop \/ instrs[mw_st.load.instr].op.name = "ECALL")
  /\ UNCHANGED <<prog, mem, store, clocks, latches, instrs, hu, index>>

writeBack == writeBackBubble \/ retire

-----------------------------------------------------------------------------
\* Memory::read and Memory::write of a word at a data address, which is sign-
\* extended to 64 bits: the sum addr + bytes of their bound check wraps to zero
\* for the word below address 0, which lies in front of the simulated memory.
InBounds(addr) == addr \in Address \/ addr = Modulus - 1
ReadFrom(addr) == IF addr \in Address THEN {mem[addr]} ELSE Word
Written(addr, data) ==
  IF addr \in Address THEN [mem EXCEPT ![addr] = data] ELSE mem

-----------------------------------------------------------------------------
\* PerfSim::memoryAccess.  A squashed instruction gives its register back.
memoryBubble ==
  /\ GoTo("memoryAccess", "execute")
  /\ ~Valid(em_st.load)
  /\ mw_st' = [mw_st EXCEPT !.store.is_stall = TRUE]
  /\ IF em_st.load.is_stall
       THEN UNCHANGED <<regs, reg_locker>>
       ELSE hu_write(em_st.load.instr)
  /\ UNCHANGED <<prog, mem, store, ic, clocks, is_stop, wf_st, fd_st, de_st,
                 em_st, instrs, hu, index>>

\* The end of the stage for the instruction it processes.
PassToWriteBack ==
  /\ GoTo("memoryAccess", "execute")
  /\ Valid(em_st.load)
  /\ mw_st' = [mw_st EXCEPT !.store.is_stall = FALSE,
                            !.store.instr = em_st.load.instr]
  /\ UNCHANGED <<prog, ic, clocks, is_stop, regs, reg_locker, wf_st, fd_st,
                 de_st, em_st, hu, index>>

\* Pipeline::push keeps the store for the end of the clock: its queue is empty
\* whenever it is called, so there is nothing to concatenate with.
memoryStore ==
  /\ PassToWriteBack
  /\ LET i == instrs[em_st.load.instr] IN
     /\ IsStore(i.op)
     /\ IF IsSq
          THEN /\ store' = [size |-> 1, addr |-> i.addr, data |-> i.rs2]
               /\ UNCHANGED mem
          ELSE /\ InBounds(i.addr)
               /\ mem' = Written(i.addr, i.rs2)
               /\ UNCHANGED store
  /\ UNCHANGED instrs

memoryLoad ==
  /\ PassToWriteBack
  /\ LET i == instrs[em_st.load.instr] IN
     /\ is_load(i.op) /\ i.op.type = "I"
     /\ InBounds(i.addr)
     /\ \E value \in ReadFrom(i.addr) :
          instrs' = [instrs EXCEPT ![em_st.load.instr].rd = value]
  /\ UNCHANGED <<mem, store>>

memoryOther ==
  /\ PassToWriteBack
  /\ LET i == instrs[em_st.load.instr] IN
     ~IsStore(i.op) /\ ~(is_load(i.op) /\ i.op.type = "I")
  /\ UNCHANGED <<mem, store, instrs>>

\* Memory::read or Memory::write: "addr is out of memory".
memoryThrow ==
  /\ Throw("memoryAccess")
  /\ Valid(em_st.load)
  /\ LET i == instrs[em_st.load.instr] IN
     /\ (is_load(i.op) /\ i.op.type = "I") \/ (IsStore(i.op) /\ ~IsSq)
     /\ ~InBounds(i.addr)

memoryAccess ==
  memoryBubble \/ memoryStore \/ memoryLoad \/ memoryOther \/ memoryThrow

-----------------------------------------------------------------------------
\* A mutant of executeBubble: a squashed instruction keeps its lock.
executeBubbleKeepsLock ==
  /\ GoTo("execute", "decode")
  /\ ~Valid(de_st.load)
  /\ em_st' = [em_st EXCEPT !.store.is_stall = TRUE]
  /\ UNCHANGED <<prog, mem, store, ic, clocks, is_stop, regs, reg_locker, wf_st,
                 fd_st, de_st, mw_st, instrs, hu, index>>

\* PerfSim::execute.  A squashed instruction gives its register back.
executeBubble ==
  /\ GoTo("execute", "decode")
  /\ ~Valid(de_st.load)
  /\ em_st' = [em_st EXCEPT !.store.is_stall = TRUE]
  /\ IF de_st.load.is_stall
       THEN UNCHANGED <<regs, reg_locker>>
       ELSE hu_write(de_st.load.instr)
  /\ UNCHANGED <<prog, mem, store, ic, clocks, is_stop, wf_st, fd_st, de_st,
                 mw_st, instrs, hu, index>>

\* The executor runs on the object in place and the pointer moves on.
RunExecutor ==
  /\ GoTo("execute", "decode")
  /\ Valid(de_st.load)
  /\ instrs' = [instrs EXCEPT ![de_st.load.instr] = Executed(@)]
  /\ em_st' = [em_st EXCEPT !.store.is_stall = FALSE,
                            !.store.instr = de_st.load.instr]
  /\ UNCHANGED <<prog, mem, store, ic, clocks, is_stop, regs, reg_locker,
                 mw_st, index>>

executePlain ==
  /\ RunExecutor
  /\ LET i == Executed(instrs[de_st.load.instr]) IN
     ~Jumps(i) /\ i.op.type # "SYSTEM"
  /\ UNCHANGED <<wf_st, fd_st, de_st, hu>>

executeJump ==
  /\ RunExecutor
  /\ LET i == Executed(instrs[de_st.load.instr]) IN
     Jumps(i) /\ hu_branch(i.branch_addr)

executeSystem ==
  /\ RunExecutor
  /\ instrs[de_st.load.instr].op.type = "SYSTEM"
  /\ hu_exit

execute == executeBubble \/ executePlain \/ executeJump \/ executeSystem

-----------------------------------------------------------------------------
\* PerfSim::decode.

decodeBubble ==
  /\ GoTo("decode", "fetch")
  /\ ~Valid(fd_st.load) \/ stopped(de_st)
  /\ de_st' = [de_st EXCEPT !.store.is_stall = ~Valid(fd_st.load)]
  /\ UNCHANGED <<prog, mem, store, ic, clocks, is_stop, regs, reg_locker,
                 wf_st, fd_st, em_st, mw_st, instrs, hu, index>>

decodeInstr ==
  /\ GoTo("decode", "fetch")
  /\ Valid(fd_st.load) /\ ~stopped(de_st)
  /\ LET w == fd_st.load.instr IN
     /\ ~DecodeThrows(w)
     /\ decoder_decode(w, fd_st.load.pc)
     /\ de_st' = [de_st EXCEPT !.store.is_stall = FALSE,
                               !.store.instr = get_next(w.type)]
  /\ UNCHANGED <<prog, mem, store, ic, clocks, is_stop, mw_st>>

\* HazardUnit::decode: "load hazart".
decodeThrow ==
  /\ Throw("decode")
  /\ Valid(fd_st.load) /\ ~stopped(de_st)
  /\ DecodeThrows(fd_st.load.instr)

decode == decodeBubble \/ decodeInstr \/ decodeThrow

-----------------------------------------------------------------------------
\* PerfSim::fetch.
FetchPc == IF wf_st.load.is_jump THEN wf_st.load.pc_jump ELSE wf_st.load.pc

fetchBubble ==
  /\ GoTo("fetch", "update")
  /\ ~Valid(wf_st.load) \/ stopped(fd_st)
  /\ fd_st' = [fd_st EXCEPT !.store.is_stall = ~Valid(wf_st.load)]
  /\ UNCHANGED <<prog, mem, store, ic, clocks, is_stop, regs, reg_locker,
                 wf_st, de_st, em_st, mw_st, instrs, hu, index>>

fetchInstr ==
  /\ GoTo("fetch", "update")
  /\ Valid(wf_st.load) /\ ~stopped(fd_st)
  /\ FetchPc \in Address
  /\ fd_st' = [fd_st EXCEPT !.store.is_stall = FALSE, !.store.pc = FetchPc,
                            !.store.instr = prog[FetchPc]]
  /\ wf_st' = [wf_st EXCEPT !.store.pc = Plus(FetchPc, 1)]
  /\ UNCHANGED <<prog, mem, store, ic, clocks, is_stop, regs, reg_locker,
                 de_st, em_st, mw_st, instrs, hu, index>>

fetchThrow ==
  /\ Throw("fetch")
  /\ Valid(wf_st.load) /\ ~stopped(fd_st)
  /\ FetchPc \notin Address

fetch == fetchBubble \/ fetchInstr \/ fetchThrow

-----------------------------------------------------------------------------
\* The end of an iteration of PerfSim::run: the latches change hands, and
\* Pipeline::update writes the store of this clock to memory.
endOfClock ==
  /\ GoTo("update", IF is_stop THEN "stopped" ELSE "writeBack")
  /\ wf_st' = update(wf_st, EmptyWF)
  /\ fd_st' = update(fd_st, EmptyFD)
  /\ de_st' = update(de_st, EmptyXS)
  /\ em_st' = update(em_st, EmptyXS)
  /\ mw_st' = update(mw_st, EmptyXS)
  /\ store.size > 0 => InBounds(store.addr)
  /\ mem' = IF store.size > 0 THEN Written(store.addr, store.data) ELSE mem
  /\ store' = NoStore
  /\ clocks' = Bump(clocks, 1)
  /\ UNCHANGED <<prog, ic, is_stop, regs, reg_locker, instrs, hu, index>>

\* Memory::write: "addr is out of memory".
updateThrow ==
  /\ Throw("update")
  /\ store.size > 0 /\ ~InBounds(store.addr)

updateLatches == endOfClock \/ updateThrow

\* run() has returned, or the process is gone.
finished == phase \in {"stopped", "aborted"} /\ UNCHANGED vars

Next ==
  writeBack \/ memoryAccess \/ execute \/ decode \/ fetch \/ updateLatches
    \/ finished

Spec == Init /\ [][Next]_vars

\* The loop of run() is a single thread that nothing suspends.
FairSpec == Spec /\ WF_vars(Next)
=============================================================================
