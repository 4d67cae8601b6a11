--------------------------- MODULE PerfSimSafety ---------------------------
(***************************************************************************)
(* What must hold of the pipeline whatever the program does, safe or not:  *)
(* register locks are neither leaked nor released twice, every locked      *)
(* operand has a producer to bypass from, pooled objects in flight are not *)
(* overwritten, no empty latch is processed, and nothing behind a system   *)
(* instruction is.                                                         *)
(***************************************************************************)
EXTENDS PerfSim

\* The buffer holds an instruction, processed or squashed, that took the lock
\* of register r at decode and has not released it.
Holds(buffer, r) ==
  IF ~buffer.is_stall /\ Writes(instrs[buffer.instr].op)
       /\ instrs[buffer.instr].op.rd = r
    THEN 1 ELSE 0

\* What decode just stored is handed over only when the latch is not stopped.
Handover(st) == IF stopped(st) THEN EmptyXS ELSE st.store

\* The buffers whose instructions still hold their lock when phase is next.
\* Each stage releases the lock of the instructions it drops, and the stages
\* run from the last to the first.
LockHolders ==
  CASE phase \in {"writeBack", "stopped"} -> <<de_st.load, em_st.load, mw_st.load>>
    [] phase = "memoryAccess" -> <<de_st.load, em_st.load, EmptyXS>>
    [] phase = "execute" -> <<de_st.load, EmptyXS, mw_st.store>>
    [] phase = "decode" -> <<EmptyXS, em_st.store, mw_st.store>>
    [] OTHER -> <<Handover(de_st), em_st.store, mw_st.store>>

\* How many locks of register r the instructions in flight hold.
HeldLocks(r) ==
  Holds(LockHolders[1], r) + Holds(LockHolders[2], r) + Holds(LockHolders[3], r)

\* The lock counter of a register counts exactly the instructions in flight
\* that will write it: however bubbles, squashes and stops interleave, every
\* getReg of Decoder::decode meets one and only one RegFile::write.
LockBalance ==
  phase # "aborted" =>
    /\ reg_locker[0] = 0
    /\ \A r \in Reg \ {0} : reg_locker[r] = -HeldLocks(r)

\* When an instruction is decoded, a locked register has an instruction in the
\* execute or memory stage to take its value from: HazardUnit::decode never
\* falls through to the default-constructed Register of its last line.
OperandsResolved ==
  phase = "decode" /\ Valid(fd_st.load) /\ ~stopped(de_st) =>
    \A r \in Reg : is_lock(r) => Produces(de_st.load, r) \/ Produces(em_st.load, r)

\* The object get_next hands to decode belongs to no instruction in flight: with
\* as many objects per type as the pipeline has stages, no CyclicArray is used up.
NextSlotFree ==
  phase = "decode" /\ Valid(fd_st.load) /\ ~stopped(de_st) =>
    \A b \in {em_st.store, mw_st.store} :
      ~b.is_stall => b.instr # get_next(fd_st.load.instr.type)

\* A stage that skips its work because of a stop leaves a latch buffer marked
\* full but cleared; such a buffer is never the one processed.
NothingEmptyProcessed ==
  phase = "writeBack" =>
    /\ ~fd_st.load.is_stall => fd_st.load.instr = prog[fd_st.load.pc]
    /\ \A b \in {de_st.load, em_st.load, mw_st.load} :
         ~b.is_stall => b.instr # nullptr

\* While a system instruction is in the memory or write-back stage, nothing
\* behind it is processed: ECALL ends the run with no younger effect.
DrainBehindSystem ==
  phase = "writeBack" =>
    /\ Valid(em_st.load) /\ instrs[em_st.load.instr].op.type = "SYSTEM"
         => ~Valid(de_st.load)
    /\ Valid(mw_st.load) /\ instrs[mw_st.load.instr].op.type = "SYSTEM"
         => ~Valid(em_st.load) /\ ~Valid(de_st.load)

\* The fetch latch and the latch it fills are stopped and released together:
\* otherwise an instruction would be fetched twice or not at all.
StopsAgree ==
  phase = "writeBack" =>
    /\ wf_st.stop_count = fd_st.stop_count
    /\ de_st.stop_count <= fd_st.stop_count
    /\ em_st.stop_count = 0 /\ mw_st.stop_count = 0
=============================================================================
