-------------------------- MODULE PerfSimInvariant --------------------------
(***************************************************************************)
(* An inductive invariant of PerfSim, as a conjunction of named parts, from *)
(* which the properties of PerfSimSafety follow.  It says, phase by phase, *)
(* which latch buffers carry an instruction and what is known of it.       *)
(***************************************************************************)
EXTENDS PerfSimSafety

\* The buffer carries an instruction, to be processed or to be dropped.
Live(buffer) == ~buffer.is_stall

OpOf(buffer) == instrs[buffer.instr].op

IsSystem(buffer) == Live(buffer) /\ OpOf(buffer).type = "SYSTEM"

\* A live buffer points to an object.
Points(buffer) == Live(buffer) => buffer.instr \in Pointer

PointersInv ==
  /\ Points(de_st.load)
  /\ Points(em_st.load) /\ Points(em_st.store)
  /\ Points(mw_st.load) /\ Points(mw_st.store)
  /\ phase \in {"fetch", "update"} => Points(Handover(de_st))

\* What fetch left in fd_st is an instruction of the program, unless it was
\* skipped and the latch is stopped.
FetchedInv ==
  /\ Live(fd_st.load) =>
       fd_st.load.pc \in Address /\ fd_st.load.instr = prog[fd_st.load.pc]
  /\ phase = "update" /\ Live(fd_st.store) /\ ~stopped(fd_st) =>
       fd_st.store.pc \in Address /\ fd_st.store.instr = prog[fd_st.store.pc]

\* Only hu_exit stops de_st, on a system instruction it squashes.
StopsInv ==
  /\ wf_st.stop_count = fd_st.stop_count
  /\ de_st.stop_count <= fd_st.stop_count
  /\ em_st.stop_count = 0 /\ mw_st.stop_count = 0
  /\ stopped(de_st) => de_st.load.hazard_stall /\ IsSystem(de_st.load)

\* The slot of the last object of type t handed out, and of the one before.
Prev(i) == IF i = 0 THEN Stages - 1 ELSE i - 1
Last(p)     == p[2] = Prev(index[p[1]])
LastTwo(p)  == Last(p) \/ p[2] = Prev(Prev(index[p[1]]))

\* An instruction one stage further is at most one decode older.
RingInv ==
  /\ phase \in {"writeBack", "memoryAccess", "execute"} \/ stopped(de_st)
       => (Live(de_st.load) => Last(de_st.load.instr))
  /\ phase \in {"writeBack", "memoryAccess"}
       => (Live(em_st.load) => LastTwo(em_st.load.instr))
  /\ phase \in {"execute", "decode"}
       => (Live(mw_st.store) => LastTwo(mw_st.store.instr))
  /\ phase = "decode" => (Live(em_st.store) => Last(em_st.store.instr))
  /\ phase \in {"fetch", "update"}
       => /\ Live(em_st.store) => LastTwo(em_st.store.instr)
          /\ Live(Handover(de_st)) => Last(de_st.store.instr)

\* Until the latches are updated, what a stage has stored is what it loaded.
LinksInv ==
  /\ phase \in {"execute", "decode"} /\ Live(mw_st.store)
       => Valid(em_st.load) /\ mw_st.store.instr = em_st.load.instr
  /\ phase = "decode" /\ Live(em_st.store)
       => /\ Live(de_st.load) /\ em_st.store.instr = de_st.load.instr
          /\ de_st.load.hazard_stall => IsSystem(de_st.load)

\* The stop of hu_exit outlasts the system instruction on its way out.
DrainInv ==
  /\ phase \in {"writeBack", "memoryAccess"} /\ IsSystem(em_st.load)
       => 2 < de_st.stop_count
  /\ phase \in {"execute", "decode", "fetch", "update"} /\ IsSystem(mw_st.store)
       => 2 < de_st.stop_count
  /\ phase \in {"decode", "fetch", "update"} /\ IsSystem(em_st.store)
       => 3 < de_st.stop_count
  /\ phase \in {"decode", "fetch", "update"} /\ IsSystem(mw_st.store)
       => em_st.store.is_stall
  /\ phase = "writeBack" /\ IsSystem(mw_st.load)
       => 1 < de_st.stop_count /\ em_st.load.is_stall

IInv ==
  /\ TypeOK /\ PointersInv /\ FetchedInv /\ StopsInv
  /\ phase # "aborted" => RingInv /\ LinksInv /\ DrainInv
  /\ LockBalance
=============================================================================
