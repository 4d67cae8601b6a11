----------------------- MODULE PerfSimTraceInvariant -----------------------
(***************************************************************************)
(* The invariants behind what the simulator writes.  TraceInv is about the *)
(* file trace.txt; AccountInv, for programs that are accountable, safe or   *)
(* not, follows every slot of the pipeline from fetch to writeBack, so that *)
(* each clock is one instruction retired or one bubble accounted for.      *)
(***************************************************************************)
EXTENDS PerfSimTrace, PerfSimISAInvariant

\* The trace file is on disk up to the last line, and open until main returns.
Lines   == {Line(i) : i \in InstructionObject}
Flushed == [is_open : BOOLEAN, buffer : {<<>>}, file : Seq(Lines)]
TraceInv == trace \in Flushed /\ (phase # "stopped" => trace.is_open)

\* Nothing is in front of writeBack when the clock loop ends: every instruction
\* that has taken effect has retired.
HaltedInv ==
  /\ phase = "stopped" => is_stop /\ ~Valid(mw_st.load)
  /\ is_stop /\ phase \in {"execute"} \cup Late => ~Live(mw_st.store)

\* Log.txt has the figures of the end of the run, or is still empty.
Reported == [is_open : BOOLEAN, buffer : {<<>>}, file : {<<Figures>>}]
LogInv == log = Opened \/ (phase = "stopped" /\ log \in Reported)

-----------------------------------------------------------------------------
Running == phase \in Early \cup Late

\* A taken jump squashes the two slots behind it in its own clock, in which no
\* latch is stopped.
SquashInv ==
  /\ fd_st.store.hazard_stall <=> wf_st.store.is_jump
  /\ de_st.store.hazard_stall <=> wf_st.store.is_jump
  /\ wf_st.store.is_jump =>
       /\ phase \in Late /\ ~stopped(fd_st) /\ Valid(fd_st.load)
       /\ phase = "decode" => Valid(de_st.load) /\ Jumps(Obj(de_st.load))

\* What the front stages have done in this clock, and that a stop of the fetch
\* latch alone lasts for one.
FrontInv ==
  /\ Valid(wf_st.load) /\ Valid(wf_st.store)
  /\ phase \in Early \cup {"decode"} /\ stopped(fd_st) => stopped(de_st)
  /\ phase \in {"fetch", "update"} /\ ~stopped(de_st) =>
       /\ stopped(fd_st) => fd_st.stop_count = 1 /\ Valid(fd_st.load)
       /\ Live(de_st.store) <=> Valid(fd_st.load)
       /\ Live(de_st.store) =>
            /\ Obj(de_st.store).pc = fd_st.load.pc
            /\ Obj(de_st.store).op = fd_st.load.instr
  /\ phase = "update" /\ ~stopped(fd_st) =>
       /\ Live(fd_st.store)
       /\ fd_st.store.pc = FetchPc
       /\ wf_st.store.pc = Plus(FetchPc, 1)

\* What execute has done, before decode stalls it for the instruction behind.
BackInv ==
  /\ phase \in Early \cup {"stopped"} =>
       ~Live(em_st.store) /\ ~em_st.store.hazard_stall
  /\ phase = "decode" =>
       /\ ~em_st.store.hazard_stall
       /\ ~stopped(de_st) => (Live(em_st.store) <=> Valid(de_st.load))

\* Behind a decoded instruction comes the next one of the program, or, after a
\* stop, the same one again.
OrderInv ==
  /\ Running /\ Valid(fd_st.load) => FetchPc = Plus(fd_st.load.pc, 1)
  /\ phase \in Early \cup {"decode"} /\ Valid(de_st.load) =>
       LET i == Obj(de_st.load) IN
       /\ OfProgram(i) /\ Valid(fd_st.load)
       /\ fd_st.load.pc \in {i.pc, Plus(i.pc, 1)}

\* The instruction of an object that was ever used is one of the program.
OpsInv ==
  \A p \in Pointer :
    instrs[p].op = ZeroWord \/ \E a \in Address : instrs[p].op = prog[a]

\* A system instruction that is processed.
Sys(buffer) == Valid(buffer) /\ OpOf(buffer).type = "SYSTEM"

\* In the clock that ends the run the front is stopped and nothing executes.
EndInv == is_stop =>
  \/ phase \in {"stopped", "aborted"}
  \/ phase # "writeBack" /\ stopped(de_st) /\ ~Live(em_st.store)

\* The clocks that the figures account for, and the bubbles still in the pipeline.
Accounted == ic + 4 + 2 * hu.branches + hu.stops
Bubble(buffer) == IF Valid(buffer) THEN 0 ELSE 1

CountInv ==
  /\ phase = "writeBack" =>
       IF stopped(de_st)
         THEN \/ Sys(em_st.load) /\ Accounted = clocks + Bubble(mw_st.load)
              \/ Sys(mw_st.load) /\ Accounted = clocks
         ELSE Accounted = clocks + Bubble(mw_st.load) + Bubble(em_st.load)
                            + Bubble(de_st.load) + Bubble(fd_st.load)
  /\ phase \in {"memoryAccess", "execute"} =>
       IF stopped(de_st)
         THEN (Sys(em_st.load) \/ is_stop) /\ Accounted = clocks + 1
         ELSE Accounted = clocks + 1 + Bubble(em_st.load)
                            + Bubble(de_st.load) + Bubble(fd_st.load)
  /\ phase \in Late =>
       IF stopped(de_st)
         THEN \/ Sys(em_st.store) /\ Accounted = clocks + 1 + Bubble(mw_st.store)
              \/ (Sys(mw_st.store) \/ is_stop) /\ Accounted = clocks + 1
         ELSE Accounted = clocks + 1 + Bubble(mw_st.store) + Bubble(em_st.store)
                            + Bubble(fd_st.load)
                            + (IF wf_st.store.is_jump THEN 2 ELSE 0)
  /\ phase = "stopped" => Accounted = clocks

AccountInv ==
  Accountable /\ phase # "aborted" =>
    SquashInv /\ FrontInv /\ BackInv /\ OrderInv /\ OpsInv /\ EndInv /\ CountInv
=============================================================================
