---------------------------- MODULE PerfSimTrace ----------------------------
(***************************************************************************)
(* The simulator with its output: trace.txt, to which writeBack adds a     *)
(* line for each instruction that retires, and Log.txt, to which run()     *)
(* writes the performance figures once the clock loop has ended.  An       *)
(* uncaught exception ends the process where it stands: what is not in the *)
(* files by then never gets there.                                         *)
(***************************************************************************)
EXTENDS PerfSimISA, Trace, Log

VARIABLES
  trace,      \* Config::trace
  log         \* Config::log

tracedVars == <<vars, trace, log>>

TracedInit == Init /\ trace = Opened /\ log = Opened

\* A mutant of dumpInstruction: rd is what the register held before.
dumpInstructionEarly(i) ==
  IF IsTraced(i) /\ Len(trace.file) < MaxLines
    THEN endl(print(trace, Line([i EXCEPT !.rd = regs[i.op.rd]])))
    ELSE trace

\* PerfSim::dumpInstruction, called by writeBack on the object that retires.
dumpInstruction(i) ==
  IF IsTraced(i) /\ Len(trace.file) < MaxLines
    THEN endl(print(trace, Line(i)))
    ELSE trace

retireTraced ==
  /\ retire
  /\ trace' = dumpInstruction(instrs[mw_st.load.instr])
  /\ UNCHANGED log

stageCall ==
  /\ \/ writeBackBubble \/ memoryAccess \/ execute \/ decode \/ fetch
     \/ updateLatches
  /\ UNCHANGED <<trace, log>>

\* PerfSim::dump and HazardUnit::dump.  Times are left out.
Figures == [ic |-> ic, clocks |-> clocks, stops |-> hu.stops,
            branches |-> hu.branches, bypasses_mem_ex |-> hu.bypasses_mem_ex,
            bypasses_wb_ex |-> hu.bypasses_wb_ex]

\* The end of run().
dump ==
  /\ phase = "stopped" /\ log.is_open /\ log.file = <<>>
  /\ log' = endl(print(log, Figures))
  /\ UNCHANGED <<vars, trace>>

\* main returns: the destructor of Config closes both files.
exit ==
  /\ phase = "stopped" /\ log.is_open /\ log.file # <<>>
  /\ trace' = close(trace) /\ log' = close(log)
  /\ UNCHANGED vars

exited == (phase = "aborted" \/ ~log.is_open) /\ UNCHANGED tracedVars

TracedNext == retireTraced \/ stageCall \/ dump \/ exit \/ exited

TracedSpec == TracedInit /\ [][TracedNext]_tracedVars
FairTracedSpec == TracedSpec /\ WF_tracedVars(TracedNext)

-----------------------------------------------------------------------------
\* The line of the instruction that has taken effect and has not retired; a store
\* out of memory never takes effect.
Owed ==
  IF Valid(AtWriteBack) /\ ~Doomed /\ IsTraced(Retiring)
    THEN <<Line(Retiring)>>
    ELSE <<>>

Traced == INSTANCE TracedISA WITH
  pc <- ArchPc, regs <- ArchRegs, mem <- ArchMem, halted <- ArchHalted,
  trace <- trace.file, owed <- Owed, closed <- ~trace.is_open

\* At every moment the file trace.txt holds the lines of the instructions that
\* have retired, each once, in the order of the program, with the operands it had
\* and the result it computed.  An instruction retires before the next one takes
\* effect: when an exception ends the process, no line is missing but that of the
\* one instruction which had reached the memory stage in that clock.  When main
\* returns, the program has halted and no line is missing.
TracesISA == Traced!TracedSpec

\* The instruction after a load takes both operands from it, and counts two stops.
UsesLoadTwice(a) ==
  LET b == Plus(a, 1)  w == prog[b] IN
  /\ b \in Address /\ is_load(prog[a])
  /\ ReadsRs1(w) /\ ReadsRs2(w) /\ w.rs1 = prog[a].rd /\ w.rs2 = prog[a].rd

\* Programs without the two cases whose bubbles the figures do not show: the five
\* behind a system instruction other than ECALL, and the stop counted twice.
Accountable ==
  \A a \in Address :
    /\ prog[a].type = "SYSTEM" => prog[a].name = "ECALL"
    /\ ~UsesLoadTwice(a)

\* The figures in Log.txt account for every clock: four to fill the pipeline,
\* one per retired instruction, two per taken jump, one per stop.
CycleAccounting ==
  log.file # <<>> /\ Accountable
    => LET figures == log.file[1] IN
       figures.clocks = figures.ic + 4 + 2 * figures.branches + figures.stops

\* A program that counts down to its ECALL, or has no backward jumps, runs to
\* it: run() reports its figures and main returns.
Terminates == <>(log.file # <<>> /\ ~log.is_open)
=============================================================================
