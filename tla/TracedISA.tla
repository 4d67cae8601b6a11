----------------------------- MODULE TracedISA -----------------------------
(***************************************************************************)
(* The machine of module ISA with its trace file.  An instruction takes    *)
(* effect in one step and owes its line, with the operands it read and the *)
(* result it computed; the next step writes the line.  A machine that dies *)
(* between the two never writes it.                                        *)
(***************************************************************************)
EXTENDS ISA, Trace

VARIABLES
  trace,      \* the first MaxLines lines of trace.txt, as they are on disk
  owed,       \* the line of the last instruction, if it is still to be written
  closed      \* the file is complete

tracedVars == <<vars, trace, owed, closed>>

TracedInit == Init /\ trace = <<>> /\ owed = <<>> /\ closed = FALSE

TraceStep ==
  /\ Step
  /\ owed = <<>>
  /\ owed' = IF IsTraced(Current)
               THEN <<Line([Current EXCEPT !.rd = Result(Current)])>>
               ELSE <<>>
  /\ UNCHANGED <<trace, closed>>

WriteLine ==
  /\ owed # <<>>
  /\ trace' = IF Len(trace) < MaxLines THEN trace \o owed ELSE trace
  /\ owed' = <<>>
  /\ UNCHANGED <<vars, closed>>

\* Only a machine that has halted closes its trace, and it owes nothing.
Close ==
  /\ halted /\ owed = <<>>
  /\ closed' = TRUE
  /\ UNCHANGED <<vars, trace, owed>>

TracedNext == TraceStep \/ WriteLine \/ Close

TracedSpec == TracedInit /\ [][TracedNext]_tracedVars
=============================================================================
