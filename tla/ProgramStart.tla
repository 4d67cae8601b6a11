---------------------------- MODULE ProgramStart ----------------------------
(***************************************************************************)
(* What starting the simulator promises: the machine appears in one step,  *)
(* with the loadable segments of the program in memory and all else zero,  *)
(* or the process ends before anything is simulated.                       *)
(***************************************************************************)
EXTENDS ProgramFile

\* Memory with the loadable segments, argc over them, and zeros.
Loaded(f) ==
  [a \in Location |->
     IF ~IsArgc(a) /\ \E h \in Headers(f) : h.type = "LOAD" /\ Covers(h, a)
       THEN ByteAt(f, CHOOSE h \in Headers(f) : h.type = "LOAD" /\ Covers(h, a), a)
       ELSE 0]

VARIABLES
  file,         \* the file at the path
  started,      \* "no", "yes" or "failed"
  machine       \* the machine that runs

NoMachine == [memory |-> <<>>]

Init == file \in Files /\ started = "no" /\ machine = NoMachine

Start ==
  /\ started = "no" /\ started' = "yes"
  /\ file.is_elf
  /\ \A h \in Headers(file) : Present(file, h) /\ Fits(h)
  /\ machine' = [memory |-> Loaded(file), pc |-> file.entry, sp |-> StackTop,
                 sp_lock |-> 0, trace |-> <<>>, log |-> <<>>]
  /\ UNCHANGED file

\* The file is no program, cannot be read, or does not fit; or an output file
\* cannot be opened.
Fail ==
  /\ started = "no" /\ started' = "failed"
  /\ UNCHANGED <<file, machine>>

Spec == Init /\ [][Start \/ Fail]_<<file, started, machine>>
=============================================================================
