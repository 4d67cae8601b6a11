---------------------------- MODULE LoaderSafety ----------------------------
(***************************************************************************)
(* What the start of the simulator achieves, for the files a linker makes. *)
(***************************************************************************)
EXTENDS Loader

\* An object of 32 bits, whose segments do not contradict each other, and where
\* a header of another type covers nothing that a loadable segment does not.
Consistent(f) ==
  /\ f.class = 32
  /\ \A g, h \in Headers(f) : \A a \in Location :
       Covers(g, a) /\ Covers(h, a) /\ Present(f, g) /\ Present(f, h)
         => ByteAt(f, g, a) = ByteAt(f, h, a)
  /\ \A h \in Headers(f) : \A a \in Location :
       Covers(h, a) => \E g \in Headers(f) : g.type = "LOAD" /\ Covers(g, a)

ASSUME ConsistentAssumption == \A f \in Files : Consistent(f)

\* Nothing of a machine exists before run() is called.
NoMachine == [memory |-> <<>>]
Started ==
  IF phase = "run" THEN "yes" ELSE IF phase = "aborted" THEN "failed" ELSE "no"
Machine ==
  IF phase = "run"
    THEN [memory |-> memory, pc |-> pc, sp |-> sp, sp_lock |-> sp_lock,
          trace |-> trace.file, log |-> log.file]
    ELSE NoMachine

Starts == INSTANCE ProgramStart WITH
  file <- path_to_data, started <- Started, machine <- Machine

\* The clock loop starts with the whole program in memory, zeros around it, the
\* stack pointer set and unlocked, and empty output files, or not at all: neither
\* a failure half-way through the headers nor what an earlier segment left in buf
\* is ever simulated.
StartsProgram == Starts!Spec
=============================================================================
