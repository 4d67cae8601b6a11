------------------------------- MODULE Stage -------------------------------
(***************************************************************************)
(* The double-buffered latch between two pipeline stages: the class        *)
(* template Stage<T> of headers/Stage.h.                                   *)
(*                                                                         *)
(* A stage owns two buffers.  The stage before it fills the one called     *)
(* store, the stage after it reads the one called load, and update() swaps *)
(* them at the end of every clock, unless the latch has been stopped for   *)
(* stop_count clocks.                                                      *)
(***************************************************************************)
EXTENDS Naturals

\* The type of a latch whose buffers are elements of T.
StageOf(T) == [store : T, load : T, stop_count : Nat]

\* is_stop(): the latch holds its contents at the end of this clock.
stopped(st) == st.stop_count > 0

\* extend(count): hold the latch for count more clocks.
extend(st, count) == [st EXCEPT !.stop_count = @ + count]

\* Mutants of update: the early return of a stopped latch is lost; the buffer
\* given back to the writer is not cleared.
updateWhileStopped(st, empty) ==
  [store |-> empty, load |-> st.store,
   stop_count |-> IF stopped(st) THEN st.stop_count - 1 ELSE 0]
updateWithoutClear(st, empty) ==
  IF stopped(st)
    THEN [st EXCEPT !.stop_count = @ - 1]
    ELSE [store |-> st.load, load |-> st.store, stop_count |-> 0]

\* update(): count down while stopped; otherwise hand the filled buffer to the
\* reader, and give the writer the other one, emptied by clear().
update(st, empty) ==
  IF stopped(st)
    THEN [st EXCEPT !.stop_count = @ - 1]
    ELSE [store |-> empty, load |-> st.store, stop_count |-> 0]
=============================================================================
