----------------------------- MODULE ByteMemory -----------------------------
(***************************************************************************)
(* What the memory stage promises to the program: accesses are carried out *)
(* one at a time, each in a single step, on an array of bytes; an access   *)
(* that does not lie in memory stops the simulation.                       *)
(***************************************************************************)
EXTENDS MemoryAccess

CONSTANT
  Extend(_, _)  \* the value of rd for the bytes a load has read

VARIABLES
  mem,         \* the bytes
  request,     \* the access asked for and not yet carried out
  rd,          \* what the last load put in its destination register
  failed

vars == <<mem, request, rd, failed>>

Init ==
  /\ mem = Image
  /\ request = NoAccess
  /\ rd = Zero
  /\ failed = FALSE

Ask ==
  /\ request = NoAccess /\ ~failed
  /\ request' \in Accesses
  /\ rd' = Zero
  /\ UNCHANGED <<mem, failed>>

\* All bytes of the access are in memory.
Inside == \A k \in 0 .. Size(request) - 1 : request.addr + k \in Location

Perform ==
  /\ ~failed /\ Inside
  /\ mem' = IF IsWrite(request)
              THEN [a \in Location |->
                      IF a - request.addr \in 0 .. Size(request) - 1
                        THEN request.data[a - request.addr] ELSE mem[a]]
              ELSE mem
  /\ rd' = IF IsRead(request)
             THEN Extend([k \in Quarter |->
                            IF k < Size(request) THEN mem[request.addr + k]
                            ELSE 0], request)
             ELSE rd
  /\ request' = NoAccess
  /\ UNCHANGED failed

Refuse ==
  /\ ~failed /\ ~Inside
  /\ failed' = TRUE
  /\ UNCHANGED <<mem, request, rd>>

Next == Ask \/ Perform \/ Refuse

Spec == Init /\ [][Next]_vars
=============================================================================
