-------------------------- MODULE DataMemorySafety --------------------------
(***************************************************************************)
(* What the memory stage must do: carry accesses out one by one on bytes,  *)
(* whether stores go through the store pipeline or not.                    *)
(***************************************************************************)
EXTENDS DataMemory

\* The access in the stage has not been carried out yet: a store in the store
\* pipeline is carried out by update.
Pending ==
  \/ phase \in {"memoryAccess", "aborted"}
  \/ phase = "update" /\ store.size > 0

Bytes == INSTANCE ByteMemory WITH
  Extend <- LoadedValue,
  mem <- bytes,
  request <- IF Pending THEN access ELSE NoAccess,
  failed <- phase = "aborted"

\* Every load and store takes effect exactly once, on its own bytes, before the
\* next one reaches the stage, and only if it is in memory; the bytes searchData
\* leaves uninitialised never show.  The store pipeline is invisible.
ImplementsBytes == Bytes!Spec

\* No access of the program starts in front of memory and reaches its first byte.
NoAccessWraps ==
  \A a \in Accesses : Size(a) > 0 /\ InBounds(a.addr, Size(a)) => a.addr >= 0

\* RV32I's extension of the bytes read: the sign of the last one, or zero.
Extended(v, a) ==
  LET negative == a.name \in {"LB", "LH"} /\ 2 * v[Size(a) - 1] >= ByteValues IN
  [k \in Quarter |-> IF k < Size(a) THEN v[k]
                     ELSE IF negative THEN ByteValues - 1 ELSE 0]

\* A load leaves in rd the bytes it has read, extended as its name says.
LoadsExtend ==
  phase = "update" /\ IsRead(access) /\ access.addr \in Location =>
    rd = Extended([k \in Quarter |->
                     IF k < Size(access) THEN bytes[access.addr + k] ELSE 0], access)

\* An access the bound check lets through has all its bytes in memory.
AccessesInMemory ==
  phase = "issue" =>
    \A k \in 0 .. Size(access) - 1 : access.addr + k \in Location
=============================================================================
