----------------------------- MODULE DataMemory -----------------------------
(***************************************************************************)
(* The memory stage down to its bytes: PerfSim::memoryAccess, signExtend,  *)
(* the store pipeline of src/Pipeline.cpp and src/Memory.cpp.  A clock     *)
(* hands the stage an access (issue), the stage carries it out, or pushes  *)
(* it into the store pipeline, and the end of the clock writes what was    *)
(* pushed.                                                                 *)
(*                                                                         *)
(* Pipeline::update appends the store of the clock, full or empty, to its  *)
(* queue and takes the front out again, so that the queue is empty when    *)
(* push and searchData look at it: neither finds anything to concatenate   *)
(* with or to forward from.  The queue inside update is all there is.      *)
(***************************************************************************)
EXTENDS MemoryAccess, Sequences

VARIABLES
  is_sq,           \* Config::is_sq, stores go through the store pipeline
  bytes,           \* Memory::memory
  store,           \* Pipeline::store
  queue,           \* Pipeline::queue
  access,          \* the load or store of the instruction in the stage
  rd,              \* its destination register
  phase

vars == <<is_sq, bytes, store, queue, access, rd, phase>>

Store == [size : 0 .. 4, addr : Int, data : Value]
NoStore == [size |-> 0, addr |-> 0, data |-> Zero]

TypeOK ==
  /\ is_sq \in BOOLEAN
  /\ bytes \in [Location -> Byte]
  /\ store \in Store
  /\ queue \in Seq(Store)
  /\ access \in Accesses \cup {NoAccess}
  /\ rd \in Value
  /\ phase \in {"issue", "memoryAccess", "update", "aborted"}

Init ==
  /\ is_sq \in BOOLEAN
  /\ bytes = Image
  /\ store = NoStore
  /\ queue = <<>>
  /\ access = NoAccess
  /\ rd = Zero
  /\ phase = "issue"

-----------------------------------------------------------------------------
\* The bound check of Memory::read and Memory::write: addr + bytes > size in
\* 64-bit unsigned arithmetic, where a negative addr has been sign-extended.  A
\* sum that reaches zero wraps to a small number and passes.
InBounds(addr, n) == addr + n \in 0 .. MemBytes

\* What Memory::read leaves in a value: the first n bytes are copied from memory,
\* the others stay.  junk is what lies in front of memory, where only accesses
\* that wrap get.
ReadOver(old, addr, n, junk) ==
  [k \in Quarter |-> IF k >= n THEN old[k]
                     ELSE IF addr + k \in Location THEN bytes[addr + k]
                     ELSE junk[k]]

\* A mutant of Written: the whole value is copied whatever its size.
WrittenWhole(data, addr, n) ==
  [a \in Location |-> IF n > 0 /\ a - addr \in Quarter THEN data[a - addr]
                      ELSE bytes[a]]

\* Memory::write of the first n bytes of data.
Written(data, addr, n) ==
  [a \in Location |-> IF a - addr \in 0 .. n - 1 THEN data[a - addr]
                      ELSE bytes[a]]

\* How many values the low size bits have.
BitValues(size) == IF size = 1 THEN 2 ELSE 4

\* A mutant of signExtend: the bits above the mask are added, not set.
signExtendAdded(num, size, signed) ==
  LET low == num[0] % BitValues(size)
      negative == signed /\ 2 * low >= BitValues(size)
  IN
  IF size = 4 THEN num
  ELSE [k \in Quarter |-> IF k = 0 THEN low + (IF negative THEN ByteValues ELSE 0)
                          ELSE IF negative THEN ByteValues - 1 ELSE 0]

\* PerfSim::signExtend.  Its size is the acc_size of the load, in bytes, and is
\* used as a number of bits: only the lowest one or two bits are kept.
signExtend(num, size, signed) ==
  LET low == num[0] % BitValues(size)
      negative == signed /\ 2 * low >= BitValues(size)
  IN
  IF size = 4 THEN num
  ELSE [k \in Quarter |->
          IF k = 0 THEN low + (IF negative THEN ByteValues - BitValues(size) ELSE 0)
          ELSE IF negative THEN ByteValues - 1 ELSE 0]

\* A mutant of LoadedValue: the unsigned loads are not extended at all.
LoadedValueRaw(v, a) ==
  IF a.name \in {"LB", "LH", "LW"} THEN signExtend(v, Size(a), TRUE) ELSE v

\* memoryAccess: the value rd gets from the bytes v it has read.
LoadedValue(v, a) == signExtend(v, Size(a), a.name \in {"LB", "LH", "LW"})

-----------------------------------------------------------------------------
\* The latches change hands: the next access reaches the stage.
issue ==
  /\ phase = "issue" /\ phase' = "memoryAccess"
  /\ access' \in Accesses
  /\ rd' = Zero
  /\ UNCHANGED <<is_sq, bytes, store, queue>>

\* A store with the store pipeline: Pipeline::push.
push ==
  /\ phase = "memoryAccess" /\ phase' = "update"
  /\ IsWrite(access) /\ is_sq
  /\ store' = [size |-> Size(access), addr |-> access.addr, data |-> access.data]
  /\ UNCHANGED <<is_sq, bytes, queue, access, rd>>

\* A store without it.
writeThrough ==
  /\ phase = "memoryAccess" /\ phase' = "update"
  /\ IsWrite(access) /\ ~is_sq
  /\ InBounds(access.addr, Size(access))
  /\ bytes' = Written(access.data, access.addr, Size(access))
  /\ UNCHANGED <<is_sq, store, queue, access, rd>>

\* Pipeline::searchData: with nothing queued to forward, the bytes of memory over
\* the junk of a variable it has not initialised.
searchData(a, junk) == ReadOver(junk, a.addr, Size(a), junk)

\* A load; without the store pipeline, its bytes go over a zero.
load ==
  /\ phase = "memoryAccess" /\ phase' = "update"
  /\ IsRead(access)
  /\ InBounds(access.addr, Size(access))
  /\ \E junk \in Value :
       rd' = LoadedValue(IF is_sq THEN searchData(access, junk)
                         ELSE ReadOver(Zero, access.addr, Size(access), junk),
                         access)
  /\ UNCHANGED <<is_sq, bytes, store, queue, access>>

other ==
  /\ phase = "memoryAccess" /\ phase' = "update"
  /\ ~IsRead(access) /\ ~IsWrite(access)
  /\ UNCHANGED <<is_sq, bytes, store, queue, access, rd>>

\* Memory::read or Memory::write: "addr is out of memory".
accessThrow ==
  /\ phase = "memoryAccess" /\ phase' = "aborted"
  /\ IsRead(access) \/ (IsWrite(access) /\ ~is_sq)
  /\ ~InBounds(access.addr, Size(access))
  /\ UNCHANGED <<is_sq, bytes, store, queue, access, rd>>

-----------------------------------------------------------------------------
\* Pipeline::update: push_back(store), front(), pop_front().
Oldest == Head(Append(queue, store))

update ==
  /\ phase = "update" /\ phase' = "issue"
  /\ Oldest.size > 0 => InBounds(Oldest.addr, Oldest.size)
  /\ bytes' = Written(Oldest.data, Oldest.addr, Oldest.size)
  /\ queue' = Tail(Append(queue, store))
  /\ store' = NoStore
  /\ UNCHANGED <<is_sq, access, rd>>

updateThrow ==
  /\ phase = "update" /\ phase' = "aborted"
  /\ Oldest.size > 0 /\ ~InBounds(Oldest.addr, Oldest.size)
  /\ UNCHANGED <<is_sq, bytes, store, queue, access, rd>>

\* The exception has ended the program.
finished == phase = "aborted" /\ UNCHANGED vars

Next ==
  \/ issue
  \/ push \/ writeThrough \/ load \/ other \/ accessThrow
  \/ update \/ updateThrow
  \/ finished

Spec == Init /\ [][Next]_vars
=============================================================================
