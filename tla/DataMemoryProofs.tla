-------------------------- MODULE DataMemoryProofs --------------------------
(***************************************************************************)
(* The memory stage implements the byte memory, for every memory, byte     *)
(* width and set of accesses that do not wrap, with and without the store  *)
(* pipeline.                                                               *)
(***************************************************************************)
EXTENDS DataMemorySafety, TLAPS

\* Between two clocks the store pipeline is empty; after the memory stage it
\* holds the store of this clock and nothing else.
StoreInv ==
  /\ queue = <<>>
  /\ phase \in {"issue", "memoryAccess"} => store = NoStore
  /\ phase = "update" =>
       store = IF is_sq /\ IsWrite(access)
                 THEN [size |-> Size(access), addr |-> access.addr,
                       data |-> access.data]
                 ELSE NoStore

MemInv == TypeOK /\ StoreInv

\* What the name of an access says of its size.
LEMMA SizeType ==
  ASSUME NEW a \in Access
  PROVE  /\ Size(a) \in {0, 1, 2, 4}
         /\ Size(a) > 0 <=> IsRead(a) \/ IsWrite(a)
         /\ ~(IsRead(a) /\ IsWrite(a))
         /\ IsRead(a) => a.name \in {"LB", "LH", "LW", "LBU", "LHU"}
BY DEF Access, AccessName, Size, IsRead, IsWrite

LEMMA NoAccessType == NoAccess \in Access /\ Zero \in Value
BY MemoryAssumption DEF NoAccess, Access, AccessName, Value, Zero, Byte, Quarter

LEMMA AccessType == TypeOK => access \in Access
BY MemoryAssumption, NoAccessType DEF TypeOK

\* Extending a value yields a value.
LEMMA LoadedType ==
  ASSUME NEW v \in Value, NEW a \in Access, IsRead(a)
  PROVE  LoadedValue(v, a) \in Value
<1> DEFINE n == Size(a)
           b == BitValues(n)
           low == v[0] % b
<1>1. n \in {1, 2, 4} BY SizeType
<1>2. b \in {2, 4} /\ v[0] \in Byte
  BY DEF BitValues, Value, Quarter
<1>3. low \in 0 .. b - 1
  <2>1. v[0] % 2 \in 0 .. 1 /\ v[0] % 4 \in 0 .. 3
    BY <1>2, MemoryAssumption DEF Byte
  <2> QED BY <2>1, <1>2
<1>4. \A c \in BOOLEAN : \A k \in Quarter :
        (IF k = 0 THEN low + (IF c THEN ByteValues - b ELSE 0)
         ELSE IF c THEN ByteValues - 1 ELSE 0) \in Byte
  <2> HIDE DEF low
  <2>1. ByteValues \in Nat /\ 4 <= ByteValues BY MemoryAssumption
  <2>2. low \in Nat /\ low < b /\ b <= 4 BY <1>2, <1>3
  <2> HIDE DEF b
  <2> QED BY <1>2, <2>1, <2>2 DEF Byte, Quarter
<1> HIDE DEF low
<1>5. CASE n = 4 BY <1>5 DEF LoadedValue, signExtend
<1>6. CASE n # 4
  <2> DEFINE c == a.name \in {"LB", "LH", "LW"} /\ 2 * low >= b
  <2>1. LoadedValue(v, a) =
          [k \in Quarter |->
             IF k = 0 THEN low + (IF c THEN ByteValues - b ELSE 0)
             ELSE IF c THEN ByteValues - 1 ELSE 0]
    BY <1>6 DEF LoadedValue, signExtend, low
  <2>2. c \in BOOLEAN OBVIOUS
  <2> HIDE DEF c, b
  <2> QED BY <2>1, <2>2, <1>4 DEF Value
<1> QED BY <1>5, <1>6

LEMMA ReadType ==
  ASSUME TypeOK, NEW old \in Value, NEW junk \in Value, NEW addr \in Int,
         NEW n \in Nat
  PROVE  ReadOver(old, addr, n, junk) \in Value
BY DEF TypeOK, ReadOver, Value, Quarter

LEMMA WrittenType ==
  ASSUME TypeOK, NEW data \in Value, NEW addr \in Int, NEW n \in 0 .. 4
  PROVE  Written(data, addr, n) \in [Location -> Byte]
<1> SUFFICES ASSUME NEW a \in Location
             PROVE  (IF a - addr \in 0 .. n - 1 THEN data[a - addr] ELSE bytes[a])
                      \in Byte
  BY DEF Written
<1>1. bytes[a] \in Byte BY DEF TypeOK
<1>2. a - addr \in 0 .. n - 1 => a - addr \in Quarter
  BY DEF Quarter
<1> QED BY <1>1, <1>2 DEF Value

\* Writing no bytes changes nothing.
LEMMA WrittenNone ==
  ASSUME TypeOK, NEW data, NEW addr \in Int
  PROVE  Written(data, addr, 0) = bytes
BY MemoryAssumption DEF TypeOK, Written, Location

\* With an empty queue, update writes the store of this clock.
LEMMA OldestStore ==
  ASSUME TypeOK, queue = <<>>
  PROVE  Oldest = store /\ Tail(Append(queue, store)) = <<>>
BY DEF TypeOK, Oldest

-----------------------------------------------------------------------------
LEMMA MemInvInit == Init => MemInv
BY MemoryAssumption, NoAccessType
DEF Init, MemInv, TypeOK, StoreInv, Store, NoStore

LEMMA MemInvStep == MemInv /\ [Next]_vars => MemInv'
<1> SUFFICES ASSUME MemInv, [Next]_vars PROVE MemInv'
  OBVIOUS
<1> USE DEF MemInv
<1>0. access \in Access /\ NoAccess \in Access /\ Zero \in Value
  BY AccessType, NoAccessType
<1>1. CASE issue
  BY <1>0, <1>1 DEF issue, TypeOK, StoreInv
<1>2. CASE push
  <2>1. store' \in Store
    BY <1>0, <1>2, SizeType DEF push, Store, Access
  <2> QED BY <1>2, <2>1 DEF push, TypeOK, StoreInv
<1>3. CASE writeThrough
  <2>1. bytes' \in [Location -> Byte]
    BY <1>0, <1>3, SizeType, WrittenType DEF writeThrough, Access
  <2> QED BY <1>3, <2>1 DEF writeThrough, TypeOK, StoreInv
<1>4. CASE load
  <2>1. PICK junk \in Value :
          rd' = LoadedValue(ReadOver(IF is_sq THEN junk ELSE Zero, access.addr,
                                     Size(access), junk), access)
    BY <1>4 DEF load, searchData
  <2>2. rd' \in Value
    BY <1>0, <1>4, <2>1, SizeType, ReadType, LoadedType DEF load, Access
  <2>3. ~IsWrite(access) BY <1>0, <1>4, SizeType DEF load
  <2> QED BY <1>4, <2>2, <2>3 DEF load, TypeOK, StoreInv
<1>5. CASE other
  BY <1>5 DEF other, TypeOK, StoreInv
<1>6. CASE accessThrow
  BY <1>6 DEF accessThrow, TypeOK, StoreInv
<1>7. CASE update
  <2>1. Oldest = store /\ Tail(Append(queue, store)) = <<>>
    BY OldestStore DEF StoreInv
  <2>2. bytes' \in [Location -> Byte]
    BY <1>7, <2>1, WrittenType DEF update, TypeOK, Store
  <2>3. NoStore \in Store BY <1>0 DEF NoStore, Store
  <2> QED BY <1>7, <2>1, <2>2, <2>3 DEF update, TypeOK, StoreInv
<1>8. CASE updateThrow
  BY <1>8 DEF updateThrow, TypeOK, StoreInv
<1>9. CASE UNCHANGED vars
  BY <1>9 DEF vars, TypeOK, StoreInv
<1> QED BY <1>1, <1>2, <1>3, <1>4, <1>5, <1>6, <1>7, <1>8, <1>9
    DEF Next, finished

\* The store pipeline holds at most the store of this clock, and every variable
\* has its type.
THEOREM MemoryInvariance == Spec => []MemInv
BY MemInvInit, MemInvStep, PTL DEF Spec

\* Type correctness of the memory stage.
THEOREM MemoryTypeCorrect == Spec => []TypeOK
<1>1. MemInv => TypeOK BY DEF MemInv
<1> QED BY <1>1, MemoryInvariance, PTL

-----------------------------------------------------------------------------
\* The bound check tells what is in memory, for accesses that do not wrap.
LEMMA BoundCheck ==
  ASSUME TypeOK, NoAccessWraps, Size(access) > 0
  PROVE  InBounds(access.addr, Size(access)) <=>
           \A k \in 0 .. Size(access) - 1 : access.addr + k \in Location
<1>1. access \in Accesses
  BY DEF TypeOK, NoAccess, Size
<1>2. access.addr \in Int /\ Size(access) \in {1, 2, 4}
  BY AccessType, SizeType DEF Access
<1>3. InBounds(access.addr, Size(access)) => access.addr >= 0
  BY <1>1 DEF NoAccessWraps
<1>4. ASSUME InBounds(access.addr, Size(access)),
             NEW k \in 0 .. Size(access) - 1
      PROVE  access.addr + k \in Location
  BY <1>2, <1>3, <1>4, MemoryAssumption DEF InBounds, Location
<1>5. ASSUME \A k \in 0 .. Size(access) - 1 : access.addr + k \in Location
      PROVE  InBounds(access.addr, Size(access))
  <2>1. access.addr + 0 \in Location /\ access.addr + (Size(access) - 1) \in Location
    BY <1>2, <1>5
  <2> QED BY <1>2, <2>1, MemoryAssumption DEF InBounds, Location
<1> QED BY <1>4, <1>5

\* The bytes a load has not read do not show in its result.
LEMMA JunkInvisible ==
  ASSUME TypeOK, NEW junk \in Value, NEW old \in Value, IsRead(access),
         \A k \in 0 .. Size(access) - 1 : access.addr + k \in Location
  PROVE  LoadedValue(ReadOver(old, access.addr, Size(access), junk), access)
           = LoadedValue([k \in Quarter |->
                            IF k < Size(access) THEN bytes[access.addr + k]
                            ELSE 0], access)
<1>1. Size(access) \in {1, 2, 4} /\ access.addr \in Int
  BY AccessType, SizeType DEF Access
<1> DEFINE v == ReadOver(old, access.addr, Size(access), junk)
           w == [k \in Quarter |-> IF k < Size(access)
                                     THEN bytes[access.addr + k] ELSE 0]
<1>2. v[0] = w[0] BY <1>1 DEF ReadOver, Quarter
<1>3. CASE Size(access) = 4
  BY <1>1, <1>3 DEF ReadOver, Quarter
<1>4. CASE Size(access) # 4
  <2> HIDE DEF v, w
  <2>1. LoadedValue(v, access) = LoadedValue(w, access)
    BY <1>2, <1>4 DEF LoadedValue, signExtend
  <2> QED BY <2>1 DEF v, w
<1> QED BY <1>3, <1>4

\* The byte memory uses the same constants and the same names of accesses.
LEMMA SameAccesses ==
  /\ Bytes!Location = Location
  /\ Bytes!Quarter = Quarter
  /\ Bytes!Zero = Zero
  /\ Bytes!NoAccess = NoAccess
  /\ \A a : /\ Bytes!Size(a) = Size(a)
            /\ Bytes!IsRead(a) <=> IsRead(a)
            /\ Bytes!IsWrite(a) <=> IsWrite(a)
BY DEF Bytes!Location, Location, Bytes!Quarter, Quarter, Bytes!Zero, Zero,
       Bytes!NoAccess, NoAccess, Bytes!Size, Size, Bytes!IsRead, IsRead,
       Bytes!IsWrite, IsWrite

\* The refinement mapping of DataMemorySafety.
Request == IF Pending THEN access ELSE NoAccess

LEMMA BytesInit == Init => Bytes!Init
BY SameAccesses DEF Init, Bytes!Init, Pending, NoStore

\* A step that carries the access out is a Perform step of the byte memory.
LEMMA PerformStep ==
  ASSUME TypeOK, Pending, phase # "aborted", ~Pending', phase' # "aborted",
         \A k \in 0 .. Size(access) - 1 : access.addr + k \in Location,
         bytes' = IF IsWrite(access)
                    THEN Written(access.data, access.addr, Size(access))
                    ELSE bytes,
         rd' = IF IsRead(access)
                 THEN LoadedValue([k \in Quarter |->
                                     IF k < Size(access)
                                       THEN bytes[access.addr + k] ELSE 0], access)
                 ELSE rd
  PROVE  Bytes!Perform
<1>1. Request = access /\ Request' = NoAccess BY DEF Request
<1> QED
  BY <1>1, SameAccesses DEF Bytes!Perform, Bytes!Inside, Request, Written

LEMMA BytesStep ==
  ASSUME MemInv, NoAccessWraps, [Next]_vars
  PROVE  [Bytes!Next]_(Bytes!vars)
<1> USE DEF MemInv
<1>0. access \in Access /\ Size(access) \in {0, 1, 2, 4} /\ access.addr \in Int
  BY AccessType, SizeType DEF Access
<1>1. CASE issue
  <2>1. ~Pending /\ Pending' BY <1>1 DEF issue, Pending
  <2>2. Bytes!Ask
    BY <1>1, <2>1, SameAccesses DEF issue, Bytes!Ask
  <2> QED BY <2>2 DEF Bytes!Next
<1>2. CASE push
  <2>1. Pending /\ Pending'
    BY <1>0, <1>2, SizeType DEF push, Pending
  <2> QED BY <1>2, <2>1 DEF push, Bytes!vars
<1>3. CASE writeThrough
  <2>1. Pending /\ ~Pending' /\ Size(access) > 0 /\ ~IsRead(access)
    BY <1>0, <1>3, SizeType DEF writeThrough, Pending, StoreInv, NoStore
  <2>2. Bytes!Perform
    BY <1>3, <2>1, BoundCheck, PerformStep DEF writeThrough
  <2> QED BY <2>2 DEF Bytes!Next
<1>4. CASE load
  <2>1. Pending /\ ~Pending' /\ Size(access) > 0 /\ ~IsWrite(access)
    BY <1>0, <1>4, SizeType DEF load, Pending, StoreInv, NoStore
  <2>2. \A k \in 0 .. Size(access) - 1 : access.addr + k \in Location
    BY <1>4, <2>1, BoundCheck DEF load
  <2>3. PICK junk \in Value :
          rd' = LoadedValue(ReadOver(IF is_sq THEN junk ELSE Zero, access.addr,
                                     Size(access), junk), access)
    BY <1>4 DEF load, searchData
  <2>4. (IF is_sq THEN junk ELSE Zero) \in Value BY NoAccessType
  <2>5. rd' = LoadedValue([k \in Quarter |-> IF k < Size(access)
                             THEN bytes[access.addr + k] ELSE 0], access)
    BY <1>4, <2>2, <2>3, <2>4, JunkInvisible DEF load
  <2>6. Bytes!Perform
    BY <1>4, <2>1, <2>2, <2>5, PerformStep DEF load
  <2> QED BY <2>6 DEF Bytes!Next
<1>5. CASE other
  <2>1. Pending /\ ~Pending' /\ Size(access) = 0
    BY <1>0, <1>5, SizeType DEF other, Pending, StoreInv, NoStore
  <2>2. Bytes!Perform
    BY <1>5, <2>1, PerformStep DEF other
  <2> QED BY <2>2 DEF Bytes!Next
<1>6. CASE accessThrow
  <2>1. Pending /\ Pending' /\ Size(access) > 0
    BY <1>0, <1>6, SizeType DEF accessThrow, Pending
  <2>2. Bytes!Refuse
    BY <1>6, <2>1, BoundCheck, SameAccesses
    DEF accessThrow, Bytes!Refuse, Bytes!Inside
  <2> QED BY <2>2 DEF Bytes!Next
<1>7. CASE update
  <2>1. Oldest = store /\ ~Pending'
    BY <1>7, OldestStore DEF update, StoreInv, Pending
  <2>2. CASE is_sq /\ IsWrite(access)
    <3>1. /\ store.size = Size(access) /\ store.addr = access.addr
          /\ store.data = access.data
      BY <1>7, <2>2 DEF update, StoreInv
    <3>2. Size(access) > 0 /\ ~IsRead(access) BY <1>0, <2>2, SizeType
    <3>3. Pending BY <1>7, <3>1, <3>2 DEF update, Pending
    <3>4. Bytes!Perform
      BY <1>7, <2>1, <2>2, <3>1, <3>2, <3>3, BoundCheck, PerformStep DEF update
    <3> QED BY <3>4 DEF Bytes!Next
  <2>3. CASE ~(is_sq /\ IsWrite(access))
    <3>1. store = NoStore BY <1>7, <2>3 DEF update, StoreInv
    <3>2. ~Pending BY <1>7, <3>1 DEF update, Pending, NoStore
    <3>3. bytes' = bytes
      BY <1>7, <2>1, <3>1, WrittenNone DEF update, NoStore
    <3> QED BY <1>7, <2>1, <3>2, <3>3 DEF update, Bytes!vars
  <2> QED BY <2>2, <2>3
<1>8. CASE updateThrow
  <2>1. Oldest = store BY OldestStore DEF StoreInv
  <2>2. is_sq /\ IsWrite(access)
    BY <1>8, <2>1 DEF updateThrow, StoreInv, NoStore
  <2>3. store.size = Size(access) /\ store.addr = access.addr
    BY <1>8, <2>2 DEF updateThrow, StoreInv
  <2>4. Pending /\ Pending' BY <1>8, <2>1 DEF updateThrow, Pending
  <2>5. Bytes!Refuse
    BY <1>8, <2>1, <2>3, <2>4, BoundCheck, SameAccesses
    DEF updateThrow, Bytes!Refuse, Bytes!Inside
  <2> QED BY <2>5 DEF Bytes!Next
<1>9. CASE UNCHANGED vars
  BY <1>9 DEF vars, Bytes!vars, Pending
<1> QED BY <1>1, <1>2, <1>3, <1>4, <1>5, <1>6, <1>7, <1>8, <1>9
    DEF Next, finished

\* Every access is carried out once, on its own bytes, in order, and none out of
\* memory: the memory stage implements the byte memory whenever no access wraps.
THEOREM MemoryRefines ==
  ASSUME NoAccessWraps
  PROVE  Spec => ImplementsBytes
<1>1. MemInv /\ [Next]_vars => [Bytes!Next]_(Bytes!vars)
  BY BytesStep
<1> QED
  BY <1>1, BytesInit, MemoryInvariance, PTL DEF Spec, ImplementsBytes, Bytes!Spec

-----------------------------------------------------------------------------
(* What holds of the two properties the runs bound_wrap and load_byte refute. *)

\* What has been carried out, or is on its way through the store pipeline, has
\* passed the bound check.
Checked ==
  Size(access) > 0 /\ (phase = "issue" \/ (phase = "update" /\ store.size = 0)) =>
    InBounds(access.addr, Size(access))

LEMMA CheckedStep ==
  ASSUME MemInv, Checked, [Next]_vars
  PROVE  Checked'
<1>1. CASE issue
  BY <1>1 DEF issue, Checked
<1>2. CASE push
  <2>1. store'.size = Size(access) /\ access' = access /\ phase' = "update"
    BY <1>2 DEF push
  <2> QED BY <2>1 DEF Checked
<1>3. CASE writeThrough \/ load
  BY <1>3 DEF writeThrough, load, Checked
<1>4. CASE other
  <2>1. Size(access) = 0 /\ access' = access
    BY <1>4, AccessType, SizeType DEF other, MemInv, Access
  <2> QED BY <2>1 DEF Checked
<1>5. CASE accessThrow \/ updateThrow
  BY <1>5 DEF accessThrow, updateThrow, Checked
<1>6. CASE update
  <2>1. Oldest = store /\ access' = access /\ phase = "update" /\ phase' = "issue"
    BY <1>6, OldestStore DEF update, MemInv, StoreInv
  <2>2. CASE store.size = 0
    BY <2>1, <2>2 DEF Checked
  <2>3. CASE store.size # 0
    <3>1. store # NoStore /\ store.size > 0
      BY <2>3 DEF MemInv, TypeOK, Store, NoStore
    <3>2. store.size = Size(access) /\ store.addr = access.addr
      BY <2>1, <3>1 DEF MemInv, StoreInv
    <3>3. InBounds(access.addr, Size(access))
      BY <1>6, <2>1, <3>1, <3>2 DEF update
    <3> QED BY <2>1, <3>3 DEF Checked, InBounds
  <2> QED BY <2>2, <2>3
<1>7. CASE UNCHANGED vars
  BY <1>7 DEF vars, Checked, InBounds
<1> QED BY <1>1, <1>2, <1>3, <1>4, <1>5, <1>6, <1>7 DEF Next, finished

\* Every access that is carried out lies in memory with all its bytes, for every
\* memory size and program without an access that wraps: the wrap is the only way
\* past the bound check.
THEOREM InMemory ==
  ASSUME NoAccessWraps
  PROVE  Spec => []AccessesInMemory
<1>1. Init => Checked
  BY DEF Init, Checked, NoAccess, Size
<1>2. MemInv /\ Checked => AccessesInMemory
  <2> SUFFICES ASSUME MemInv, Checked, phase = "issue",
                      NEW k \in 0 .. Size(access) - 1
               PROVE  access.addr + k \in Location
    BY DEF AccessesInMemory
  <2>1. Size(access) > 0
    BY AccessType, SizeType DEF MemInv, Access
  <2> QED BY <2>1, BoundCheck DEF Checked, MemInv
<1> QED BY <1>1, <1>2, CheckedStep, MemoryInvariance, PTL DEF Spec

\* A load of a whole word leaves its bytes in rd, with the store pipeline and
\* without it: of the loads, only those of a byte or a half word are cut short.
THEOREM WordLoadsExtend ==
  ASSUME \A x \in Accesses : IsRead(x) => Size(x) = 4
  PROVE  Spec => []LoadsExtend
<1>1. Init => LoadsExtend
  BY DEF Init, LoadsExtend
<1>2. MemInv /\ LoadsExtend /\ [Next]_vars => LoadsExtend'
  <2> SUFFICES ASSUME MemInv, LoadsExtend, [Next]_vars PROVE LoadsExtend'
    OBVIOUS
  <2>1. CASE load
    <3>1. /\ IsRead(access) /\ access \in Accesses /\ Size(access) = 4
          /\ access' = access /\ bytes' = bytes
      BY <2>1 DEF load, MemInv, TypeOK, NoAccess, IsRead
    <3>2. SUFFICES ASSUME access.addr \in Location
                   PROVE  rd' = Extended([k \in Quarter |->
                                            IF k < Size(access)
                                              THEN bytes[access.addr + k] ELSE 0],
                                         access)
      BY <3>1 DEF LoadsExtend
    <3>3. \A k \in Quarter : access.addr + k \in Location
      BY <2>1, <3>1, <3>2, MemoryAssumption DEF load, InBounds, Location, Quarter
    <3>4. rd' = [k \in Quarter |-> bytes[access.addr + k]]
      BY <2>1, <3>1, <3>3 DEF load, searchData, ReadOver, LoadedValue, signExtend, Quarter
    <3>5. \A v : Extended([k \in Quarter |-> IF k < Size(access) THEN v[k] ELSE 0], access)
                   = [k \in Quarter |-> v[k]]
      BY <3>1 DEF Extended, Quarter
    <3> QED BY <3>1, <3>4, <3>5 DEF Extended, Quarter
  <2>2. CASE push \/ writeThrough \/ other
    BY <2>2 DEF push, writeThrough, other, LoadsExtend, IsRead, IsWrite
  <2>3. CASE issue \/ accessThrow \/ update \/ updateThrow
    BY <2>3 DEF issue, accessThrow, update, updateThrow, LoadsExtend
  <2>4. CASE UNCHANGED vars
    BY <2>4 DEF vars, LoadsExtend, Extended
  <2> QED BY <2>1, <2>2, <2>3, <2>4 DEF Next, finished
<1> QED BY <1>1, <1>2, MemoryInvariance, PTL DEF Spec
=============================================================================
