------------------------ MODULE PerfSimMemoryProofs ------------------------
(***************************************************************************)
(* The pipeline implements the memory stage of module DataMemory, for      *)
(* every program, pools of at least three objects and every memory that    *)
(* leaves the last word of the address space out.                          *)
(***************************************************************************)
EXTENDS PerfSimMemory, PerfSimProofs, Sequences

Middle == {"execute", "decode", "fetch", "update"}

\* When a clock begins there is no store and the latch behind the memory stage is
\* empty.
FreshInv ==
  phase \in {"writeBack", "memoryAccess", "stopped"} =>
    store = NoStore /\ mw_st.store.is_stall

\* Once the memory stage has run, the latch behind it carries the instruction the
\* stage has processed, or none; it is never squashed there.
HandedInv ==
  /\ ~mw_st.store.hazard_stall
  /\ phase \in Middle =>
       /\ Live(mw_st.store) <=> Valid(em_st.load)
       /\ Live(mw_st.store) => mw_st.store.instr = em_st.load.instr

\* The objects in the execute stage and in the memory stage are different ones.
DistinctInv ==
  /\ phase \in {"writeBack", "memoryAccess", "execute"}
       => (Valid(de_st.load) /\ Live(em_st.load)
             => de_st.load.instr # em_st.load.instr)
  /\ phase \in {"fetch", "update"}
       => (Live(Handover(de_st)) /\ Live(em_st.store)
             => de_st.store.instr # em_st.store.instr)

UsageInv == phase # "aborted" => FreshInv /\ HandedInv /\ DistinctInv

LEMMA UsageInit == Init => UsageInv
BY DEF Init, UsageInv, FreshInv, HandedInv, DistinctInv, Middle, EmptyStage,
       EmptyXS, Live, Valid

\* Within the rest of a clock nothing undoes what the memory stage has handed on.
LEMMA HandedKept ==
  ASSUME UsageInv, phase \in Middle, phase' \in Middle,
         mw_st'.store = mw_st.store, em_st'.load = em_st.load
  PROVE  FreshInv' /\ HandedInv'
BY DEF UsageInv, FreshInv, HandedInv, Middle, Live, Valid

LEMMA UsageStep ==
  ASSUME IInv, UsageInv, [Next]_vars
  PROVE  UsageInv'
<1> SUFFICES ASSUME phase' # "aborted"
             PROVE  FreshInv' /\ HandedInv' /\ DistinctInv'
  BY DEF UsageInv
<1>0. TypeOK /\ PointersInv /\ StopsInv
  BY DEF IInv
<1>1. CASE UNCHANGED vars
  BY <1>1 DEF vars, UsageInv, FreshInv, HandedInv, DistinctInv, Live, Valid,
              Handover, stopped
<1>2. ASSUME phase # "aborted" PROVE RingInv /\ FreshInv /\ HandedInv /\ DistinctInv
  BY <1>2 DEF IInv, UsageInv
<1>3. CASE writeBack
  <2>1. UNCHANGED store
    BY <1>3 DEF writeBack, writeBackBubble, retire
  <2> QED
    BY <1>2, <1>3, <2>1, WriteBackEffect
       DEF Frame, latches, FreshInv, HandedInv, DistinctInv, Live, Valid, Middle
<1>4. CASE memoryBubble
  <2>1. mw_st'.store.hazard_stall = mw_st.store.hazard_stall
    BY <1>0, <1>4, LatchShape DEF memoryBubble, StageOf, XS
  <2> QED
    BY <1>0, <1>2, <1>4, <2>1, MemoryBubbleEffect
       DEF FreshInv, HandedInv, DistinctInv, Valid, Live
<1>5. CASE PassToWriteBack
  <2>1. mw_st'.store.hazard_stall = mw_st.store.hazard_stall
    BY <1>0, <1>5, LatchShape DEF PassToWriteBack, StageOf, XS
  <2> QED
    BY <1>0, <1>2, <1>5, <2>1, PassEffect
       DEF FreshInv, HandedInv, DistinctInv, Valid, Live
<1>6. CASE executeBubble \/ executePlain \/ executeJump \/ executeSystem
  <2>1. /\ phase = "execute" /\ phase' = "decode"
        /\ UNCHANGED mw_st /\ em_st'.load = em_st.load
    BY <1>0, <1>6, ExecutedEffect, RunEffect, ExecuteBubbleEffect
  <2> QED
    BY <2>1, HandedKept DEF DistinctInv, Middle
<1>7. CASE decodeBubble
  <2>1. /\ phase = "decode" /\ phase' = "fetch"
        /\ UNCHANGED <<mw_st, em_st>> /\ ~Live(Handover(de_st'))
    BY <1>0, <1>7, DecodeBubbleEffect
  <2> QED
    BY <2>1, HandedKept DEF DistinctInv, Middle
<1>8. CASE decodeInstr
  <2> DEFINE t == fd_st.load.instr.type
             p == get_next(t)
  <2>1. /\ phase = "decode" /\ phase' = "fetch"
        /\ UNCHANGED mw_st /\ em_st'.load = em_st.load
        /\ t \in InstrType
        /\ de_st'.store.instr = p
        /\ em_st'.store.is_stall = em_st.store.is_stall
        /\ em_st'.store.instr = em_st.store.instr
    BY <1>0, <1>8, DecodeEffect, StallEffect, DecodedFields
  <2>2. Live(em_st.store) => em_st.store.instr # p
    BY <1>0, <1>2, <2>1, SlotFree
  <2> HIDE DEF p
  <2> QED
    BY <2>1, <2>2, HandedKept DEF DistinctInv, Live, Middle
<1>9. CASE fetchBubble \/ fetchInstr
  <2>1. /\ phase = "fetch" /\ phase' = "update" /\ UNCHANGED <<de_st, em_st, mw_st>>
    BY <1>0, <1>9, FetchEffect
  <2> QED
    BY <1>2, <2>1, HandedKept DEF DistinctInv, Middle, Live, Handover, stopped
<1>10. CASE endOfClock
  <2>1. /\ phase = "update" /\ phase' \in {"writeBack", "stopped"}
        /\ em_st'.load = em_st.store
        /\ stopped(de_st) => de_st'.load = de_st.load
        /\ ~stopped(de_st) => de_st'.load = de_st.store
    BY <1>0, <1>10, ClockEffect
  <2>2. mw_st'.store = EmptyXS /\ store' = NoStore
    BY <1>0, <1>10 DEF endOfClock, update, stopped, StopsInv
  <2>3. DistinctInv'
    <3>1. CASE stopped(de_st)
      BY <1>0, <2>1, <3>1 DEF StopsInv, DistinctInv, Valid
    <3>2. CASE ~stopped(de_st)
      BY <1>2, <2>1, <3>2 DEF DistinctInv, Valid, Live, Handover
    <3> QED
      BY <3>1, <3>2
  <2> QED
    BY <2>1, <2>2, <2>3 DEF FreshInv, HandedInv, Middle, EmptyXS
<1>11. CASE phase' = "aborted"
  BY <1>11
<1> QED
  BY <1>1, <1>3, <1>4, <1>5, <1>6, <1>7, <1>8, <1>9, <1>10, <1>11, Steps

\* From one clock to the next: the memory stage starts with an empty store
\* pipeline, what it has processed reaches write-back as it is, and no two stages
\* share an object on the way.
THEOREM UsageInvariant == Spec => []UsageInv
<1>1. IInv /\ UsageInv /\ [Next]_vars => UsageInv'
  BY UsageStep
<1> QED
  BY <1>1, UsageInit, Invariance, PTL DEF Spec

-----------------------------------------------------------------------------
(* Words and their bytes.                                                  *)

\* A byte address is a word address and the place of the byte in the word.
LEMMA Places ==
  ASSUME NEW b \in M!Location
  PROVE  \E q \in Address, r \in 0 .. 3 :
           b = 4 * q + r /\ b \div 4 = q /\ b % 4 = r
<1>1. /\ b \div 4 \in Address /\ b % 4 \in 0 .. 3
      /\ b = 4 * (b \div 4) + (b % 4)
  BY MachineAssumption DEF M!Location, Address
<1> QED
  BY <1>1

LEMMA ByteOfWord ==
  ASSUME NEW a \in Address, NEW k \in 0 .. 3
  PROVE  /\ 4 * a + k \in M!Location
         /\ (4 * a + k) \div 4 = a /\ (4 * a + k) % 4 = k
BY MachineAssumption DEF M!Location, Address

LEMMA ByteAddrOf ==
  ASSUME MemSize < Modulus, NEW a \in Word
  PROVE  /\ a \in Address => ByteAddr(a) = 4 * a
         /\ a \notin Address /\ InBounds(a) => ByteAddr(a) = -4
         /\ InBounds(a) <=> Memory!InBounds(ByteAddr(a), 4)
BY MachineAssumption DEF ByteAddr, InBounds, Memory!InBounds, Address, Word

\* Writing a word writes its bytes; a word in front of memory is lost.
LEMMA WrittenBytes ==
  ASSUME TypeOK, MemSize < Modulus, NEW a \in Word, InBounds(a), NEW v \in Word
  PROVE  MemoryBytes(Written(a, v)) = Memory!Written(BytesOf(v), ByteAddr(a), 4)
<1> SUFFICES ASSUME NEW b \in M!Location
             PROVE  (IF b % 4 = 0 THEN Written(a, v)[b \div 4] ELSE 0) =
                      (IF b - ByteAddr(a) \in 0 .. 4 - 1
                         THEN BytesOf(v)[b - ByteAddr(a)] ELSE Bytes[b])
  BY DEF MemoryBytes, Memory!Written, M!Location, Memory!Location
<1>1. Bytes[b] = IF b % 4 = 0 THEN mem[b \div 4] ELSE 0
  BY DEF Bytes, MemoryBytes
<1>2. \A k \in 0 .. 3 : BytesOf(v)[k] = IF k = 0 THEN v ELSE 0
  BY DEF BytesOf, M!Quarter
<1>3. mem \in [Address -> Word]
  BY DEF TypeOK
<1>4. PICK q \in Address, r \in 0 .. 3 :
        b = 4 * q + r /\ b \div 4 = q /\ b % 4 = r
  BY Places
<1>5. CASE a \in Address
  <2>1. ByteAddr(a) = 4 * a /\ Written(a, v) = [mem EXCEPT ![a] = v]
    BY <1>5, ByteAddrOf DEF Written
  <2>2. a \in Nat /\ q \in Nat
    BY <1>4, <1>5 DEF Address
  <2>3. b - 4 * a \in 0 .. 4 - 1 <=> q = a
    BY <1>4, <2>2
  <2>4. CASE q = a
    <3>1. b - 4 * a = r
      BY <1>4, <2>2, <2>4
    <3> QED
      BY <1>2, <1>3, <1>4, <1>5, <2>1, <2>3, <2>4, <3>1
  <2>5. CASE q # a
    BY <1>1, <1>3, <1>4, <2>1, <2>3, <2>5
  <2> QED
    BY <2>4, <2>5
<1>6. CASE a \notin Address
  <2>1. ByteAddr(a) = -4 /\ Written(a, v) = mem
    BY <1>6, ByteAddrOf DEF Written
  <2>2. b - (-4) \notin 0 .. 4 - 1
    BY DEF M!Location
  <2> QED
    BY <1>1, <2>1, <2>2
<1> QED
  BY <1>5, <1>6

LEMMA WrittenNothing ==
  ASSUME NEW data, NEW addr \in Int
  PROVE  Memory!Written(data, addr, 4 * 0) = Bytes
<1>1. \A b \in M!Location : b - addr \notin 0 .. 4 * 0 - 1
  BY DEF M!Location
<1> QED
  BY <1>1 DEF Bytes, MemoryBytes, Memory!Written, M!Location, Memory!Location

\* Reading a word reads its bytes; a word in front of memory is any word.
LEMMA ReadBytes ==
  ASSUME TypeOK, MemSize < Modulus, NEW a \in Word, InBounds(a),
         NEW value \in ReadFrom(a), NEW old
  PROVE  /\ value \in Word
         /\ BytesOf(value) =
              Memory!ReadOver(old, ByteAddr(a), 4, BytesOf(value))
<1>1. mem \in [Address -> Word]
  BY DEF TypeOK
<1>2. value \in Word
  BY <1>1 DEF ReadFrom
<1>3. SUFFICES ASSUME NEW k \in 0 .. 3
               PROVE  (IF k = 0 THEN value ELSE 0) =
                        (IF k >= 4 THEN old[k]
                         ELSE IF ByteAddr(a) + k \in M!Location
                           THEN Bytes[ByteAddr(a) + k]
                         ELSE BytesOf(value)[k])
  BY <1>2 DEF BytesOf, Memory!ReadOver, Memory!Quarter, M!Quarter, M!Location,
              Memory!Location
<1>4. BytesOf(value)[k] = (IF k = 0 THEN value ELSE 0) /\ ~(k >= 4)
  BY DEF BytesOf, M!Quarter
<1>5. CASE a \in Address
  <2>1. ByteAddr(a) = 4 * a /\ value = mem[a]
    BY <1>5, ByteAddrOf DEF ReadFrom
  <2>2. /\ 4 * a + k \in M!Location
        /\ (4 * a + k) \div 4 = a /\ (4 * a + k) % 4 = k
    BY <1>5, ByteOfWord
  <2>3. Bytes[4 * a + k] = IF k = 0 THEN mem[a] ELSE 0
    BY <2>2 DEF Bytes, MemoryBytes
  <2> QED
    BY <1>4, <2>1, <2>2, <2>3
<1>6. CASE a \notin Address
  <2>1. ByteAddr(a) = -4
    BY <1>6, ByteAddrOf
  <2>2. -4 + k \notin M!Location
    BY DEF M!Location
  <2> QED
    BY <1>4, <2>1, <2>2
<1> QED
  BY <1>5, <1>6

LEMMA BytesType ==
  ASSUME NEW v \in Word
  PROVE  BytesOf(v) \in Memory!Value
BY MachineAssumption
   DEF BytesOf, M!Quarter, Memory!Value, Memory!Quarter, Memory!Byte, Word

-----------------------------------------------------------------------------
(* The refinement, stage by stage.                                         *)

\* What is asked for depends on the object in the stage and nothing else.
LEMMA RequestOf ==
  ASSUME TypeOK, NEW b, Points(b),
         NEW i, Live(b) => i = instrs[b.instr]
  PROVE  /\ ~Valid(b) => AccessOf(b) = M!NoAccess
         /\ Valid(b) /\ Loads(i) =>
              /\ AccessOf(b) = [name |-> "LW", addr |-> ByteAddr(i.addr),
                                data |-> M!Zero]
              /\ ~IsStore(i.op)
         /\ Valid(b) /\ IsStore(i.op) =>
              /\ AccessOf(b) = [name |-> "SW", addr |-> ByteAddr(i.addr),
                                data |-> BytesOf(i.rs2)]
              /\ ~Loads(i)
         /\ Valid(b) /\ ~Loads(i) /\ ~IsStore(i.op) => AccessOf(b) = M!NoAccess
         /\ Valid(b) => i \in InstructionObject /\ i.addr \in Word /\ i.rs2 \in Word
BY DEF AccessOf, Loads, IsStore, is_load, Valid, Live, Points, TypeOK,
       HazardUnitTypeOK, InstructionObject

LEMMA RequestType ==
  ASSUME TypeOK, NEW b, Points(b)
  PROVE  AccessOf(b) \in WordAccesses
<1> DEFINE i == instrs[b.instr]
<1>1. CASE Valid(b)
  BY <1>1, RequestOf DEF WordAccesses
<1>2. CASE ~Valid(b)
  BY <1>2, RequestOf DEF WordAccesses
<1> QED
  BY <1>1, <1>2

\* Between the memory stage and the end of the clock the memory stands still.
LEMMA Still ==
  ASSUME HandedInv, phase \in Middle, phase' \in Middle,
         UNCHANGED <<mem, store, mw_st>>, em_st'.load = em_st.load,
         Valid(em_st.load) =>
           instrs'[em_st.load.instr] = instrs[em_st.load.instr]
  PROVE  UNCHANGED Memory!vars
<1>1. UNCHANGED <<Bytes, Pushed>>
  BY DEF Bytes, Pushed
<1>2. /\ ~BetweenClocks /\ ~BetweenClocks'
      /\ MemoryPhase = "update" /\ MemoryPhase' = "update"
  BY DEF BetweenClocks, MemoryPhase, Middle
<1>3. UNCHANGED Requested
  BY <1>2 DEF Requested, InMemoryStage, AccessOf
<1>4. UNCHANGED Loaded
  BY <1>2 DEF Loaded, BehindMemoryStage, HandedInv, Middle, Valid, Live
<1> QED
  BY <1>1, <1>2, <1>3, <1>4 DEF Memory!vars

LEMMA StageIsBusy ==
  ASSUME phase = "memoryAccess", mw_st.store.is_stall
  PROVE  /\ MemoryPhase = "memoryAccess" /\ Loaded = M!Zero
         /\ Requested = AccessOf(em_st.load)
BY DEF MemoryPhase, BetweenClocks, Loaded, BehindMemoryStage, Requested,
       InMemoryStage, Valid

\* The memory stage has processed the instruction at em_st.load.
LEMMA StageIsDone ==
  ASSUME TypeOK, PointersInv, FreshInv, ~mw_st.store.hazard_stall,
         PassToWriteBack, NEW i, i = instrs[em_st.load.instr]
  PROVE  /\ phase = "memoryAccess" /\ mw_st.store.is_stall /\ store = NoStore
         /\ Valid(em_st.load) /\ em_st.load.instr \in Pointer
         /\ i \in InstructionObject
         /\ MemoryPhase' = "update"
         /\ Requested' = AccessOf(em_st.load)'
         /\ em_st' = em_st
         /\ Loaded' = IF Loads(instrs'[em_st.load.instr])
                        THEN BytesOf(instrs'[em_st.load.instr].rd) ELSE M!Zero
<1>1. /\ phase = "memoryAccess" /\ phase' = "execute"
      /\ Valid(em_st.load) /\ em_st' = em_st
      /\ Live(mw_st'.store) /\ mw_st'.store.instr = em_st.load.instr
  BY PassEffect
<1>2. mw_st'.store.hazard_stall = mw_st.store.hazard_stall
  BY LatchShape DEF PassToWriteBack, StageOf, XS
<1>3. ~BetweenClocks' /\ MemoryPhase' = "update"
  BY <1>1 DEF BetweenClocks, MemoryPhase
<1>4. em_st.load.instr \in Pointer /\ i \in InstructionObject
  BY <1>1 DEF PointersInv, Points, Live, Valid, TypeOK, HazardUnitTypeOK
<1>5. Valid(mw_st'.store)
  BY <1>1, <1>2 DEF Valid, Live
<1> QED
  BY <1>1, <1>3, <1>4, <1>5 DEF FreshInv, Loaded, BehindMemoryStage, Valid,
     Requested, InMemoryStage

LEMMA StoreRefines ==
  ASSUME TypeOK, PointersInv, FreshInv, ~mw_st.store.hazard_stall,
         MemSize < Modulus, memoryStore
  PROVE  Memory!push \/ Memory!writeThrough
<1> DEFINE i == instrs[em_st.load.instr]
<1>1. /\ PassToWriteBack /\ IsStore(i.op) /\ UNCHANGED instrs
      /\ IF IsSq
          THEN /\ store' = [size |-> 1, addr |-> i.addr, data |-> i.rs2]
               /\ UNCHANGED mem
          ELSE /\ InBounds(i.addr)
               /\ mem' = Written(i.addr, i.rs2)
               /\ UNCHANGED store
  BY DEF memoryStore
<1>2. /\ phase = "memoryAccess" /\ mw_st.store.is_stall
      /\ Valid(em_st.load) /\ em_st.load.instr \in Pointer
      /\ MemoryPhase' = "update" /\ Requested' = AccessOf(em_st.load)'
      /\ em_st' = em_st
      /\ Loaded' = IF Loads(i) THEN BytesOf(i.rd) ELSE M!Zero
  BY <1>1, StageIsDone
<1>3. /\ MemoryPhase = "memoryAccess" /\ Loaded = M!Zero
      /\ Requested = AccessOf(em_st.load)
  BY <1>2, StageIsBusy
<1>4. /\ AccessOf(em_st.load) = [name |-> "SW", addr |-> ByteAddr(i.addr),
                                 data |-> BytesOf(i.rs2)]
      /\ ~Loads(i) /\ i.addr \in Word /\ i.rs2 \in Word
  BY <1>1, <1>2, RequestOf DEF PointersInv
<1>5. UNCHANGED Requested /\ UNCHANGED Loaded
  BY <1>1, <1>2, <1>3, <1>4 DEF AccessOf
<1> HIDE DEF i
<1>6. CASE IsSq
  <2>1. Pushed' = [size |-> 4, addr |-> ByteAddr(i.addr), data |-> BytesOf(i.rs2)]
    BY <1>1, <1>6 DEF Pushed
  <2>2. UNCHANGED Bytes
    BY <1>1, <1>6 DEF Bytes
  <2> QED
    BY <1>2, <1>3, <1>4, <1>5, <1>6, <2>1, <2>2
       DEF Memory!push, Memory!IsWrite, Memory!Size
<1>7. CASE ~IsSq
  <2>1. UNCHANGED Pushed
    BY <1>1, <1>7 DEF Pushed
  <2>2. Bytes' = Memory!Written(BytesOf(i.rs2), ByteAddr(i.addr), 4)
    BY <1>1, <1>4, <1>7, WrittenBytes DEF Bytes
  <2>3. Memory!InBounds(ByteAddr(i.addr), 4)
    BY <1>1, <1>4, <1>7, ByteAddrOf
  <2> QED
    BY <1>2, <1>3, <1>4, <1>5, <1>7, <2>1, <2>2, <2>3
       DEF Memory!writeThrough, Memory!IsWrite, Memory!Size
<1> QED
  BY <1>6, <1>7

LEMMA LoadRefines ==
  ASSUME TypeOK, PointersInv, FreshInv, ~mw_st.store.hazard_stall,
         MemSize < Modulus, memoryLoad
  PROVE  Memory!load
<1> DEFINE i == instrs[em_st.load.instr]
<1>1. /\ PassToWriteBack /\ Loads(i) /\ InBounds(i.addr)
      /\ UNCHANGED <<mem, store>>
  BY DEF memoryLoad, Loads
<1>2. PICK value \in ReadFrom(i.addr) :
        instrs' = [instrs EXCEPT ![em_st.load.instr].rd = value]
  BY DEF memoryLoad
<1>3. /\ phase = "memoryAccess" /\ mw_st.store.is_stall
      /\ Valid(em_st.load) /\ em_st.load.instr \in Pointer
      /\ i \in InstructionObject
      /\ MemoryPhase' = "update" /\ Requested' = AccessOf(em_st.load)'
      /\ em_st' = em_st
      /\ Loaded' = IF Loads(instrs'[em_st.load.instr])
                     THEN BytesOf(instrs'[em_st.load.instr].rd) ELSE M!Zero
  BY <1>1, StageIsDone
<1>4. /\ MemoryPhase = "memoryAccess" /\ Loaded = M!Zero
      /\ Requested = AccessOf(em_st.load)
  BY <1>3, StageIsBusy
<1>5. /\ AccessOf(em_st.load) = [name |-> "LW", addr |-> ByteAddr(i.addr),
                                 data |-> M!Zero]
      /\ i.addr \in Word
  BY <1>1, <1>3, RequestOf DEF PointersInv
<1>6. instrs'[em_st.load.instr] = [i EXCEPT !.rd = value]
  BY <1>2, <1>3 DEF TypeOK, HazardUnitTypeOK
<1>7. Requested' = Requested /\ Loaded' = BytesOf(value)
  <2>1. /\ instrs'[em_st.load.instr].op = i.op
        /\ instrs'[em_st.load.instr].addr = i.addr
        /\ instrs'[em_st.load.instr].rs2 = i.rs2
        /\ instrs'[em_st.load.instr].rd = value
    BY <1>3, <1>6 DEF InstructionObject
  <2>2. Loads(instrs'[em_st.load.instr])
    BY <1>1, <2>1 DEF Loads
  <2> QED
    BY <1>3, <1>4, <2>1, <2>2 DEF AccessOf, Loads
<1>8. UNCHANGED <<Bytes, Pushed>>
  BY <1>1 DEF Bytes, Pushed
<1> HIDE DEF i
<1>9. /\ value \in Word
      /\ \A old : BytesOf(value) =
                    Memory!ReadOver(old, ByteAddr(i.addr), 4, BytesOf(value))
  BY <1>1, <1>5, ReadBytes
<1>10. Memory!InBounds(ByteAddr(i.addr), 4) /\ BytesOf(value) \in Memory!Value
  BY <1>1, <1>5, <1>9, ByteAddrOf, BytesType
<1>11. /\ Requested.name = "LW" /\ Requested.addr = ByteAddr(i.addr)
       /\ Memory!Size(Requested) = 4 /\ Memory!IsRead(Requested)
  BY <1>4, <1>5 DEF Memory!Size, Memory!IsRead
<1>12. \A v : Memory!LoadedValue(v, Requested) = v
  BY <1>11 DEF Memory!LoadedValue, Memory!signExtend
<1> QED
  BY <1>3, <1>4, <1>7, <1>8, <1>9, <1>10, <1>11, <1>12
     DEF Memory!load, Memory!searchData

LEMMA OtherRefines ==
  ASSUME TypeOK, PointersInv, FreshInv, ~mw_st.store.hazard_stall,
         memoryOther \/ memoryBubble
  PROVE  Memory!other
<1>1. UNCHANGED <<Bytes, Pushed>>
  BY DEF memoryOther, memoryBubble, Bytes, Pushed
<1>2. /\ MemoryPhase = "memoryAccess" /\ MemoryPhase' = "update"
      /\ Requested = M!NoAccess /\ Requested' = M!NoAccess
      /\ Loaded = M!Zero /\ Loaded' = M!Zero
  <2>1. CASE memoryOther
    <3> DEFINE i == instrs[em_st.load.instr]
    <3>1. PassToWriteBack /\ ~IsStore(i.op) /\ ~Loads(i) /\ UNCHANGED instrs
      BY <2>1 DEF memoryOther, Loads
    <3>2. /\ phase = "memoryAccess" /\ mw_st.store.is_stall
          /\ MemoryPhase' = "update" /\ Requested' = AccessOf(em_st.load)'
          /\ em_st' = em_st /\ Loaded' = M!Zero
      BY <3>1, StageIsDone
    <3>3. AccessOf(em_st.load) = M!NoAccess
      BY <3>1 DEF AccessOf
    <3> QED
      BY <3>1, <3>2, <3>3, StageIsBusy DEF AccessOf
  <2>2. CASE memoryBubble
    <3>1. /\ phase = "memoryAccess" /\ phase' = "execute"
          /\ ~Valid(em_st.load) /\ ~Live(mw_st'.store) /\ em_st' = em_st
      BY <2>2, MemoryBubbleEffect
    <3> QED
      BY <3>1, StageIsBusy
         DEF FreshInv, AccessOf, MemoryPhase, BetweenClocks, Requested,
             InMemoryStage, Loaded, BehindMemoryStage, Valid, Live
  <2> QED
    BY <2>1, <2>2
<1> QED
  BY <1>1, <1>2 DEF Memory!other, M!NoAccess, Memory!IsRead, Memory!IsWrite

\* An exception leaves everything as it is but the phase.
LEMMA ThrowKeeps ==
  ASSUME NEW from, Throw(from), from \in Phase \ {"writeBack", "stopped", "aborted"}
  PROVE  /\ phase = from /\ phase' = "aborted"
         /\ ~BetweenClocks /\ ~BetweenClocks'
         /\ UNCHANGED <<Bytes, Pushed, Requested, Loaded, OutOfMemory>>
         /\ MemoryPhase' = IF OutOfMemory THEN "aborted" ELSE "update"
<1>1. /\ phase = from /\ phase' = "aborted"
      /\ UNCHANGED <<mem, store, em_st, mw_st, instrs>>
  BY DEF Throw, GoTo, latches
<1>2. ~BetweenClocks /\ ~BetweenClocks'
  BY <1>1 DEF BetweenClocks
<1>3. UNCHANGED <<Bytes, Pushed, Requested, Loaded>>
  BY <1>1, <1>2 DEF Bytes, Pushed, Requested, InMemoryStage, AccessOf, Loaded,
                    BehindMemoryStage
<1>4. UNCHANGED OutOfMemory
  BY <1>1 DEF OutOfMemory
<1> QED
  BY <1>1, <1>2, <1>3, <1>4 DEF MemoryPhase

LEMMA AccessThrowRefines ==
  ASSUME TypeOK, PointersInv, FreshInv, MemSize < Modulus, memoryThrow
  PROVE  Memory!accessThrow
<1> DEFINE i == instrs[em_st.load.instr]
<1>1. /\ Throw("memoryAccess") /\ Valid(em_st.load)
      /\ Loads(i) \/ (IsStore(i.op) /\ ~IsSq)
      /\ ~InBounds(i.addr)
  BY DEF memoryThrow, Loads
<1>2. /\ phase = "memoryAccess"
      /\ UNCHANGED <<Bytes, Pushed, Requested, Loaded>>
      /\ MemoryPhase' = IF OutOfMemory THEN "aborted" ELSE "update"
  BY <1>1, ThrowKeeps DEF Phase
<1>3. mw_st.store.is_stall
  BY <1>2 DEF FreshInv
<1>4. MemoryPhase = "memoryAccess" /\ Requested = AccessOf(em_st.load)
  BY <1>2, <1>3, StageIsBusy
<1>5. OutOfMemory
  BY <1>1, <1>3 DEF OutOfMemory
<1>6. /\ Requested.addr = ByteAddr(i.addr) /\ i.addr \in Word
      /\ Requested.name = IF Loads(i) THEN "LW" ELSE "SW"
  BY <1>1, <1>4, RequestOf DEF PointersInv
<1> HIDE DEF i
<1>7. /\ ~Memory!InBounds(Requested.addr, Memory!Size(Requested))
      /\ Memory!IsRead(Requested) \/ (Memory!IsWrite(Requested) /\ ~IsSq)
  <2>1. Memory!Size(Requested) = 4
    BY <1>6 DEF Memory!Size
  <2> QED
    BY <1>1, <1>6, <2>1, ByteAddrOf DEF Memory!IsRead, Memory!IsWrite
<1> QED
  BY <1>2, <1>4, <1>5, <1>7 DEF Memory!accessThrow

\* The store of the clock is what update takes from the queue.
LEMMA OldestIsPushed ==
  /\ Memory!Oldest = Pushed /\ Tail(Append(<<>>, Pushed)) = <<>>
  /\ TypeOK => /\ Pushed.size = 4 * store.size /\ store.size \in {0, 1}
               /\ Pushed.addr = ByteAddr(store.addr) /\ store.addr \in Word
               /\ Pushed.data = BytesOf(store.data) /\ store.data \in Word
BY DEF Memory!Oldest, Pushed, TypeOK, Store

\* An exception behind the memory stage: nothing for the memory, unless the store
\* of the clock was going to fail in any case.
LEMMA LateThrowRefines ==
  ASSUME TypeOK, HandedInv, MemSize < Modulus,
         decodeThrow \/ fetchThrow \/ updateThrow
  PROVE  Memory!updateThrow \/ UNCHANGED Memory!vars
<1>1. /\ phase \in Middle
      /\ UNCHANGED <<Bytes, Pushed, Requested, Loaded>>
      /\ MemoryPhase' = IF OutOfMemory THEN "aborted" ELSE "update"
  BY ThrowKeeps DEF decodeThrow, fetchThrow, updateThrow, Phase, Middle
<1>2. MemoryPhase = "update"
  BY <1>1 DEF MemoryPhase, BetweenClocks, Middle
<1>3. OutOfMemory => store.size > 0 /\ ~InBounds(store.addr)
  BY <1>1 DEF OutOfMemory, HandedInv, Live
<1>4. CASE OutOfMemory
  <2>1. /\ Memory!Oldest.size = 4 /\ Memory!Oldest.size > 0
        /\ Memory!Oldest.addr = ByteAddr(store.addr)
    BY <1>3, <1>4, OldestIsPushed
  <2>2. ~Memory!InBounds(Memory!Oldest.addr, Memory!Oldest.size)
    BY <1>3, <1>4, <2>1, OldestIsPushed, ByteAddrOf
  <2> QED
    BY <1>1, <1>2, <1>4, <2>1, <2>2 DEF Memory!updateThrow
<1>5. CASE ~OutOfMemory
  BY <1>1, <1>2, <1>5 DEF Memory!vars
<1> QED
  BY <1>4, <1>5

\* Write-back begins the clock: the next instruction reaches the memory stage.
LEMMA IssueRefines ==
  ASSUME TypeOK, PointersInv, FreshInv, writeBack, TypeOK', PointersInv'
  PROVE  Memory!issue
<1>1. /\ phase = "writeBack" /\ phase' = "memoryAccess"
      /\ UNCHANGED <<mem, store, em_st, mw_st, instrs>>
  BY DEF writeBack, writeBackBubble, retire, GoTo, latches
<1>2. MemoryPhase = "issue" /\ MemoryPhase' = "memoryAccess"
  BY <1>1 DEF MemoryPhase, BetweenClocks
<1>3. UNCHANGED <<Bytes, Pushed>>
  BY <1>1 DEF Bytes, Pushed
<1>4. Loaded' = M!Zero
  BY <1>1 DEF Loaded, BehindMemoryStage, BetweenClocks, FreshInv, Valid
<1>5. Requested' = AccessOf(em_st.load)
  BY <1>1 DEF Requested, InMemoryStage, BetweenClocks, AccessOf
<1>6. Requested' \in WordAccesses
  BY <1>5, RequestType DEF PointersInv
<1> QED
  BY <1>2, <1>3, <1>4, <1>6
     DEF Memory!issue, M!Zero, Memory!Zero, M!Quarter, Memory!Quarter

LEMMA ClockRefines ==
  ASSUME TypeOK, StopsInv, HandedInv, MemSize < Modulus, endOfClock
  PROVE  Memory!update
<1>1. /\ phase = "update" /\ phase' \in {"writeBack", "stopped"}
      /\ mw_st'.load = mw_st.store
  BY ClockEffect
<1>2. /\ store.size > 0 => InBounds(store.addr)
      /\ mem' = IF store.size > 0 THEN Written(store.addr, store.data) ELSE mem
      /\ store' = NoStore /\ UNCHANGED instrs
  BY DEF endOfClock
<1>3. MemoryPhase = "update" /\ MemoryPhase' = "issue"
  BY <1>1 DEF MemoryPhase, BetweenClocks
<1>4. UNCHANGED <<Requested, Loaded>>
  BY <1>1, <1>2 DEF Requested, InMemoryStage, BetweenClocks, AccessOf, Loaded,
     BehindMemoryStage, HandedInv, Middle, Valid, Live
<1>5. Pushed' = Memory!NoStore
  BY <1>2, MachineAssumption
     DEF Pushed, NoStore, Memory!NoStore, ByteAddr, BytesOf, Memory!Zero,
         M!Quarter, Memory!Quarter
<1>6. Memory!Oldest.size > 0 =>
        Memory!InBounds(Memory!Oldest.addr, Memory!Oldest.size)
  BY <1>2, OldestIsPushed, ByteAddrOf
<1>7. Bytes' = Memory!Written(Memory!Oldest.data, Memory!Oldest.addr,
                              Memory!Oldest.size)
  <2>1. CASE store.size = 0
    <3>1. ByteAddr(store.addr) \in Int
      BY MachineAssumption, OldestIsPushed DEF ByteAddr, Word
    <3> QED
      BY <1>2, <2>1, <3>1, OldestIsPushed, WrittenNothing DEF Bytes
  <2>2. CASE store.size = 1
    <3>1. Pushed.size = 4 /\ mem' = Written(store.addr, store.data)
      BY <1>2, <2>2, OldestIsPushed
    <3> QED
      BY <1>2, <2>2, <3>1, OldestIsPushed, WrittenBytes DEF Bytes
  <2> QED
    BY <2>1, <2>2, OldestIsPushed
<1> QED
  BY <1>3, <1>4, <1>5, <1>6, <1>7, OldestIsPushed DEF Memory!update

\* The stages in front of the memory stage leave the memory alone.
LEMMA FrontRefines ==
  ASSUME IInv, UsageInv, phase # "aborted", [Next]_vars,
         execute \/ decodeBubble \/ decodeInstr \/ fetchBubble \/ fetchInstr
  PROVE  UNCHANGED Memory!vars
<1>0. TypeOK /\ PointersInv /\ RingInv /\ HandedInv /\ DistinctInv
  BY DEF IInv, UsageInv
<1>1. UNCHANGED <<mem, store>>
  BY DEF execute, executeBubble, executePlain, executeJump, executeSystem,
         RunExecutor, decodeBubble, decodeInstr, fetchBubble, fetchInstr
<1>2. CASE executeBubble
  BY <1>0, <1>1, <1>2, ExecuteBubbleEffect, Still DEF Middle
<1>3. CASE executePlain \/ executeJump \/ executeSystem
  <2>1. /\ phase = "execute" /\ phase' = "decode" /\ Valid(de_st.load)
        /\ UNCHANGED mw_st /\ em_st'.load = em_st.load
        /\ instrs' = [instrs EXCEPT ![de_st.load.instr] = Executed(@)]
    BY <1>0, <1>3, ExecutedEffect, RunEffect DEF RunExecutor
  <2>2. Valid(em_st.load) =>
          instrs'[em_st.load.instr] = instrs[em_st.load.instr]
    BY <1>0, <2>1 DEF DistinctInv, Valid, Live, PointersInv, Points, TypeOK,
       HazardUnitTypeOK
  <2> QED
    BY <1>0, <1>1, <2>1, <2>2, Still DEF Middle
<1>4. CASE decodeBubble
  BY <1>0, <1>1, <1>4, DecodeBubbleEffect, Still DEF Middle
<1>5. CASE decodeInstr
  <2> DEFINE t == fd_st.load.instr.type
             p == get_next(t)
  <2>1. /\ phase = "decode" /\ phase' = "fetch" /\ UNCHANGED mw_st
        /\ em_st'.load = em_st.load /\ t \in InstrType
        /\ instrs' = [instrs EXCEPT ![p] =
                         Decoded(p, fd_st.load.instr, fd_st.load.pc)]
    BY <1>0, <1>5, DecodeEffect, StallEffect, DecodedFields
  <2>2. Live(mw_st.store) => mw_st.store.instr # p
    BY <1>0, <2>1, SlotFree
  <2> HIDE DEF p
  <2>3. Valid(em_st.load) =>
          instrs'[em_st.load.instr] = instrs[em_st.load.instr]
    BY <1>0, <2>1, <2>2
       DEF HandedInv, Middle, Valid, Live, PointersInv, Points, TypeOK,
           HazardUnitTypeOK
  <2> QED
    BY <1>0, <1>1, <2>1, <2>3, Still DEF Middle
<1>6. CASE fetchBubble \/ fetchInstr
  BY <1>0, <1>1, <1>6, FetchEffect, Still DEF Middle
<1> QED
  BY <1>2, <1>3, <1>4, <1>5, <1>6 DEF execute

LEMMA MemoryInit == Init => Memory!Init
<1> SUFFICES ASSUME Init PROVE Memory!Init
  OBVIOUS
<1>1. Bytes = MemoryBytes(InitMem)
  BY DEF Init, Bytes
<1>2. Pushed = Memory!NoStore
  BY MachineAssumption
     DEF Init, Pushed, NoStore, Memory!NoStore, ByteAddr, BytesOf, Memory!Zero,
         M!Quarter, Memory!Quarter
<1>3. MemoryPhase = "issue"
  BY DEF Init, MemoryPhase, BetweenClocks
<1>4. Requested = M!NoAccess /\ Loaded = M!Zero
  BY DEF Init, EmptyStage, EmptyXS, Requested, InMemoryStage, BetweenClocks,
         AccessOf, Loaded, BehindMemoryStage, Valid
<1> QED
  BY <1>1, <1>2, <1>3, <1>4, LoaderAssumption
     DEF Memory!Init, M!NoAccess, Memory!NoAccess, M!Zero, Memory!Zero,
         M!Quarter, Memory!Quarter

LEMMA MemoryStep ==
  ASSUME IInv, UsageInv, MemSize < Modulus, [Next]_vars
  PROVE  [Memory!Next]_(Memory!vars)
<1>1. CASE UNCHANGED vars
  BY <1>1 DEF vars, Memory!vars, Bytes, Pushed, Requested, InMemoryStage,
     BetweenClocks, AccessOf, Loaded, BehindMemoryStage, MemoryPhase, OutOfMemory
<1>2. CASE Next /\ phase \in {"stopped", "aborted"}
  <2>1. UNCHANGED vars
    BY <1>2 DEF Next, finished, writeBack, writeBackBubble, retire,
       memoryAccess, memoryBubble, memoryStore, memoryLoad, memoryOther,
       memoryThrow, PassToWriteBack, execute, executeBubble, executePlain,
       executeJump, executeSystem, RunExecutor, decode, decodeBubble,
       decodeInstr, decodeThrow, fetch, fetchBubble, fetchInstr, fetchThrow,
       updateLatches, endOfClock, updateThrow, Throw, GoTo
  <2> QED
    BY <1>1, <2>1
<1>3. CASE Next /\ phase \notin {"stopped", "aborted"}
  <2>1. /\ TypeOK /\ PointersInv /\ StopsInv /\ TypeOK' /\ PointersInv'
        /\ FreshInv /\ HandedInv
    BY <1>3, IInvStep DEF IInv, UsageInv
  <2>2. ~mw_st.store.hazard_stall
    BY <2>1 DEF HandedInv
  <2>3. CASE writeBack
    BY <2>1, <2>3, IssueRefines DEF Memory!Next
  <2>4. CASE memoryStore
    BY <2>1, <2>2, <2>4, StoreRefines DEF Memory!Next
  <2>5. CASE memoryLoad
    BY <2>1, <2>2, <2>5, LoadRefines DEF Memory!Next
  <2>6. CASE memoryOther \/ memoryBubble
    BY <2>1, <2>2, <2>6, OtherRefines DEF Memory!Next
  <2>7. CASE memoryThrow
    BY <2>1, <2>7, AccessThrowRefines DEF Memory!Next
  <2>8. CASE execute \/ decodeBubble \/ decodeInstr \/ fetchBubble \/ fetchInstr
    BY <1>3, <2>8, FrontRefines
  <2>9. CASE decodeThrow \/ fetchThrow \/ updateThrow
    BY <2>1, <2>9, LateThrowRefines DEF Memory!Next
  <2>10. CASE endOfClock
    BY <2>1, <2>10, ClockRefines DEF Memory!Next
  <2> QED
    BY <1>3, <2>3, <2>4, <2>5, <2>6, <2>7, <2>8, <2>9, <2>10
       DEF Next, memoryAccess, decode, fetch, updateLatches, finished
<1> QED
  BY <1>1, <1>2, <1>3

\* Whatever the program does, each clock asks the memory for the access of one
\* instruction that nothing has squashed, and hands its result to write-back
\* untouched: no decode reuses the object that holds address and data before the
\* clock ends.  A memory that fills the whole address space is left out: its last
\* word would be taken for the one in front of it.
THEOREM MemoryRefinement ==
  ASSUME MemSize < Modulus
  PROVE  Spec => UsesMemory
<1>1. IInv /\ UsageInv /\ [Next]_vars => [Memory!Next]_(Memory!vars)
  BY MemoryStep
<1> QED
  BY <1>1, MemoryInit, Invariance, UsageInvariant, PTL
     DEF Spec, UsesMemory, Memory!Spec
=============================================================================
