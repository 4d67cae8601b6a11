---------------------------- MODULE PerfSimMemory ----------------------------
(***************************************************************************)
(* The pipeline is a user of the memory of module DataMemory.  PerfSim     *)
(* moves whole words, so a word is four bytes of which only the first      *)
(* varies.  In each clock the instruction that reaches the memory stage is *)
(* the access issued; what becomes of it is decided there.                 *)
(***************************************************************************)
EXTENDS PerfSimSafety, Integers

M == INSTANCE MemoryAccess WITH
  ByteValues <- Modulus, MemBytes <- 4 * MemSize, Accesses <- {}, Image <- <<>>

BytesOf(v) == [k \in M!Quarter |-> IF k = 0 THEN v ELSE 0]

MemoryBytes(m) ==
  [b \in M!Location |-> IF b % 4 = 0 THEN m[b \div 4] ELSE 0]
Bytes == MemoryBytes(mem)

\* The byte address of a word address as a signed number; only the last word of
\* the address space is taken for negative.
ByteAddr(a) == IF a = Modulus - 1 THEN -4 ELSE 4 * a

\* The store of the clock, as the store pipeline holds it.
Pushed == [size |-> 4 * store.size, addr |-> ByteAddr(store.addr),
           data |-> BytesOf(store.data)]

Loads(i) == is_load(i.op) /\ i.op.type = "I"

AccessOf(buffer) ==
  LET i == instrs[buffer.instr] IN
  IF Valid(buffer) /\ (Loads(i) \/ IsStore(i.op))
    THEN [name |-> IF Loads(i) THEN "LW" ELSE "SW",
          addr |-> ByteAddr(i.addr),
          data |-> IF Loads(i) THEN M!Zero ELSE BytesOf(i.rs2)]
    ELSE M!NoAccess

WordAccesses ==
  {[name |-> "LW", addr |-> ByteAddr(a), data |-> M!Zero] : a \in Word}
    \cup {[name |-> "SW", addr |-> ByteAddr(a), data |-> BytesOf(v)] :
            a \in Word, v \in Word}
    \cup {M!NoAccess}

\* The instruction whose access it is has moved on when the clock ends.
BetweenClocks == phase \in {"writeBack", "stopped"}
InMemoryStage == IF BetweenClocks THEN mw_st.load ELSE em_st.load
BehindMemoryStage == IF BetweenClocks THEN mw_st.load ELSE mw_st.store

Requested == AccessOf(InMemoryStage)

Loaded ==
  IF Valid(BehindMemoryStage) /\ Loads(instrs[BehindMemoryStage.instr])
    THEN BytesOf(instrs[BehindMemoryStage.instr].rd)
    ELSE M!Zero

\* Exceptions of decode and fetch come between two steps of the memory.
OutOfMemory ==
  \/ store.size > 0 /\ ~InBounds(store.addr)
  \/ /\ Valid(em_st.load) /\ mw_st.store.is_stall
     /\ ~InBounds(instrs[em_st.load.instr].addr)

MemoryPhase ==
  IF BetweenClocks THEN "issue"
  ELSE IF phase = "memoryAccess" \/ (phase = "aborted" /\ OutOfMemory) THEN phase
  ELSE "update"

Memory == INSTANCE DataMemory WITH
  ByteValues <- Modulus, MemBytes <- 4 * MemSize,
  Accesses <- WordAccesses, Image <- MemoryBytes(InitMem),
  is_sq <- IsSq, bytes <- Bytes, store <- Pushed, queue <- <<>>,
  access <- Requested, rd <- Loaded, phase <- MemoryPhase

\* Whatever the program does, each clock asks the memory for the access of one
\* instruction that nothing has squashed, and hands its result to write-back
\* untouched: until the clock ends no decode reuses the object that holds the
\* address and the data, and no stage changes it.
UsesMemory == Memory!Spec
=============================================================================
