---------------------------- MODULE LoaderProofs ----------------------------
(***************************************************************************)
(* The start of the simulator implements ProgramStart, for every memory    *)
(* size and every set of consistent files.                                 *)
(***************************************************************************)
EXTENDS LoaderSafety, TLAPS

Phdr(k) == path_to_data.phdrs[k]

TypeInv ==
  /\ path_to_data \in Files
  /\ phase \in {"trace", "log", "elf", "load", "run", "aborted"}
  /\ i \in 1 .. Len(path_to_data.phdrs) + 1
  /\ buf \in Seq(Byte)
  /\ memory \in [Location -> Byte]

\* What the calls before this one have left behind.
ProgressInv ==
  /\ phase \in {"trace", "log", "elf"} => i = 1
  /\ phase \in {"trace", "log", "elf", "load"} => sp_lock = 0
  /\ phase \in {"log", "elf", "load", "run"} => trace.file = <<>>
  /\ phase \in {"elf", "load", "run"} => log.file = <<>>
  /\ phase = "load" => path_to_data.is_elf /\ entry = path_to_data.entry

\* The headers before the i-th were in order, and memory holds the bytes of each
\* of them, and zeros where there is none.
LoadedInv ==
  phase \in {"trace", "log", "elf", "load"} =>
    /\ \A k \in 1 .. i - 1 : Present(path_to_data, Phdr(k)) /\ Fits(Phdr(k))
    /\ \A k \in 1 .. i - 1 : \A a \in Location :
         Covers(Phdr(k), a) => memory[a] = ByteAt(path_to_data, Phdr(k), a)
    /\ \A a \in Location :
         (\A k \in 1 .. i - 1 : ~Covers(Phdr(k), a)) => memory[a] = 0

LoaderInv == TypeInv /\ ProgressInv /\ LoadedInv

LEMMA FileType ==
  ASSUME NEW f \in Files
  PROVE  /\ f.entry \in Nat /\ f.class = 32
         /\ f.bytes \in Seq(Byte)
         /\ Len(f.phdrs) \in Nat
         /\ \A k \in 1 .. Len(f.phdrs) :
              /\ f.phdrs[k] \in ProgramHeader
              /\ f.phdrs[k] \in Headers(f)
BY FilesAssumption, ConsistentAssumption DEF File, Consistent, Headers

\* The first bytes of buf after read() are those of the segment, whatever buf
\* held before.
LEMMA FilledBuf ==
  ASSUME TypeInv, NEW h \in ProgramHeader, Present(path_to_data, h)
  PROVE  /\ Filled(h) \in Seq(Byte)
         /\ \A k \in 1 .. h.filesz :
              k \in 1 .. Len(Filled(h)) /\ Filled(h)[k] = path_to_data.bytes[h.offset + k]
<1> DEFINE n == IF Len(buf) < h.filesz THEN h.filesz ELSE Len(buf)
<1>1. n \in Nat /\ h.filesz \in Nat /\ h.offset \in Nat /\ h.filesz <= n
  BY DEF TypeInv, ProgramHeader
<1>2. Resized(h.filesz) = [k \in 1 .. n |-> IF k <= Len(buf) THEN buf[k] ELSE 0]
  BY DEF Resized
<1>3. \A k \in 1 .. n : (IF k <= Len(buf) THEN buf[k] ELSE 0) \in Byte
  <2>1. Len(buf) \in Nat /\ \A k \in 1 .. Len(buf) : buf[k] \in Byte
    BY DEF TypeInv
  <2>2. \A k \in 1 .. n : k <= Len(buf) => k \in 1 .. Len(buf)
    BY <1>1, <2>1
  <2> QED BY <2>1, <2>2 DEF Byte
<1> HIDE DEF n
<1>4. Len(Resized(h.filesz)) = n /\ Resized(h.filesz) \in Seq(Byte)
  BY <1>1, <1>2, <1>3
<1>5. Filled(h) = [k \in 1 .. n |-> IF k <= h.filesz THEN path_to_data.bytes[h.offset + k]
                                   ELSE Resized(h.filesz)[k]]
  BY <1>4 DEF Filled
<1>6. \A k \in 1 .. h.filesz : path_to_data.bytes[h.offset + k] \in Byte
  BY <1>1, FileType DEF TypeInv, Present
<1>7. \A k \in 1 .. n : (IF k <= h.filesz THEN path_to_data.bytes[h.offset + k]
                         ELSE Resized(h.filesz)[k]) \in Byte
  BY <1>1, <1>4, <1>6
<1> QED BY <1>1, <1>5, <1>7

LEMMA InitLoaderInv == LoaderInit => LoaderInv
<1> SUFFICES ASSUME LoaderInit PROVE LoaderInv OBVIOUS
<1>1. path_to_data \in Files BY DEF LoaderInit
<1>2. buf \in Seq(Byte) BY BufSizeAssumption DEF LoaderInit, Byte
<1>3. TypeInv BY <1>1, <1>2, FileType DEF LoaderInit, TypeInv, Byte
<1>4. ProgressInv BY DEF LoaderInit, ProgressInv
<1>5. LoadedInv BY DEF LoaderInit, LoadedInv
<1> QED BY <1>3, <1>4, <1>5 DEF LoaderInv

\* A segment is added to memory, and leaves the bytes of those before it alone,
\* or replaces them by the same ones.
LEMMA LoadSegmentInv == LoaderInv /\ loadSegment => LoaderInv'
<1> SUFFICES ASSUME LoaderInv, loadSegment PROVE LoaderInv' OBVIOUS
<1> DEFINE h == Phdr(i)
<1>1. /\ path_to_data' = path_to_data /\ phase' = phase /\ phase = "load"
      /\ i' = i + 1 /\ i <= Len(path_to_data.phdrs)
      /\ Present(path_to_data, h) /\ Fits(h)
      /\ buf' = Filled(h)
      /\ memory' = Written(Filled(h), h.vaddr, h.filesz)
      /\ UNCHANGED <<trace, log, entry, sp_lock>>
  BY DEF loadSegment, Phdr
<1>2. /\ path_to_data \in Files /\ i \in 1 .. Len(path_to_data.phdrs)
      /\ h \in ProgramHeader /\ h \in Headers(path_to_data)
  BY <1>1, FileType DEF LoaderInv, TypeInv, Phdr
<1>3. h.vaddr \in Nat /\ h.filesz \in Nat /\ h.offset \in Nat
  BY <1>2 DEF ProgramHeader
<1>4. \A k \in 1 .. i - 1 : Phdr(k) \in ProgramHeader /\ Phdr(k) \in Headers(path_to_data)
  BY <1>2, FileType DEF Phdr
<1>5. Filled(h) \in Seq(Byte)
  BY <1>1, <1>2, FilledBuf DEF LoaderInv
<1>6. \A a \in Location : Covers(h, a) =>
        /\ memory'[a] = ByteAt(path_to_data, h, a)
        /\ memory'[a] \in Byte
  <2> SUFFICES ASSUME NEW a \in Location, Covers(h, a)
               PROVE  /\ memory'[a] = ByteAt(path_to_data, h, a)
                      /\ memory'[a] \in Byte
    OBVIOUS
  <2>1. a \in Int /\ a - h.vaddr \in 0 .. h.filesz - 1
    BY MemBytesAssumption DEF Location, Covers
  <2>2. memory'[a] = Filled(h)[a - h.vaddr + 1]
    BY <1>1, <2>1 DEF Written
  <2>3. a - h.vaddr + 1 \in 1 .. h.filesz BY <1>3, <2>1
  <2>4. /\ Filled(h)[a - h.vaddr + 1] = path_to_data.bytes[h.offset + (a - h.vaddr + 1)]
        /\ a - h.vaddr + 1 \in 1 .. Len(Filled(h))
    BY <1>1, <1>2, <2>3, FilledBuf DEF LoaderInv
  <2>5. h.offset + (a - h.vaddr + 1) = h.offset + (a - h.vaddr) + 1
    BY <1>3, <2>1
  <2> QED BY <1>5, <2>2, <2>4, <2>5 DEF ByteAt
<1>7. \A a \in Location : ~Covers(h, a) => memory'[a] = memory[a]
  BY <1>1 DEF Written, Covers
<1>8. TypeInv'
  <2>1. memory' \in [Location -> Byte]
    <3>1. \A a \in Location : memory'[a] \in Byte
      BY <1>6, <1>7 DEF LoaderInv, TypeInv
    <3> QED BY <3>1, <1>1 DEF Written
  <2> QED BY <1>1, <1>2, <1>5, <2>1 DEF LoaderInv, TypeInv
<1>9. ProgressInv' BY <1>1 DEF LoaderInv, ProgressInv
<1>10. LoadedInv'
  <2>1. \A k \in 1 .. i' - 1 : k \in 1 .. i - 1 \/ k = i
    BY <1>1, <1>2
  <2>2. \A k \in 1 .. i - 1 : k \in 1 .. i' - 1
    BY <1>1, <1>2
  <2>3. i \in 1 .. i' - 1
    BY <1>1, <1>2
  <2>4. \A k \in 1 .. i - 1 : Present(path_to_data, Phdr(k)) /\ Fits(Phdr(k))
    BY <1>1 DEF LoaderInv, LoadedInv
  <2>5. ASSUME NEW k \in 1 .. i - 1, NEW a \in Location, Covers(Phdr(k), a)
        PROVE  memory'[a] = ByteAt(path_to_data, Phdr(k), a)
    <3>1. memory[a] = ByteAt(path_to_data, Phdr(k), a)
      BY <1>1, <2>5 DEF LoaderInv, LoadedInv
    <3>2. CASE Covers(h, a)
      <4>1. Consistent(path_to_data) BY <1>2, ConsistentAssumption
      <4>2. ByteAt(path_to_data, h, a) = ByteAt(path_to_data, Phdr(k), a)
        BY <1>1, <1>2, <1>4, <2>4, <2>5, <3>2, <4>1 DEF Consistent
      <4> QED BY <1>6, <3>2, <4>2
    <3>3. CASE ~Covers(h, a) BY <1>7, <3>1, <3>3
    <3> QED BY <3>2, <3>3
  <2>6. \A k \in 1 .. i' - 1 : Present(path_to_data, Phdr(k)) /\ Fits(Phdr(k))
    BY <1>1, <2>1, <2>4
  <2>7. \A k \in 1 .. i' - 1 : \A a \in Location :
          Covers(Phdr(k), a) => memory'[a] = ByteAt(path_to_data, Phdr(k), a)
    BY <1>6, <2>1, <2>5
  <2>8. \A a \in Location :
          (\A k \in 1 .. i' - 1 : ~Covers(Phdr(k), a)) => memory'[a] = 0
    BY <1>1, <1>7, <2>2, <2>3 DEF LoaderInv, LoadedInv
  <2>9. \A k : Phdr(k)' = path_to_data.phdrs[k]
    BY <1>1 DEF Phdr
  <2> QED BY <1>1, <2>6, <2>7, <2>8 DEF LoadedInv, Phdr
<1> QED BY <1>8, <1>9, <1>10 DEF LoaderInv

LEMMA SetUpInv == LoaderInv /\ setUp => LoaderInv'
<1> SUFFICES ASSUME LoaderInv, setUp PROVE LoaderInv' OBVIOUS
<1>1. memory' \in [Location -> Byte]
  <2>1. \A a \in Location : memory'[a] = IF IsArgc(a) THEN 0 ELSE memory[a]
    BY MemBytesAssumption DEF setUp, Written, IsArgc, StackTop, Location
  <2>2. 0 \in Byte /\ \A a \in Location : memory[a] \in Byte
    BY DEF LoaderInv, TypeInv, Byte
  <2>3. \A a \in Location : memory'[a] \in Byte
    BY <2>1, <2>2
  <2>4. memory' = [a \in Location |-> memory'[a]]
    BY DEF setUp, Written
  <2> QED BY <2>3, <2>4
<1>2. TypeInv' BY <1>1 DEF LoaderInv, TypeInv, setUp
<1>3. ProgressInv' BY DEF LoaderInv, ProgressInv, setUp
<1>4. LoadedInv' BY DEF LoadedInv, setUp
<1> QED BY <1>2, <1>3, <1>4 DEF LoaderInv

LEMMA NextLoaderInv == LoaderInv /\ [LoaderNext]_vars => LoaderInv'
<1> SUFFICES ASSUME LoaderInv, [LoaderNext]_vars PROVE LoaderInv' OBVIOUS
<1> USE DEF LoaderInv, TypeInv, ProgressInv, LoadedInv, Phdr
<1>1. CASE openTrace BY <1>1 DEF openTrace, Opened
<1>2. CASE openLog BY <1>2 DEF openLog, Opened
<1>3. CASE openElf BY <1>3, FileType DEF openElf
<1>4. CASE loadSegment BY <1>4, LoadSegmentInv
<1>5. CASE setUp BY <1>5, SetUpInv
<1>6. CASE fail BY <1>6 DEF fail
<1>7. CASE finished BY <1>7 DEF finished, vars
<1>8. CASE UNCHANGED vars BY <1>8 DEF vars
<1> QED BY <1>1, <1>2, <1>3, <1>4, <1>5, <1>6, <1>7, <1>8 DEF LoaderNext

\* At every call, what the calls before it have done to memory and the files is
\* what LoaderInv says.
THEOREM LoaderInvariant == LoaderSpec => []LoaderInv
BY InitLoaderInv, NextLoaderInv, PTL DEF LoaderSpec

-----------------------------------------------------------------------------
\* Once all headers have been copied, memory is that of the program.
LEMMA SetUpMemory == LoaderInv /\ setUp => memory' = Starts!Loaded(path_to_data)
<1> SUFFICES ASSUME LoaderInv, setUp
             PROVE  memory' = Starts!Loaded(path_to_data)
  OBVIOUS
<1> DEFINE f == path_to_data
           Covering(h, a) == h.type = "LOAD" /\ Covers(h, a)
<1>1. f \in Files /\ Consistent(f) /\ phase = "load" /\ i = Len(f.phdrs) + 1
      /\ Len(f.phdrs) \in Nat
  BY ConsistentAssumption, FileType DEF LoaderInv, TypeInv, setUp
<1>2. \A h \in Headers(f) : \E k \in 1 .. i - 1 : h = Phdr(k)
  BY <1>1 DEF Headers, Phdr
<1>3. \A k \in 1 .. i - 1 : Phdr(k) \in Headers(f)
  BY <1>1 DEF Headers, Phdr
<1>4. \A a \in Location :
        memory'[a] = IF IsArgc(a) THEN 0 ELSE memory[a]
  BY MemBytesAssumption DEF setUp, Written, IsArgc, StackTop, Location
<1>5. ASSUME NEW a \in Location, \E h \in Headers(f) : Covering(h, a)
      PROVE  memory[a] = ByteAt(f, CHOOSE h \in Headers(f) : Covering(h, a), a)
  <2> DEFINE c == CHOOSE h \in Headers(f) : Covering(h, a)
  <2>1. c \in Headers(f) /\ Covers(c, a) BY <1>5
  <2> HIDE DEF c
  <2>2. PICK k \in 1 .. i - 1 : c = Phdr(k) BY <1>2, <2>1
  <2>3. memory[a] = ByteAt(f, c, a)
    BY <1>1, <2>1, <2>2 DEF LoaderInv, LoadedInv
  <2> QED BY <2>3 DEF c
<1>6. ASSUME NEW a \in Location, ~\E h \in Headers(f) : Covering(h, a)
      PROVE  memory[a] = 0
  <2>1. \A h \in Headers(f) : ~Covers(h, a) BY <1>1, <1>6 DEF Consistent
  <2> QED BY <1>1, <1>3, <2>1 DEF LoaderInv, LoadedInv
<1>7. \A a \in Location : memory'[a] = Starts!Loaded(f)[a]
  BY <1>4, <1>5, <1>6 DEF Starts!Loaded, Starts!IsArgc, IsArgc, Starts!StackTop,
    StackTop, Starts!Headers, Headers, Starts!Covers, Covers, Starts!ByteAt, ByteAt,
    Starts!Location, Location
<1>8. memory' = [a \in Location |-> memory'[a]]
  BY DEF setUp, Written
<1>9. Starts!Loaded(f) = [a \in Location |-> Starts!Loaded(f)[a]]
  BY DEF Starts!Loaded, Starts!Location, Location
<1> QED BY <1>7, <1>8, <1>9

LEMMA SetUpStarts == LoaderInv /\ setUp => Starts!Start
<1> SUFFICES ASSUME LoaderInv, setUp PROVE Starts!Start OBVIOUS
<1>1. memory' = Starts!Loaded(path_to_data) BY SetUpMemory
<1>2. Started = "no" /\ Started' = "yes" BY DEF setUp, Started
<1>3. path_to_data.is_elf BY DEF LoaderInv, ProgressInv, setUp
<1>4. \A h \in Headers(path_to_data) : Present(path_to_data, h) /\ Fits(h)
  <2>1. Len(path_to_data.phdrs) \in Nat /\ i = Len(path_to_data.phdrs) + 1
    BY FileType DEF LoaderInv, TypeInv, setUp
  <2>2. phase = "load" BY DEF setUp
  <2> QED BY <2>1, <2>2 DEF LoaderInv, LoadedInv, Headers, Phdr
<1>5. Machine' = [memory |-> memory', pc |-> pc', sp |-> sp', sp_lock |-> sp_lock',
                 trace |-> trace'.file, log |-> log'.file]
  BY DEF setUp, Machine
<1>6. /\ pc' = path_to_data.entry /\ sp' = StackTop /\ sp_lock' = 0
      /\ trace'.file = <<>> /\ log'.file = <<>> /\ path_to_data' = path_to_data
  BY DEF LoaderInv, ProgressInv, setUp
<1> QED
  BY <1>1, <1>2, <1>3, <1>4, <1>5, <1>6
  DEF Starts!Start, Starts!Headers, Headers, Starts!Present, Present, Starts!Fits,
    Fits, Starts!StackTop, StackTop

\* For every memory and every set of consistent files, the clock loop starts with
\* the whole program in place, or not at all.
THEOREM LoaderRefinement == LoaderSpec => StartsProgram
<1>1. LoaderInit => Starts!Init
  BY DEF LoaderInit, Starts!Init, Started, Machine, NoMachine, Starts!NoMachine
<1>2. ASSUME LoaderInv, [LoaderNext]_vars
      PROVE  [Starts!Start \/ Starts!Fail]_<<path_to_data, Started, Machine>>
  <2>1. CASE setUp BY <1>2, <2>1, SetUpStarts
  <2>2. CASE fail
    BY <2>2 DEF fail, Starts!Fail, Started, Machine, NoMachine
  <2>3. CASE openTrace \/ openLog \/ openElf \/ loadSegment
    BY <2>3 DEF openTrace, openLog, openElf, loadSegment, Started, Machine
  <2>4. CASE finished \/ UNCHANGED vars
    BY <2>4 DEF finished, vars, Started, Machine, NoMachine
  <2> QED BY <1>2, <2>1, <2>2, <2>3, <2>4 DEF LoaderNext
<1> QED BY <1>1, <1>2, LoaderInvariant, PTL DEF LoaderSpec, StartsProgram, Starts!Spec
=============================================================================
