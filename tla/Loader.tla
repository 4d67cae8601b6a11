------------------------------- MODULE Loader -------------------------------
(***************************************************************************)
(* The start of the simulator, as main calls it: the constructors of       *)
(* Config, which opens the output files, of ElfManager, which opens the    *)
(* program, ElfManager::load, and the rest of the constructor of PerfSim.  *)
(* The operating system and libelf may fail in every call; the calls that  *)
(* check for it exit or throw, which ends the process either way.          *)
(***************************************************************************)
EXTENDS ProgramFile, Log

CONSTANT BufSize    \* the first size of buf in ElfManager::load

ASSUME BufSizeAssumption == BufSize \in Nat

VARIABLES
  path_to_data,   \* the file at the path of the program
  phase,          \* the next call
  trace, log,     \* the output files, that may hold those of an earlier run
  entry,          \* ElfManager::entry
  i, buf,         \* local variables of load
  memory,         \* Memory::memory
  sp, sp_lock,    \* the register sp, and its lock
  pc              \* the pc in the fetch latch

vars == <<path_to_data, phase, trace, log, entry, i, buf, memory, sp, sp_lock, pc>>

LoaderInit ==
  /\ path_to_data \in Files
  /\ phase = "trace"
  /\ \E old \in {<<>>, <<"old">>} :
       /\ trace = [is_open |-> FALSE, buffer |-> <<>>, file |-> old]
       /\ log = [is_open |-> FALSE, buffer |-> <<>>, file |-> old]
  /\ entry = 0
  /\ i = 1 /\ buf = [k \in 1 .. BufSize |-> 0]
  /\ memory = [a \in Location |-> 0]
  /\ sp = 0 /\ sp_lock = 0 /\ pc = 0

\* Config::Config opens trace.txt, then Log.txt.
openTrace ==
  /\ phase = "trace" /\ phase' = "log"
  /\ trace' = Opened
  /\ UNCHANGED <<path_to_data, log, entry, i, buf, memory, sp, sp_lock, pc>>

openLog ==
  /\ phase = "log" /\ phase' = "elf"
  /\ log' = Opened
  /\ UNCHANGED <<path_to_data, trace, entry, i, buf, memory, sp, sp_lock, pc>>

\* ElfManager::ElfManager.  An ELF object of 64 bits is accepted, but its entry
\* point is not taken.
openElf ==
  /\ phase = "elf" /\ phase' = "load"
  /\ path_to_data.is_elf
  /\ entry' = IF path_to_data.class = 32 THEN path_to_data.entry ELSE entry
  /\ UNCHANGED <<path_to_data, trace, log, i, buf, memory, sp, sp_lock, pc>>

-----------------------------------------------------------------------------
\* buf after resize() and read() of the bytes of header h: what a longer segment
\* left behind them stays.
Resized(n) ==
  [k \in 1 .. (IF Len(buf) < n THEN n ELSE Len(buf)) |->
     IF k <= Len(buf) THEN buf[k] ELSE 0]
Filled(h) ==
  [k \in 1 .. Len(Resized(h.filesz)) |->
     IF k <= h.filesz THEN path_to_data.bytes[h.offset + k]
     ELSE Resized(h.filesz)[k]]

\* A mutant of Written: all of buf is copied.
WrittenBuf(data, addr, n) ==
  [a \in Location |-> IF a - addr \in 0 .. Len(data) - 1 THEN data[a - addr + 1]
                      ELSE memory[a]]

\* Memory::write of the first n bytes of data.
Written(data, addr, n) ==
  [a \in Location |-> IF a - addr \in 0 .. n - 1 THEN data[a - addr + 1]
                      ELSE memory[a]]

\* An iteration of ElfManager::load: headers of every type are copied, and only
\* the p_filesz bytes that are in the file, into memory that is zero.
loadSegment ==
  /\ phase = "load" /\ UNCHANGED phase
  /\ i <= Len(path_to_data.phdrs)
  /\ LET h == path_to_data.phdrs[i] IN
     /\ Present(path_to_data, h) /\ Fits(h)
     /\ buf' = Filled(h)
     /\ memory' = Written(Filled(h), h.vaddr, h.filesz)
  /\ i' = i + 1
  /\ UNCHANGED <<path_to_data, trace, log, entry, sp, sp_lock, pc>>

\* The rest of PerfSim::PerfSim: getReg(sp, WRITE), argc, rf.write(sp), and the
\* fetch latch.
setUp ==
  /\ phase = "load" /\ phase' = "run"
  /\ i > Len(path_to_data.phdrs)
  /\ sp' = StackTop
  /\ sp_lock' = (sp_lock - 1) + 1
  /\ memory' = Written(<<0, 0, 0, 0>>, StackTop, 4)
  /\ pc' = entry
  /\ UNCHANGED <<path_to_data, trace, log, entry, i, buf>>

\* "Could not open Log", errx, "can't get phdr", "lseek failed", "read instr fail"
\* or "addr is out of memory".
fail ==
  /\ phase \in {"trace", "log", "elf", "load"} /\ phase' = "aborted"
  /\ UNCHANGED <<path_to_data, trace, log, entry, i, buf, memory, sp, sp_lock, pc>>

finished == phase \in {"run", "aborted"} /\ UNCHANGED vars

LoaderNext ==
  openTrace \/ openLog \/ openElf \/ loadSegment \/ setUp \/ fail \/ finished

LoaderSpec == LoaderInit /\ [][LoaderNext]_vars
=============================================================================
