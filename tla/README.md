# Verification of perf-sim

perf-sim is a cycle-level simulator of a five-stage RV32I pipeline. It loads a statically
linked ELF file, runs it clock by clock until an `ECALL` retires, and prints how many clocks,
instructions, stops, taken jumps and bypasses there were. This directory holds TLA+ models of
the simulator, the TLC runs that check them on small machines, and theorems about them that
TLAPS proves for machines of every size.

## 1. Inventory

The program is one thread. `PerfSim::run` (PerfSim.cpp:24-51) calls, in every clock, the stages
from the last to the first (writeBack, memoryAccess, execute, decode, fetch), then updates the
five latches and the store pipeline. What makes it hard is not threads but the order of these
calls: a stage reads the *load* side of the latch in front of it while a later-called stage still
writes the *store* side of the one behind it, an instruction is a mutable object of which latches
hold pointers, and the hazard unit reaches from decode and execute into latches of other stages.

| Component | Source | State | Operations | Interacts with |
|---|---|---|---|---|
| Clock loop and stages | PerfSim.cpp | `ic`, `clocks`, `is_stop` | constructor, `run`, the five stages | everything below, by calls |
| Latches | Stage.h | `store`, `load` buffers, `stop_count` of `wf_st fd_st de_st em_st mw_st` | `update`, `extend`, `is_stop`, `clear` | stages write `store`, read `load`; hazard unit writes both |
| Hazard unit | HazardUnit.cpp | counters `bypasses_*`, `branches`, `stops` | `decode` (bypass, stall), `branch` (squash), `exit` (drain), `write` (release) | holds references to latches and registers |
| Register file | RegFile.cpp | `regs`, `reg_locker` | `getReg`, `is_lock`, `write` | locked by Decoder, released by HazardUnit::write |
| Decoder | Decoder.cpp | a `CyclicArray` of instruction objects per type | `decode`, `recognize`, `get_next` | HazardUnit::decode for operands, RegFile for the lock |
| Instruction objects | Instruction.cpp | `rs1 rs2 rd pc addr branch_addr ...` of each pooled object | constructors, `execute`, `calc_imm` | pointed to by the latches |
| Executors | Executors.cpp | none | one function per instruction | run on the pooled object |
| Store pipeline | Pipeline.cpp | queue of stores, the store of this clock | `push`, `tryConcatenate`, `searchData`, `update` | between memoryAccess and Memory |
| Data memory | Memory.cpp | bytes | `read`, `write` with a bound check | fetch, loads, stores |
| ELF loader | ElfManager.cpp | the open file, `entry`, the buffer of `load` | constructor, `load`, `getEntry` | fills Memory once, header by header |
| Configuration | Config.h | constants, the two output files | constructor, destructor | read by all |
| Output | Log.cpp, PerfSim.cpp:217-266 | the streams of `trace.txt` and `Log.txt` | `open`, `<<`, `endl`, `close`, `dumpInstruction`, `dump` | writeBack writes the trace, `run` the figures |
| main | main.cpp | none | constructs, runs, returns | |

What makes each component correct:

* **Loop and stages**: seen from outside, the pipeline executes the program one instruction at a
  time, in order, with the right operands; it ends when the program does; nothing behind the
  ECALL has an effect; the printed figures add up.
* **Latches**: an empty buffer is never processed; fetch and decode stop and resume together.
* **Hazard unit**: a locked operand always has a producer; the youngest producer wins; a squash
  removes exactly the younger instructions.
* **Register file**: lock counters balance; they count the pending writers, no more, no fewer.
* **Decoder**: an object is not handed out again while an instruction in flight uses it; the
  opcode table finds one entry per instruction.
* **Executors**: each computes what RV32I says, and decoding finds the right one.
* **Loader**: the clock loop starts with the whole program in memory or not at all.
* **Output**: the trace lists the instructions that have retired, at every moment, so also when the
  process dies; it is complete when `main` returns; the figures account for every clock.
* **Store pipeline and memory**: a load sees the last store to each of its bytes, extended as
  its instruction demands; accesses stay in memory.

Hard behaviours: the order of stages within a clock; several instructions in flight that write
one register; squashes that race the release of a lock; stops of several latches that add up;
pooled objects reused round and round; taken jumps and system instructions meeting a load-use
stall; loops, in which all of these meet the state an earlier turn left behind; termination;
sub-word accesses, sign extension and the wrap of the bound check; a failure half-way through
loading; an exception between two lines of the trace. There is no concurrency, no messages, no persistence, no time-outs and no restart. PROJECT.json lists each
hazard at its line.

## 2. Modules

| Module | Models |
|---|---|
| `Stage` | Stage.h: a latch as `[store, load, stop_count]`, the buffers and their `clear()`, `update` |
| `Instruction` | decoded words, the pooled objects, `Instruction::execute` with the address, jump, load and store executors |
| `RegFile` | registers and lock counters |
| `HazardUnit` | EXTENDS the three above; the five latches, operand lookup, stalls, `branch`, `exit`, `write` |
| `Decoder` | EXTENDS `HazardUnit`; the object pools and `Decoder::decode` |
| `PerfSim` | EXTENDS `Decoder`; the constructor, the clock loop, data memory and store pipeline, `Spec`, `FairSpec` |
| `ISA` | the abstract machine: one instruction per step |
| `PerfSimSafety` | the safety invariants |
| `PerfSimISA` | the refinement mapping to `ISA`: an instruction takes effect when the memory stage processes it; the programs for which it holds (`SafeProgram`) |
| `PerfSimISAInvariant`, `PerfSimISAProofs` | the invariant of that refinement; the TLAPS proofs |
| `Log` | Log.cpp: a stream as a buffer in front of a file |
| `Trace`, `TracedISA` | the line of an instruction in `trace.txt`; `ISA` with its trace file and the line it owes |
| `PerfSimTrace` | EXTENDS `PerfSimISA`, `Trace`, `Log`; `dumpInstruction`, `dump`, the end of `main`; the refinement of `TracedISA`, cycle accounting, termination |
| `PerfSimTraceInvariant`, `PerfSimTraceProofs` | the invariants of the trace and of the figures; the TLAPS proofs |
| `PerfSimMemory` | EXTENDS `PerfSimSafety`; the pipeline as a user of `DataMemory` |
| `PerfSimInvariant` | the inductive invariant |
| `PerfSimProofs` | the TLAPS proofs |
| `PerfSimMemoryProofs` | EXTENDS `PerfSimMemory`, `PerfSimProofs`; the proof that the pipeline implements `DataMemory` |
| `MCPerfSim`, `MCPerfSimTrace` | small machines, alphabets and programs for TLC |
| `MemoryAccess` | loads and stores as the memory stage sees them: name, size, address, bytes of rs2 |
| `ByteMemory` | the abstract memory: one access per step on an array of bytes |
| `DataMemory` | EXTENDS `MemoryAccess`; memoryAccess, `signExtend`, `Pipeline`, `Memory` down to bytes |
| `DataMemorySafety` | the refinement mapping to `ByteMemory`; what RV32I and the bound check promise |
| `DataMemoryProofs`, `MCDataMemory` | the TLAPS proofs and the instance for TLC |
| `Encoding` | field extraction, `recognize`, `calc_imm`, on words as sets of bits |
| `Assembler` | EXTENDS `Encoding`; the formats of RV32I and the table of its instructions, one decode, what it must find |
| `EncodingProofs` | EXTENDS `InstructionSet`, `ExecutorsProofs`; the TLAPS proofs of decoding, and of an instruction from its source to its register |
| `Executors` | the arithmetic and the comparisons, and RV32I bit by bit |
| `ExecutorsProofs` | powers of two, bits, and the proofs that the two agree |
| `InstructionSet`, `MCInstructionSet` | EXTENDS `Assembler`, `Executors`: an instruction assembled, decoded and executed; the instance for TLC |
| `ProgramFile` | ELF files: headers, bytes, what they cover |
| `ProgramStart` | the abstract start: the machine appears at once, or the process ends |
| `Loader` | EXTENDS `ProgramFile`, `Log`; the constructors of `Config`, `ElfManager` and `PerfSim`, `ElfManager::load` |
| `LoaderSafety` | the refinement mapping to `ProgramStart` |
| `LoaderProofs`, `MCLoader` | the TLAPS proofs and the instance for TLC |

How the groups compose:

* `PerfSim` takes decoded instructions and an `Alu` as given, so that its proofs hold for any of
  them with the combinations of fields that `recognize` gives (`RecognizedAssumption`, which is
  what `AlwaysWellFormed` proves of `Encoding`). `Encoding` says which fields a decoded word can have, `Executors` what the `Alu` is, and
  `InstructionSet` puts these two together: the executor that `recognize` finds for a word is run
  on the operands that `decode` and `calc_imm` give it.
* `PerfSimMemory` maps the pipeline to `DataMemory`: each clock of the pipeline is one access of
  that module, and the theorem of `DataMemory` about bytes takes over from there for accesses that
  do not wrap. Both halves are checked and proved.
* `PerfSimTrace` adds the output to every step of `PerfSim`.
* `Loader` ends where `PerfSim` starts: `Loaded` of a file is the memory that `PerfSim` has, decoded
  and as words, in `Programs` and `Image`; `entry`, `sp` and argc are in its `Init`.

### State and actions

`phase` is the call the loop makes next; each call is one step, each of its outcomes one action:

| Code | Actions |
|---|---|
| `writeBack` | `writeBackBubble`, `retire` |
| `memoryAccess` | `memoryBubble`, `memoryStore`, `memoryLoad`, `memoryOther`, `memoryThrow` |
| `execute` | `executeBubble`, `executePlain`, `executeJump`, `executeSystem` |
| `decode` | `decodeBubble`, `decodeInstr`, `decodeThrow` |
| `fetch` | `fetchBubble`, `fetchInstr`, `fetchThrow` |
| the five `update()`, `pipeline.update()`, `clocks++` | `endOfClock`, `updateThrow` |
| after `run()` | `finished` |
| `dumpInstruction` in `writeBack` | `retireTraced` |
| every other call of the loop, with output left alone | `stageCall` |
| `dump`, the destructor of `Config` | `dump`, `exit` |
| `Config::Config`, `ElfManager::ElfManager` | `openTrace`, `openLog`, `openElf` |
| an iteration of `ElfManager::load` | `loadSegment` |
| the rest of `PerfSim::PerfSim` | `setUp` |
| an exception or `errx` before `run()` | `fail` |

In `DataMemory`, `issue` is the hand-over of the latches in front of the memory stage and
replaces the rest of the pipeline; `push`, `writeThrough`, `load`, `other`, `accessThrow` are the
paths through `memoryAccess` for an instruction that is not squashed, and `update`,
`updateThrow` are `Pipeline::update`. In `Assembler`, `decode` is one call of `Decoder::decode`
on a word; in `InstructionSet`, `decodeOperands` adds the operand values it finds, and
`executeArithmetic` and `executeBranch` are the call of `Instruction::execute` on the object.

A latch buffer holds a *pointer* `<<type, slot>>` to an object in `instrs`, as the code does, so
that an object reused too early, or executed a second time in place, behaves as in the code. A
hazard-unit operation is an operator on the latches that the action of its caller applies in the
order the code calls it. The store side of a latch keeps what an earlier clock left there where
the code does.

### Abstractions

* In `PerfSim`, memory, addresses and the pc count words; a machine word is `0 .. Modulus-1` and
  wraps. Loads and stores move whole words; bytes, half words, alignment and `signExtend` are in
  `DataMemory`. The constructor's `sp = getMemSize() - 5`
  (PerfSim.cpp:12), a word that ends one byte below the end of memory, becomes the last word.
* `Memory::read` and `Memory::write` compute `addr + bytes` in 64 bits after sign extension, so
  that the check passes for the word just below address 0 (Memory.cpp:17). In the model
  (`InBounds`) that word passes too; reading it yields *any* word, writing it changes nothing the
  model keeps.
* Words are decoded: in `PerfSim`, `recognize` and `calc_imm` are abstracted to the constant `Instructions`,
  a set of records with the fields of `InstructionInfo` and the decoded registers and immediate.
* In `PerfSim`, arithmetic is the constant `Alu`, comparison the constant `BranchTaken`: the pipeline's control
  does not depend on them and the proofs hold for each of them. Links of jumps, addresses and the
  fields executors leave alone are modelled.
* Instruction memory is separate from data memory: programs that write their own text are
  excluded.
* The queue in `Pipeline` is empty whenever `push` and `searchData` run, because `update` writes
  and removes, in the clock of the push, everything there is; so `tryConcatenate` and
  the forwarding in `searchData` never find anything. In `PerfSim`, what `Pipeline` keeps is
  therefore one optional store, `store`; `DataMemory` keeps the queue as well, and the theorem
  `MemoryInvariance` shows it empty.
* In `DataMemory`, a value is its four bytes, and a byte has `ByteValues` values (256 in the code;
  anything from 4 on will do, as `signExtend` never looks further than two bits). An address is a
  signed integer; the 64-bit sum of the bound check is therefore in `0 .. MemBytes` exactly when
  the code lets it pass. The bytes `searchData` leaves uninitialised are any bytes.
* In `Encoding`, a word is the set of its bits that are 1. The sums of `calc_imm` never carry, so
  they are unions.
* In `Executors`, a word is a number of `WordBits` bits, 32 in the program. The operators `^ | &` of
  C++ are set operations on the places of the bits that are 1, `<<` and `>>` products and quotients
  with `Power`. Shifts by a register of `WordBits` or
  more are undefined in C++; the model takes what the shift instructions of x86 and ARM do, the
  amount modulo the width, which is also what RV32I asks for.
* In `Loader`, a header has a type, an offset, an address and `p_filesz`; any call of libelf or of
  the system may fail. `p_memsz` is not read by the code: what a segment has beyond the file is
  zero because all memory is. The argument for `buf` is a sequence that starts with `BufSize` bytes.
* The wording of the output is left out: a trace line is the record of its columns, `Log.txt` the
  record of its figures. A line is printed in several pieces and flushed twice (its pc alone, then
  the rest); the model prints it as one, as no exception can come between.
* An uncaught exception ends the process: phase `aborted`, where no claim is made about state.
* `ic`, `clocks` and the hazard counters saturate at `MaxCount`, in the only place where the
  model bounds something the code does not. No guard reads them. `trace.txt` keeps its first
`MaxLines` lines.

## 3. Properties and runs

Machines: `Modulus = 16` word values, 8 words of memory, three registers of which register 0 is
`zero` and register 2 is `sp`. Three registers are enough for two operands to differ, and for two
writers of one register to be in flight next to a writer of another. A program is followed by
`ECALL` and zero words (which decode to an instruction of type NONE, as zero memory does).

**pipeline_control** (pass; every program of three instructions out of nine, 729 programs, loops
and wild jumps included; `Stages = 3`, the tightest pool, `MaxCount = 20`). Three instructions
are the depth at which instructions in execute, memory and write-back coexist; loops and the two
ECALLs after them produce longer histories.

* `TypeOK`: the one type invariant.
* `LockBalance`: `reg_locker[r]` counts exactly the instructions in flight that have locked `r`,
  phase by phase. Four call sites release locks; each path must meet exactly one.
* `OperandsResolved`: decode never falls through to the default-constructed `Register` of
  HazardUnit.cpp:56.
* `NextSlotFree`: the pooled object handed out belongs to no instruction in flight. The code has
  five objects per type; the run and the proof show three suffice.
* `NothingEmptyProcessed`: a buffer marked full but cleared, which `decode` and `fetch` do leave
  behind when stopped, is never processed.
* `DrainBehindSystem`: nothing younger than a system instruction is processed.
* `StopsAgree`: the fetch latch and the one it fills stop and resume in the same clock.
* `UsesMemory`: the pipeline implements `DataMemory`. One access per clock, of one instruction that
  nothing has squashed; the pooled object that carries its address, data and result is not touched
  by the later calls of the clock; aborts are the exceptions of that module and no others. Stores
  that wrap around the address space and accesses out of memory occur; a load that wraps does not,
  bound_wrap has it.

**isa_refinement** (pass; 833 programs of three and four instructions, through the store pipeline,
`MaxLines = 8`). `ImplementsISA` says that `PerfSim` implements `ISA`: in each
memory stage one instruction takes effect on pc, registers and memory, or none does. A store takes
effect there whether it goes to memory at once or waits in the store pipeline for the end of the
clock. Programs
that have one of the patterns of section 4, which the code gets wrong, are excluded
(`Safe` keeps those with `SafeProgram`); what is left has bypasses of both kinds, loads of the word just stored, forward and
indirect jumps, EBREAK drains, words the decoder does not know, and loops of four instructions
that run seven times and reuse every pooled object. `TracesISA` says that `PerfSimTrace`
implements `TracedISA`, a machine that owes the line of an instruction from the step in which it
takes effect to the step that writes it, and that takes no other step in between: `trace.txt` has,
at every moment, the lines of the instructions that have retired, in order, with the operands they
read and the results they computed. The file on disk is mapped as it is, and `Owed` is the line of
the instruction between the memory stage and `writeBack`. If decode, fetch or update throws in that
clock, this line is never written, and no other is missing; both happen in the run (a `JALR` out of
memory is in the memory stage when fetch throws). The machine closes its trace only when it has
halted and owes nothing, so a run that returns from `main` has left a complete one.

**termination** (pass; 520 programs that jump forward only or count down from 7,
`IsSq = FALSE`: stores go directly to memory; `MaxCount = 80`, `MaxLines = 8`). `Terminates`:
`run()` reports its figures and `main` returns with both files closed. `CycleAccounting`: in
`Log.txt`, `clocks = ic + 4 + 2 * branches + stops`, for programs without EBREAK (whose drain
nothing counts) and without an instruction that takes both operands from the load before it
(counted as two stops, HazardUnit.cpp:24-31): `Accountable`. Programs need not be safe for it; the
load-use stalls of HazardUnit.cpp:30 squash the wrong instruction, but they squash one.
Fairness is `WF_tracedVars(TracedNext)`: `run` is a single-threaded loop without waiting, so the
only assumption is that the process keeps running.

**memory_bytes** (pass; five bytes of memory with four values each; `is_sq` is chosen at the start and
stays).
Every access of one, two or four bytes at every address from 0 to two behind the end, and at -5,
whose end is still negative: a store at every alignment that overlaps a load in each possible
way, accesses that fit exactly and that stick out by one byte. `ImplementsBytes`: `DataMemory`
implements `ByteMemory` with the code's own extension of loaded values as the parameter
`Extend`. A store pushed in one clock is seen by the load of the next, no access touches another
byte, a load does not depend on what was in `d_data`, and an exception is thrown exactly when the
access is not in memory. The two settings of `is_sq` implement the same abstract memory, so a
program cannot tell them apart. Addresses between -4 and -1 are left to bound_wrap. `TypeOK`: bytes
stay bytes through `signExtend`.

**instruction_set** (pass). 35 instructions of RV32I and ECALL, each with immediates that have one
bit set, one bit clear or a run of leading ones, so that no bit can be moved, lost or doubled
unseen, and registers with different bits in the three fields; 4096 further words, every opcode
with every funct3 and four values of funct7. `DecodesAssembled`: name, type, registers and
immediate are those of the instruction the reference encoding in `Assembler` was given.
`RecognizedWellFormed`: whatever the word, the fields of `InstructionInfo` form a combination the
stages can process (an access has a size and the type memoryAccess asks for, a jump has
`is_branch`, a name has an executor). `ComputesRV32I` and `BranchesRV32I`: the executor that
decoding put into the object computes what RV32I says of the instruction *as assembled*, on all
operands of four bits, against definitions bit by bit and without modular arithmetic; a wrong
executor, a wrong immediate or a wrong operand would all show. Four bits have both signs, wrapped
sums in both directions and shift amounts beyond the width; `AlwaysComputes` and `AlwaysBranches`
prove both properties for every width. Executors of loads, stores and jumps are those of
module `Instruction`. A word is decoded and executed once, so the run ends: deadlock is not
checked.

**loading** (pass; eight bytes of memory, `BufSize = 1`, 5828 files). A file has no header, two
disjoint LOAD segments of zero to three bytes, with an empty header of another type between them
or not, or a segment and a header of another type that repeats its front; or it is no ELF file.
Segments lie over the end of the file, over the end of memory, over argc and side by side; the
second is shorter or longer than the buffer the first has left. `StartsProgram`: `Loader` implements `ProgramStart`.

**load_use**, **squashed_write**, **load_livelock**, **load_byte**, **bound_wrap**,
**and_immediate** (violation): section 4.

Bounds never cut a behaviour off: they saturate counters and the trace only. No program of
termination, whose figures are checked, reaches `MaxCount` before it ends; in isa_refinement
a program that loops for ever may, and nothing there reads a counter. A trace of
`MaxLines = 8` lines covers the whole run of a program without loops and two turns of one with.

Every property of a passing run has a mutant (an operator next to the definition it replaces,
marked "a mutant of"): a plausible slip in the code that makes TLC report that property.

### Validation against the program

The final `ic`, `clocks`, `bypasses_wb_ex`, `bypasses_mem_ex`, `stops` and `branches` of all 496
loop-free programs of the termination run were compared with those the compiled simulator prints for the
same programs, assembled into ELF files: all equal. The program of `load_livelock` hangs the
compiled simulator too.

## 4. Where the code departs from what it says

* **load_use** (HazardUnit.cpp:24-31). When decode meets an instruction that needs a load which
  has just executed, the code sets `em_st.store->hazard_stall`. That buffer holds the *load*: the
  load is squashed and never reads memory, and the dependent instruction executes twice with the
  old value. `tests/dump/loop_objdump.txt:110-111` is such a pair; the trace
  `tests/dump/loop.txt:314-316` shows the add twice.
* **squashed_write** (PerfSim.cpp:94-95). A squashed instruction releases its lock through
  `HazardUnit::write`, which also writes the value of `rd` copied at decode. If an older
  instruction in flight writes the same register, its value is lost:
  `addi sp,sp,16; ret; addi sp,sp,-16` in `tests/dump/loop_objdump.txt:190-194`.
* **load_livelock**. `lw r,..; lw r,0(r)`: both rules together make two loads squash each other
  for ever.

* **load_byte** (PerfSim.cpp:190-207). `signExtend` uses the size of the access, in bytes, as a
  number of bits: `lb` and `lbu` keep one bit, `lh` and `lhu` two. The `lbu` of
  `tests/dump/hello_world_objdump.txt:278` reads the `H` of `"Hello, World!"`; the trace
  `tests/dump/hello_world.txt:402` has 0, and `strlen` returns at once.
* **bound_wrap** (Memory.cpp:10, 17). `addr + bytes > size` wraps for a sign-extended address just
  below 0; the access is not reported as `addr is out of memory`.
* **and_immediate** (Executors.cpp:76, 94). `ANDI` computes exclusive or and `XORI` computes and.
  `tests/dump/hello_world_objdump.txt:255` has `andi a5,a0,3` on 78280; the trace
  `tests/dump/hello_world.txt:396` has 78283, where the conjunction is 0.

In the source and in the models, without a run of their own:

* `lw r,..; sw r,..` throws "load hazart" (Decoder.cpp:69-74, the action `decodeThrow`).
* A word of type R that the decoder has no executor for (a multiplication, say) writes back the
  `rd` it copied at decode. With a writer of that register one or two words ahead the copy is
  stale; `SafeProgram` leaves these programs out (`KeepsStale`), and either distance alone would
  make isa_refinement fail.
* A word of opcode BRANCH that the decoder has no executor for jumps if the branch did that used
  its object before: `execute` asks for `br_is_taken` (PerfSim.cpp:103), and nothing has set it
  since (Instruction.h:131). The target is address 0, to which decode resets `branch_addr`
  (Decoder.cpp:117). `SafeProgram` leaves these words out too (`UndefinedJump`).
* `ElfManager` accepts a 64-bit object and starts it at address 0; it copies headers of every
  type. `ConsistentAssumption` says which files are free of both.

## 5. Proofs

### The pipeline

`PerfSimProofs` proves, for every `Modulus`, number of registers, memory size, pool size of at
least three, executor, set of programs and initial image:

* `Invariance`: `Spec => []IInv`
* `TypeCorrect`, `LocksBalanced`, `OperandsFound`, `SlotsFree`, `NoEmptyProcessed`,
  `SystemDrains`, `StopsTogether`: `Spec => []P` for the seven invariants of pipeline_control.

The assumptions are those the modules name on their constants: `LoaderAssumption` (what the loader
leaves is of its type) and the ranges of the constants, among them that decoded words are well
formed and that `Alu` and `BranchTaken` return words and truth values. TLC evaluates them in each run.

None of the seven is inductive. `IInv` adds, part by part:

* `PointersInv`: a live buffer points to an object (what a decode that stopped left does not
  count, hence `Handover`).
* `FetchedInv`: the fetched word is an instruction of the program. Needed for types: decode
  indexes the pools by its type.
* `StopsInv`: `StopsAgree`, and that only a squashed system instruction stops `de_st`. Needed
  because a stop must not keep an instruction that holds a lock in its latch.
* `RingInv`: how many decodes ago the object of each live buffer was handed out, phase by phase:
  at most one for execute, at most two for memory. The next object then differs from all of them
  as soon as there are three.
* `LinksInv`: within a clock, what a stage stored is what it loaded. It ties `store` to `load`
  between the stages, which `OperandsResolved` and the squash of `hu_branch` need.
* `DrainInv`: how long the stop of `hu_exit` still lasts for each place a system instruction can
  be in.
* `LockBalance` itself: its step needs all of the above, because an action that changes an
  object must not change the `rd` of another instruction that holds a lock.

`PerfSimProofs` starts with the types, then states what each action does to the
buffers (`Steps`, `ExecutedEffect`, `RingAdvance`, `OpKept` ...), proves one lemma per part
of `IInv`, one step per action, and combines them in `IInvStep`.

### The pipeline as a machine that executes one instruction at a time

`PerfSimISAProofs` proves, for every program, machine size, pool of at least three objects and
executor, with the store pipeline and without:

* `FlowInvariant`: `Spec /\ SafeProgram(prog) => []FlowInv`
* `ISARefinement`: `Spec /\ SafeProgram(prog) /\ []NoAccessWraps => ImplementsISA`

`SafeProgram` looks at the program text only: no load whose result the next word uses, no jump
between two writers of a register, no word without an executor that would keep a stale rd or jump.
Each is necessary: the run load_use refutes the refinement without the first, squashed_write
without the second; TLC also refutes it for `addi r1; addi r1; mul r1`, for either distance of the
last from the others, and for an undefined branch behind as many taken ones as there are objects.
Loops, indirect jumps into the middle of other code, drains and stores that abort are all
in. `NoAccessWraps` excludes the addresses just below 0, for which `Memory` reads outside its vector.
Two more assumptions on the constants are used, both what the code does:
`OperandsAssumption`, that an executor does not look at operands its type has not got, and
`RecognizedAssumption`, the combinations of fields `recognize` gives.

`FlowInv` is the invariant from which every step can be read off as a step of `ISA`:

* `NoLoadStall`: no load ever stalls a safe program, so the only stops are those of `hu_exit`, and
  they hold the three front latches alike.
* `JumpInv`: exactly when a jump has executed in this clock, the fetch latch is redirected and the two
  slots behind it are squashed.
* `StagesInv`: what each stage that has run in this clock has put behind it. The stages run from
  last to first, so half of the latches describe the last clock and half this one.
* `ChainInv`: the instructions in flight follow each other in the program, but for the slots behind a
  jump and behind a system instruction. This is what makes the mapped pc advance as the ISA's does.
* `ValuesInv`: four parts, one per place an instruction can be in. An executed instruction has the
  operands the mapped registers hold (`ExecutedInv`); a decoded one those they will hold once the
  instruction in front has taken effect (`DecodedInv`), which is what the two bypasses are for; a
  squashed one will put back a value that is still in the register (`SquashedInv`), which needs
  `~RewritesInShadow`; and the one the memory stage is done with is of the program (`RetiringInv`).
* `HaltInv`: nothing is processed behind the ECALL that ends the run.

It is inductive together with `IInv` and `UsageInv`. The proof has one lemma per
call of the clock (`FlowWriteBack`, `FlowPass`, `FlowRun`, `FlowDecode` ...) and under it one step
per part; `RightOperand` is the heart of the step of `decode`: the operand that
`HazardUnit::decode` finds is the value of the register in the ISA after the two instructions in front.

### What the simulator writes

`PerfSimTraceProofs` proves, under the same assumptions:

* `TraceRefinement`: `TracedSpec /\ SafeProgram(prog) /\ []NoAccessWraps => TracesISA`. The file
  on disk is the abstract trace, unchanged. The line of an instruction is owed from the clock in which
  it takes effect to the next one, in which `writeBack` prints it (`Owed`), so that the concrete line,
  read from the pooled object after the rest of the stages have run, must equal the one owed then.
  The theorem is about retired instructions: after an exception, the line of the one that had reached
  the memory stage in that clock is not on disk. `TraceInv` says that the buffer of the stream is
  empty between two calls, so that no line waits there; `HaltedInv` that nothing is left in front of
  `writeBack` when the clock loop ends, so that no line is owed when `main` closes the file.
* `CyclesAccounted`: `TracedSpec => [](clocks < MaxCount => CycleAccounting)`, for every program; the
  property itself is about the `Accountable` ones. The condition on `clocks` is about the model
  alone: from `MaxCount` on its counters stand still, and `MaxCount` is any number. The other
  counters are not assumed to be small; `CountInv` bounds them.

`AccountInv` follows the slots of the pipeline. `CountInv` is the equation at each call: `clocks`
equals `ic + 4 + 2 * branches + stops` less one for each bubble that is still on its way to
`writeBack`, so that each slot that reaches it is an instruction that counts or a bubble that was
counted when it arose. The rest makes it inductive: `SquashInv` (a jump makes
exactly two bubbles, and never in a clock with a stop), `FrontInv` and `BackInv` (where a
stall makes its one bubble), `OrderInv` and `OpsInv` (the word behind a load in the program is
the one behind it in the pipeline, so `~UsesLoadTwice` excludes two stops at one decode),
`EndInv` (the drain behind the ECALL and the end of the run). No part needs the program to be safe.

### The pipeline as a user of the memory stage

`PerfSimMemoryProofs` proves, under the same assumptions:

* `UsageInvariant`: `Spec => []UsageInv`, by induction with `IInv`. `FreshInv`: a clock starts with
  no store and nothing behind the memory stage. `HandedInv`: afterwards the latch there carries the
  instruction the stage has processed, or nothing, and is never squashed. `DistinctInv`: execute
  and memory never share an object. `RingInv` alone does not give the last one: it says
  that both objects are recent, not that they differ.
* `MemoryRefinement`: `Spec => UsesMemory`, assuming `MemSize < Modulus`, with the store pipeline
  and without. `WrittenBytes` and `ReadBytes` relate words to their bytes; one lemma per kind of
  step (`IssueRefines`, `StoreRefines`, `LoadRefines`, `ClockRefines` ...) names the step of
  `DataMemory` it is; `FrontRefines` has execute, decode and fetch leave the access alone, which
  is where `DistinctInv` and `SlotFree` are used. An exception of decode or fetch is a stutter,
  unless the store of the clock was going to fail in any case (`LateThrowRefines`). With
  `MemSize = Modulus` the last word of memory would be the one below address 0 as well.

### The memory stage

`DataMemoryProofs` proves, for every memory size, byte width, image and set of accesses, with the
store pipeline and without:

* `MemoryInvariance`: `Spec => []MemInv`. `MemInv` is `TypeOK` and `StoreInv`: the queue is empty
  in every state, and the store of the pipeline is the access of the stage between `push` and
  `update` and nothing otherwise. The second is what makes `update` the step of `ByteMemory` that
  carries out that access.
* `MemoryTypeCorrect`: `Spec => []TypeOK`.
* `MemoryRefines`: `Spec => ImplementsBytes`, assuming `NoAccessWraps`. The mapping takes the
  access as pending until it has been carried out: by the memory stage for a load or a direct
  store, by `update` for a store in the pipeline. `ReadOver` of a load leaves the bytes above its
  size undetermined; the lemma that `LoadedValue` does not depend on them is the heart of the step
  for loads. Without `NoAccessWraps` the theorem is false, as the run bound_wrap shows.
* `InMemory`: `Spec => []AccessesInMemory`, assuming `NoAccessWraps`; `WordLoadsExtend`:
  `Spec => []LoadsExtend`, assuming that all loads are of four bytes. The runs bound_wrap and
  load_byte refute the two properties; the theorems say that nothing but the wrap, and nothing but
  a load of less than a word, can break them. `Checked` is the invariant of the first: what has been
  carried out has passed the bound check, of `memoryAccess` or of `update`.

### Decoding

`EncodingProofs` proves:

* `ImmediateRoundTrip`: for each of the five formats, `calc_imm` of the word an immediate is
  scattered over is that immediate, for every immediate the format can carry and all other bits.
* `AlwaysWellFormed`: `Spec => []RecognizedWellFormed`, for every word.
* `AlwaysDecodesAssembled`: `Spec => []DecodesAssembled`, for each of the 38 instructions in the
  table of `Assembler`, all registers and all immediates. It assumes of `Sources` what the table says
  (`SourcesAssumption`). `EncodedBits` says which bits of the word each field of the instruction
  becomes, `FieldsBack` that the decoder's masks get the fields back, `RecognizesRow` that the nested
  switches of `recognize` then find the row (for which opcodes must differ, `OpcodesDiffer`),
  `ImmediateBack` that the immediate survives next to the other fields. ANDI and XORI are in the
  table as well: they are decoded rightly and executed wrongly.

### Execution

`ExecutorsProofs` and, for an object from its source to its register, `EncodingProofs` prove for
every `WordBits` from 1 on, the 32 of the program included:

* `ExecutorsCompute`: the executor of every arithmetic instruction but ANDI and XORI leaves in `rd`
  what `Computes`, bit by bit, asks for, on all operands. `ImmediatesSwapped`: those two leave what
  the other one should.
* `BranchesTaken`: `Taken` is `Condition`, for the six branches and all operands.
* `ExecutorsTyped`: what `PerfSim` assumes of `Alu` and `BranchTaken` (`ExecutorsAssumption`).
* `ObjectDecoded`: `ObjectSpec => Spec`, so the theorems about decoding hold of objects.
* `AlwaysComputes`: `ObjectSpec => []ComputesRV32I` for sources without ANDI and XORI;
  `AlwaysSwapped` for the two; `AlwaysBranches`: `ObjectSpec => []BranchesRV32I`. The invariant is
  `Object`: operands are words and are those the source means (which takes `RecognizesRow` and
  `ImmediateBack`), the executor is the source's (`ExecutorNamed`), and what is left is its result.

The executors are arithmetic, the reference is about bits, so the argument is about quotients by
powers of two. It needs induction, which the library offers only through operators as parameters;
`LeastNumber` (a set of numbers that is not empty has a least one, from the well-foundedness of
`<`) stands in for it, applied to the set of counterexamples. In this way: `PowerDef`, that the
recursive `Power` is a function (its beginnings exist and agree); `PowerSum`; `BitsDetermine`, that
different words differ in a bit, which BEQ and BNE need; `BitsExist`, that every set of places is
the set of bits of a word, without which `Composed` would mean nothing. Shifts are
`BitOfQuotient`, `BitOfProduct` and `BitOfRemainder` (what is shifted in or wrapped off does not touch
the other bits); `BitAbove` and `SignedBits` say that the cast to a signed number repeats the sign bit
above the word, which is what makes SRA right and what `ComparesSigned` compares. `Quotient`,
`Remainder` and `ProductGrows` are the arithmetic the provers have to be led through.

### The loader

`LoaderProofs` proves, for every memory size, first size of `buf` and set of files that are
consistent, with any number of headers:

* `LoaderInvariant`: `LoaderSpec => []LoaderInv`. Its heart is `LoadedInv`: memory holds the bytes
  of each header copied so far, zeros where there is none, and each of those headers was in order.
  `TypeInv` and `ProgressInv` say what the other calls have left.
* `LoaderRefinement`: `LoaderSpec => StartsProgram`. The lemma `FilledBuf` says that what `buf` held
  before does not matter, `SetUpMemory` that after the last header memory is that of the program.

Files are consistent (`ConsistentAssumption`) when they have 32 bits, their segments agree where
they overlap, and a header that is not LOAD covers nothing but parts of segments. Without the last
two, memory depends on the order of the headers.

### Only model-checked

* `Terminates`: liveness under fairness is out of the prover's reach.
* The properties of the runs that expect a violation are false of the code as it is. What the
  theorems say of them (`ISARefinement`, `InMemory`, `WordLoadsExtend`, `AlwaysComputes`) holds under
  the hypotheses that leave the defect out.
* `CyclesAccounted` is about states in which the model's counters have not saturated.

## 6. Not modelled

The tables of `getInstrName` and `getRegName`, `intToHex` and the layout of a line (wording of the
output); the modes INFO, WARN and ERR of `Logger` (used by nobody); what libelf reads from a file;
elapsed time; `tryConcatenate` and forwarding in `searchData` (no reachable state calls them
with a store queued, which is proved; of the identifier they read from the empty queue nothing is
used); the error of `RegFile::write` for a register number out of range (five decoded bits cannot
be); the leaked object for words of type NONE.

## 7. Plan

1. Pipeline control: runs and proofs of the seven invariants, refinement of `ISA`, termination.
   *Done.*
2. Memory stage on bytes: refinement checked and proved. *Done.*
3. Decoding: checked; immediates and well-formedness proved. *Done.*
4. Executors: checked, and proved for words of every width. *Done.*
5. Proof of `ImplementsISA` for safe programs, and of `TracesISA` from it. *Done.*
6. Proof of all of `DecodesAssembled`. *Done.*
7. Composition: the pipeline as a user of `DataMemory` (checked and proved); decoding with the
   executors it finds (checked and proved) and output added to the pipeline (checked and proved).
   *Done.*
8. Start-up and loader: refinement checked and proved. *Done.*
9. `CycleAccounting` as an inductive invariant, call by call of the clock. *Done.*
