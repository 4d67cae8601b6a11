---------------------------- MODULE ProgramFile ----------------------------
(***************************************************************************)
(* The ELF files the simulator starts from, as gelf describes them.        *)
(***************************************************************************)
EXTENDS Integers, Sequences

CONSTANTS
  MemBytes,     \* Config::memory_size
  Files         \* what may lie at the path of the program

ASSUME MemBytesAssumption == MemBytes \in Nat /\ 5 <= MemBytes

Byte     == 0 .. 255
Location == 0 .. MemBytes - 1

\* A program header, of type LOAD or another; and a file: an ELF object or not,
\* of 32 or 64 bits, its entry point, its headers, and its bytes from offset 0.
ProgramHeader ==
  [type : {"LOAD", "OTHER"}, offset : Nat, vaddr : Nat, filesz : Nat]
File ==
  [is_elf : BOOLEAN, class : {32, 64}, entry : Nat, phdrs : Seq(ProgramHeader),
   bytes : Seq(Byte)]

ASSUME FilesAssumption == Files \subseteq File

Headers(f) == {f.phdrs[k] : k \in 1 .. Len(f.phdrs)}
Covers(h, a) == a - h.vaddr \in 0 .. h.filesz - 1
ByteAt(f, h, a) == f.bytes[h.offset + (a - h.vaddr) + 1]

\* All bytes of the header's segment are in the file and in memory.
Present(f, h) == h.offset + h.filesz <= Len(f.bytes)
Fits(h) == h.vaddr + h.filesz <= MemBytes

\* The top of memory: sp, and the four bytes of argc at sp.
StackTop == MemBytes - 5
IsArgc(a) == a - StackTop \in 0 .. 3
=============================================================================
