---------------------------- MODULE MemoryAccess ----------------------------
(***************************************************************************)
(* Loads and stores as the memory stage sees them: a name, an address, and *)
(* for a store the value of rs2.  A 32-bit value is its four bytes, the    *)
(* least significant one first, as the program copies it to and from       *)
(* memory; a byte is a residue modulo ByteValues (256 in the program).     *)
(***************************************************************************)
EXTENDS Integers

CONSTANTS
  ByteValues,     \* number of values of a byte
  MemBytes,       \* Config::memory_size
  Accesses,       \* the accesses a program may make
  Image           \* memory as the loader leaves it

Byte     == 0 .. ByteValues - 1
Location == 0 .. MemBytes - 1
Quarter  == 0 .. 3
Value    == [Quarter -> Byte]
Zero     == [k \in Quarter |-> 0]

\* Decoder::recognize: the names of loads and stores and their acc_size.  Other
\* instructions go through the memory stage without an access.
AccessName == {"LB", "LH", "LW", "LBU", "LHU", "SB", "SH", "SW", "NONE"}
IsRead(a)  == a.name \in {"LB", "LH", "LW", "LBU", "LHU"}
IsWrite(a) == a.name \in {"SB", "SH", "SW"}
Size(a) ==
  CASE a.name \in {"LB", "LBU", "SB"} -> 1
    [] a.name \in {"LH", "LHU", "SH"} -> 2
    [] a.name \in {"LW", "SW"} -> 4
    [] OTHER -> 0

\* An address is the sum of rs1 and the immediate as a signed 32-bit number.
Access == [name : AccessName, addr : Int, data : Value]
NoAccess == [name |-> "NONE", addr |-> 0, data |-> Zero]

ASSUME MemoryAssumption ==
  /\ ByteValues \in Nat /\ 4 <= ByteValues
  /\ MemBytes \in Nat
  /\ Accesses \subseteq Access
  /\ Image \in [Location -> Byte]
=============================================================================
