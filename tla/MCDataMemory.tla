---------------------------- MODULE MCDataMemory ----------------------------
(***************************************************************************)
(* A memory of five bytes of two bits each, and every access to it, at     *)
(* every alignment, up to and beyond both ends.                            *)
(***************************************************************************)
EXTENDS DataMemorySafety

MCImage == [a \in Location |-> (a + 1) % ByteValues]

\* rs2 of a store: four different bytes.
MCData == [k \in Quarter |-> 3 - k]

AccessesAt(addrs, names) ==
  {[name |-> n, addr |-> a, data |-> MCData] : n \in names, a \in addrs}

\* Addresses the bound check treats as it should: those of memory, the first
\* ones behind it, and a negative one whose end is negative too.
SoundAccesses ==
  AccessesAt({-5} \cup 0 .. MemBytes + 1, AccessName \ {"NONE"}) \cup {NoAccess}

LoadByteAccesses == AccessesAt(Location, {"LBU", "SB"})
WrapAccesses == AccessesAt(-5 .. MemBytes, {"LW", "SW"})
=============================================================================
