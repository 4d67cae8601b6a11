--------------------------- MODULE EncodingProofs ---------------------------
(***************************************************************************)
(* Decoding for every word: immediates come back whole from where their    *)
(* format scatters them, and what recognize finds is well formed.          *)
(***************************************************************************)
EXTENDS InstructionSet, ExecutorsProofs

\* One lemma per format: calc_imm finds the immediate that the format scatters
\* over the word, whatever the other bits of the word are.
LEMMA RoundTripI ==
  ASSUME NEW imm \in BitWord, Carries("I", imm),
         NEW other \in SUBSET (0 .. 19)
  PROVE  ImmI(Scattered("I", imm) \cup other) = imm
<1> DEFINE w == Scattered("I", imm) \cup other
<1>1. /\ \A p \in 20 .. 31 : p \in w <=> p - 20 \in imm
  BY DEF Scattered, Moved, BitWord, Bit
<1>2. w \subseteq 0 .. 31 BY DEF Scattered, Moved, BitWord, Bit
<1> HIDE DEF w
<1>3. \A p \in Bit : p \in ImmI(w) <=> p \in imm
  BY <1>1, <1>2 DEF ImmI, Sign, Moved, Bit, BitWord, Carries, SignedFrom
<1>4. ImmI(w) \subseteq Bit BY <1>2 DEF ImmI, Sign, Moved, Bit
<1> QED BY <1>3, <1>4 DEF BitWord, w

LEMMA RoundTripS ==
  ASSUME NEW imm \in BitWord, Carries("S", imm),
         NEW other \in SUBSET ((0 .. 6) \cup (12 .. 24))
  PROVE  ImmS(Scattered("S", imm) \cup other) = imm
<1> DEFINE w == Scattered("S", imm) \cup other
<1>1. /\ \A p \in 5 .. 10 : p + 20 \in w <=> p \in imm
      /\ \A p \in 1 .. 4 : p + 7 \in w <=> p \in imm
      /\ 7 \in w <=> 0 \in imm
      /\ 31 \in w <=> 11 \in imm
  BY DEF Scattered, Moved, BitWord, Bit
<1>2. w \subseteq 0 .. 31 BY DEF Scattered, Moved, BitWord, Bit
<1> HIDE DEF w
<1>3. \A p \in Bit : p \in ImmS(w) <=> p \in imm
  <2>1. \A p \in Bit : p \in ImmS(w) <=>
        \/ 31 \in w /\ 11 <= p
        \/ p \in 5 .. 10 /\ p + 20 \in w
        \/ p \in 1 .. 4 /\ p + 7 \in w
        \/ p = 0 /\ 7 \in w
    BY <1>2 DEF ImmS, Sign, Moved, Bit
  <2>2. \A p \in 11 .. 31 : p \in imm <=> 11 \in imm
    BY DEF Bit, BitWord, Carries, SignedFrom
  <2> QED BY <1>1, <2>1, <2>2 DEF Bit
<1>4. ImmS(w) \subseteq Bit BY <1>2 DEF ImmS, Sign, Moved, Bit
<1> QED BY <1>3, <1>4 DEF BitWord, w

LEMMA RoundTripB ==
  ASSUME NEW imm \in BitWord, Carries("B", imm),
         NEW other \in SUBSET ((0 .. 6) \cup (12 .. 24))
  PROVE  ImmB(Scattered("B", imm) \cup other) = imm
<1> DEFINE w == Scattered("B", imm) \cup other
<1>1. /\ \A p \in 5 .. 10 : p + 20 \in w <=> p \in imm
      /\ \A p \in 1 .. 4 : p + 7 \in w <=> p \in imm
      /\ 7 \in w <=> 11 \in imm
      /\ 31 \in w <=> 12 \in imm
  BY DEF Scattered, Moved, BitWord, Bit
<1>2. w \subseteq 0 .. 31 BY DEF Scattered, Moved, BitWord, Bit
<1> HIDE DEF w
<1>3. \A p \in Bit : p \in ImmB(w) <=> p \in imm
  <2>1. \A p \in Bit : p \in ImmB(w) <=>
        \/ 31 \in w /\ 12 <= p
        \/ p \in 5 .. 10 /\ p + 20 \in w
        \/ p \in 1 .. 4 /\ p + 7 \in w
        \/ p = 11 /\ 7 \in w
    BY <1>2 DEF ImmB, Sign, Moved, Bit
  <2>2. \A p \in 12 .. 31 : p \in imm <=> 12 \in imm
    BY DEF Bit, BitWord, Carries, SignedFrom
  <2>3. 0 \notin imm BY DEF Carries
  <2> QED BY <1>1, <2>1, <2>2, <2>3 DEF Bit
<1>4. ImmB(w) \subseteq Bit BY <1>2 DEF ImmB, Sign, Moved, Bit
<1> QED BY <1>3, <1>4 DEF BitWord, w

LEMMA RoundTripU ==
  ASSUME NEW imm \in BitWord, Carries("U", imm),
         NEW other \in SUBSET (0 .. 11)
  PROVE  ImmU(Scattered("U", imm) \cup other) = imm
<1> DEFINE w == Scattered("U", imm) \cup other
<1>1. /\ \A p \in 12 .. 31 : p \in w <=> p \in imm
  BY DEF Scattered, Moved, BitWord, Bit
<1>2. w \subseteq 0 .. 31 BY DEF Scattered, Moved, BitWord, Bit
<1> HIDE DEF w
<1>3. \A p \in Bit : p \in ImmU(w) <=> p \in imm
  BY <1>1, <1>2 DEF ImmU, Sign, Moved, Bit, BitWord, Carries, SignedFrom
<1>4. ImmU(w) \subseteq Bit BY <1>2 DEF ImmU, Sign, Moved, Bit
<1> QED BY <1>3, <1>4 DEF BitWord, w

LEMMA RoundTripJ ==
  ASSUME NEW imm \in BitWord, Carries("J", imm),
         NEW other \in SUBSET (0 .. 11)
  PROVE  ImmJ(Scattered("J", imm) \cup other) = imm
<1> DEFINE w == Scattered("J", imm) \cup other
<1>1. /\ \A p \in 12 .. 19 : p \in w <=> p \in imm
      /\ \A p \in 1 .. 10 : p + 20 \in w <=> p \in imm
      /\ 20 \in w <=> 11 \in imm
      /\ 31 \in w <=> 20 \in imm
  BY DEF Scattered, Moved, BitWord, Bit
<1>2. w \subseteq 0 .. 31 BY DEF Scattered, Moved, BitWord, Bit
<1> HIDE DEF w
<1>3. \A p \in Bit : p \in ImmJ(w) <=> p \in imm
  <2>1. \A p \in Bit : p \in ImmJ(w) <=>
        \/ 31 \in w /\ 20 <= p
        \/ p \in 12 .. 19 /\ p \in w
        \/ p = 11 /\ 20 \in w
        \/ p \in 5 .. 10 /\ p + 20 \in w
        \/ p \in 1 .. 4 /\ p + 20 \in w
    BY <1>2 DEF ImmJ, Sign, Moved, Bit
  <2>2. \A p \in 20 .. 31 : p \in imm <=> 20 \in imm
    BY DEF Bit, BitWord, Carries, SignedFrom
  <2>3. 0 \notin imm BY DEF Carries
  <2> QED BY <1>1, <2>1, <2>2, <2>3 DEF Bit
<1>4. ImmJ(w) \subseteq Bit BY <1>2 DEF ImmJ, Sign, Moved, Bit
<1> QED BY <1>3, <1>4 DEF BitWord, w

\* The bits of a word that its format leaves to other fields.
OtherBits(format) ==
  IF format = "I" THEN 0 .. 19
  ELSE IF format \in {"S", "B"} THEN (0 .. 6) \cup (12 .. 24)
  ELSE 0 .. 11

\* calc_imm inverts the scattering of immediates, for every format, every
\* immediate it can carry and every setting of the other fields.
THEOREM ImmediateRoundTrip ==
  ASSUME NEW format \in {"I", "S", "B", "U", "J"},
         NEW imm \in BitWord, Carries(format, imm),
         NEW other \in SUBSET OtherBits(format)
  PROVE  calc_imm(Scattered(format, imm) \cup other, format) = imm
<1>1. CASE format = "I"
  BY <1>1, RoundTripI DEF calc_imm, OtherBits
<1>2. CASE format = "S"
  BY <1>2, RoundTripS DEF calc_imm, OtherBits
<1>3. CASE format = "B"
  BY <1>3, RoundTripB DEF calc_imm, OtherBits
<1>4. CASE format = "U"
  BY <1>4, RoundTripU DEF calc_imm, OtherBits
<1>5. CASE format = "J"
  BY <1>5, RoundTripJ DEF calc_imm, OtherBits
<1> QED BY <1>1, <1>2, <1>3, <1>4, <1>5

-----------------------------------------------------------------------------
LEMMA Funct3Range == \A w : Funct3(w) \in 0 .. 7
BY DEF Funct3

\* What recognize finds in any word is well formed.
LEMMA RecognizeWellFormed ==
  ASSUME NEW w
  PROVE  WellFormed(recognize(w))
<1> DEFINE op == Opcode(w)
           f3 == Funct3(w)
           f7 == Funct7(w)
           info == recognize(w)
<1>1. f3 \in 0 .. 7 BY Funct3Range
<1>2. /\ BranchName(f3) \notin {"JALR", "ECALL"}
      /\ StoreName(f3) = "NONE" \/ AccSize(f3) # 0
      /\ LoadName(f3) = "NONE" <=> AccSize(f3) = 0
      /\ LoadName(f3) \notin {"JALR", "ECALL"}
      /\ ImmediateName(f3, f7) \notin {"JALR", "ECALL", "Load"}
      /\ RegisterName(f3, f7) \notin {"JALR", "ECALL", "Load"}
      /\ BranchName(f3) # "Load" /\ StoreName(f3) \notin {"JALR", "ECALL"}
  BY <1>1 DEF BranchName, StoreName, LoadName, AccSize, ImmediateName,
              RegisterName
<1>3. CASE op \in {LUI, AUIPC, JAL, JALR}
  BY <1>3 DEF recognize, WellFormed, Info
<1>4. CASE op = BRANCH /\ op \notin {LUI, AUIPC, JAL, JALR}
  BY <1>2, <1>4 DEF recognize, WellFormed, Info
<1>5. CASE op = LOAD /\ op \notin {LUI, AUIPC, JAL, JALR, BRANCH}
  BY <1>2, <1>5 DEF recognize, WellFormed, Info
<1>6. CASE op = STORE /\ op \notin {LUI, AUIPC, JAL, JALR, BRANCH, LOAD}
  BY <1>2, <1>6 DEF recognize, WellFormed, Info
<1>7. CASE op = OPIMM /\ op \notin {LUI, AUIPC, JAL, JALR, BRANCH, LOAD, STORE}
  BY <1>2, <1>7 DEF recognize, WellFormed, Info
<1>8. CASE op = OP /\ op \notin {LUI, AUIPC, JAL, JALR, BRANCH, LOAD, STORE, OPIMM}
  BY <1>2, <1>8 DEF recognize, WellFormed, Info
<1>9. CASE op = SYSTEM /\ op \notin {LUI, AUIPC, JAL, JALR, BRANCH, LOAD, STORE, OPIMM, OP}
  BY <1>2, <1>9 DEF recognize, WellFormed, Info
<1>10. CASE op \notin {LUI, AUIPC, JAL, JALR, BRANCH, LOAD, STORE, OPIMM, OP, SYSTEM}
  BY <1>10 DEF recognize, WellFormed, Info
<1> QED BY <1>3, <1>4, <1>5, <1>6, <1>7, <1>8, <1>9, <1>10

\* Whatever word is fetched, instruction or not, decode finds something the
\* pipeline can process.
THEOREM AlwaysWellFormed == Spec => []RecognizedWellFormed
<1> DEFINE Inv == decoded = Undecoded \/ WellFormed(decoded.info)
<1>1. Init => Inv BY DEF Init
<1>2. Inv /\ [Next]_vars => Inv'
  <2>1. ASSUME decode PROVE WellFormed(decoded'.info)
    BY <2>1, RecognizeWellFormed DEF decode
  <2> QED BY <2>1 DEF Next, vars, WellFormed
<1>3. Inv => RecognizedWellFormed BY DEF RecognizedWellFormed
<1> QED BY <1>1, <1>2, <1>3, PTL DEF Spec

-----------------------------------------------------------------------------
(* The other fields come back as well.                                       *)

\* What the table says of the fields of an instruction, without its name.
Fields(s) ==
  /\ s.format \in {"R", "I", "S", "B", "U", "J", "SYSTEM"}
  /\ s.opcode \subseteq 0 .. 6 /\ s.funct3 \in 0 .. 7
  /\ s.rd \subseteq 0 .. 4 /\ s.rs1 \subseteq 0 .. 4 /\ s.rs2 \subseteq 0 .. 4
  /\ s.imm \in BitWord /\ Carries(s.format, s.imm)
  /\ s.funct7 \in {{}, {5}}
  /\ s.funct7 # {} => s.format = "R" \/ (s.format = "I" /\ IsShift(s))
  /\ IsShift(s) => s.format = "I" /\ s.imm \subseteq 0 .. 4
  /\ s.format = "SYSTEM" => s.funct3 = 0

LEMMA OpcodeBits ==
  \A opcode \in {LUI, AUIPC, JAL, JALR, BRANCH, LOAD, STORE, OPIMM, OP, SYSTEM} :
    opcode \subseteq 0 .. 6
BY DEF LUI, AUIPC, JAL, JALR, BRANCH, LOAD, STORE, OPIMM, OP, SYSTEM

LEMMA RowFields ==
  ASSUME NEW s, IsInstruction(s)
  PROVE  Fields(s)
<1> DEFINE r == Row(s.name, s.format, s.opcode, s.funct3, s.funct7)
<1>0. r \in Rows
  BY DEF IsInstruction
<1>1. /\ s.name = r.name /\ s.format = r.format /\ s.opcode = r.opcode
      /\ s.funct3 = r.funct3 /\ s.funct7 = r.funct7
  BY DEF Row
<1> HIDE DEF r
<1>2. /\ r.format \in {"R", "I", "S", "B", "U", "J", "SYSTEM"}
      /\ r.opcode \in {LUI, AUIPC, JAL, JALR, BRANCH, LOAD, STORE, OPIMM, OP, SYSTEM}
      /\ r.funct3 \in 0 .. 7 /\ r.funct7 \in {{}, {5}}
      /\ r.funct7 # {} => r.format = "R" \/ r.name = "SRAI"
      /\ r.name \in {"SLLI", "SRLI", "SRAI"} => r.format = "I"
      /\ r.format = "SYSTEM" => r.funct3 = 0
  BY <1>0 DEF Rows, Row
<1>3. s.imm \in BitWord /\ (IsShift(s) => s.imm \subseteq 0 .. 4)
  BY DEF IsInstruction, RegBits, BitWord, Bit
<1> QED
  BY <1>1, <1>2, <1>3, OpcodeBits DEF Fields, IsInstruction, IsShift, RegBits

\* A field of k + 1 bits, read back from where it is in the word.
LEMMA FieldOf ==
  ASSUME NEW w, NEW lo \in Nat, NEW k \in Nat, NEW f, f \subseteq 0 .. k,
         \A p \in lo .. lo + k : p \in w <=> p - lo \in f
  PROVE  Field(w, lo, lo + k) = f
<1>1. ASSUME NEW x \in f PROVE x \in Field(w, lo, lo + k)
  <2>1. x + lo \in w \cap lo .. lo + k /\ x = (x + lo) - lo + 0
    OBVIOUS
  <2> QED
    BY <2>1 DEF Field, Moved
<1>2. ASSUME NEW x \in Field(w, lo, lo + k) PROVE x \in f
  <2>1. PICK p \in w \cap lo .. lo + k : x = p - lo + 0
    BY <1>2 DEF Field, Moved
  <2>2. x = p - lo
    BY <2>1
  <2> QED
    BY <2>1, <2>2
<1> QED
  BY <1>1, <1>2

\* The bits an immediate is scattered over.
LEMMA ScatteredBits ==
  ASSUME NEW s, Fields(s), NEW m, m = Scattered(s.format, s.imm)
  PROVE  m \subseteq (IF s.format \in {"S", "B"} THEN (7 .. 11) \cup (25 .. 31)
                      ELSE IF s.format \in {"U", "J"} THEN 12 .. 31
                      ELSE IF s.format = "I"
                        THEN IF IsShift(s) THEN 20 .. 24 ELSE 20 .. 31
                      ELSE {})
<1>1. CASE s.format = "I"
  BY <1>1 DEF Fields, Scattered, Moved, BitWord, Bit
<1>2. CASE s.format = "S"
  BY <1>2 DEF Fields, Scattered, Moved, BitWord, Bit
<1>3. CASE s.format = "B"
  BY <1>3 DEF Fields, Scattered, Moved, BitWord, Bit
<1>4. CASE s.format = "U"
  BY <1>4 DEF Fields, Scattered, Moved, BitWord, Bit
<1>5. CASE s.format = "J"
  BY <1>5 DEF Fields, Scattered, Moved, BitWord, Bit
<1>6. CASE s.format \in {"R", "SYSTEM"}
  BY <1>6 DEF Scattered
<1> QED
  BY <1>1, <1>2, <1>3, <1>4, <1>5, <1>6 DEF Fields

\* Where each field of the word is.
LEMMA EncodedBits ==
  ASSUME NEW s, Fields(s), NEW w, w = Encoded(s)
  PROVE  /\ w \subseteq 0 .. 31
         /\ \A p \in 0 .. 6 : p \in w <=> p \in s.opcode
         /\ HasRd(s.format) => \A p \in 7 .. 11 : p \in w <=> p - 7 \in s.rd
         /\ s.format \notin {"U", "J"} =>
              \A p \in 12 .. 14 : p \in w <=> p \in Funct3Bits(s.funct3)
         /\ HasRs1(s.format) => \A p \in 15 .. 19 : p \in w <=> p - 15 \in s.rs1
         /\ HasRs2(s.format) => \A p \in 20 .. 24 : p \in w <=> p - 20 \in s.rs2
         /\ s.format = "R" \/ IsShift(s) =>
              \A p \in 25 .. 31 : p \in w <=> p - 25 \in s.funct7
<1> DEFINE m  == Scattered(s.format, s.imm)
           d  == Moved(s.rd, 0, 4, 7)
           s1 == Moved(s.rs1, 0, 4, 15)
           s2 == Moved(s.rs2, 0, 4, 20)
           f3 == Funct3Bits(s.funct3)
           f7 == Moved(s.funct7, 0, 6, 25)
<1>0. /\ s.format \in {"R", "I", "S", "B", "U", "J", "SYSTEM"}
      /\ s.opcode \subseteq 0 .. 6
      /\ s.rd \subseteq 0 .. 4 /\ s.rs1 \subseteq 0 .. 4 /\ s.rs2 \subseteq 0 .. 4
      /\ s.funct7 \subseteq 0 .. 6 /\ (IsShift(s) => s.format = "I")
      /\ s.format \in {"S", "B", "U", "J"} => s.funct7 = {}
  BY DEF Fields
<1>1. /\ d \subseteq 7 .. 11 /\ \A p \in 7 .. 11 : p \in d <=> p - 7 \in s.rd
      /\ s1 \subseteq 15 .. 19 /\ \A p \in 15 .. 19 : p \in s1 <=> p - 15 \in s.rs1
      /\ s2 \subseteq 20 .. 24 /\ \A p \in 20 .. 24 : p \in s2 <=> p - 20 \in s.rs2
      /\ f7 \subseteq 25 .. 31 /\ \A p \in 25 .. 31 : p \in f7 <=> p - 25 \in s.funct7
      /\ s.funct7 = {} => f7 = {}
  <2>1. d \subseteq 7 .. 11 /\ \A p \in 7 .. 11 : p \in d <=> p - 7 \in s.rd
    BY <1>0 DEF Moved
  <2>2. s1 \subseteq 15 .. 19 /\ \A p \in 15 .. 19 : p \in s1 <=> p - 15 \in s.rs1
    BY <1>0 DEF Moved
  <2>3. s2 \subseteq 20 .. 24 /\ \A p \in 20 .. 24 : p \in s2 <=> p - 20 \in s.rs2
    BY <1>0 DEF Moved
  <2>4. /\ f7 \subseteq 25 .. 31 /\ \A p \in 25 .. 31 : p \in f7 <=> p - 25 \in s.funct7
        /\ s.funct7 = {} => f7 = {}
    BY <1>0 DEF Moved
  <2> QED
    BY <2>1, <2>2, <2>3, <2>4
<1>2. f3 \subseteq 12 .. 14
  BY DEF Funct3Bits
<1>3. /\ s.format \in {"S", "B"} => m \subseteq (7 .. 11) \cup (25 .. 31)
      /\ s.format \in {"U", "J"} => m \subseteq 12 .. 31
      /\ s.format = "I" => m \subseteq 20 .. 31
      /\ IsShift(s) => m \subseteq 20 .. 24
      /\ s.format \in {"R", "SYSTEM"} => m = {}
      /\ m \subseteq 7 .. 31
  BY <1>0, ScatteredBits
<1>4. \A p : p \in w <=>
         \/ p \in s.opcode \/ p \in m \/ p \in f7
         \/ HasRd(s.format) /\ p \in d
         \/ HasRs1(s.format) /\ p \in s1
         \/ HasRs2(s.format) /\ p \in s2
         \/ s.format \notin {"U", "J"} /\ p \in f3
  BY DEF Encoded
<1> HIDE DEF m, d, s1, s2, f3, f7
<1>5. w \subseteq 0 .. 31
  <2>1. /\ s.opcode \subseteq 0 .. 31 /\ m \subseteq 0 .. 31 /\ f3 \subseteq 0 .. 31
        /\ d \subseteq 0 .. 31 /\ s1 \subseteq 0 .. 31 /\ s2 \subseteq 0 .. 31
        /\ f7 \subseteq 0 .. 31
    <3>1. /\ 0 .. 6 \subseteq 0 .. 31 /\ 7 .. 31 \subseteq 0 .. 31
          /\ 12 .. 14 \subseteq 0 .. 31 /\ 7 .. 11 \subseteq 0 .. 31
          /\ 15 .. 19 \subseteq 0 .. 31 /\ 20 .. 24 \subseteq 0 .. 31
          /\ 25 .. 31 \subseteq 0 .. 31
      OBVIOUS
    <3> QED
      BY <1>0, <1>1, <1>2, <1>3, <3>1, Zenon
  <2> QED
    BY <1>4, <2>1, Zenon
<1>6. ASSUME NEW p \in 0 .. 6 PROVE p \in w <=> p \in s.opcode
  <2>1. p \notin m /\ p \notin f7 /\ p \notin d /\ p \notin s1 /\ p \notin s2 /\ p \notin f3
    BY <1>1, <1>2, <1>3
  <2> QED
    BY <1>4, <2>1
<1>7. ASSUME HasRd(s.format), NEW p \in 7 .. 11 PROVE p \in w <=> p - 7 \in s.rd
  <2>1. p \notin s.opcode /\ p \notin f7 /\ p \notin s1 /\ p \notin s2 /\ p \notin f3
    BY <1>0, <1>1, <1>2
  <2>2. p \notin m
    BY <1>3, <1>7 DEF HasRd
  <2> QED
    BY <1>1, <1>4, <1>7, <2>1, <2>2
<1>8. ASSUME s.format \notin {"U", "J"}, NEW p \in 12 .. 14
      PROVE  p \in w <=> p \in f3
  <2>1. p \notin s.opcode /\ p \notin f7 /\ p \notin d /\ p \notin s1 /\ p \notin s2
    BY <1>0, <1>1
  <2>2. p \notin m
    BY <1>0, <1>3, <1>8
  <2> QED
    BY <1>4, <1>8, <2>1, <2>2
<1>9. ASSUME HasRs1(s.format), NEW p \in 15 .. 19 PROVE p \in w <=> p - 15 \in s.rs1
  <2>1. p \notin s.opcode /\ p \notin f7 /\ p \notin d /\ p \notin s2 /\ p \notin f3
    BY <1>0, <1>1, <1>2
  <2>2. p \notin m
    BY <1>3, <1>9 DEF HasRs1
  <2> QED
    BY <1>1, <1>4, <1>9, <2>1, <2>2
<1>10. ASSUME HasRs2(s.format), NEW p \in 20 .. 24 PROVE p \in w <=> p - 20 \in s.rs2
  <2>1. p \notin s.opcode /\ p \notin f7 /\ p \notin d /\ p \notin s1 /\ p \notin f3
    BY <1>0, <1>1, <1>2
  <2>2. p \notin m
    BY <1>3, <1>10 DEF HasRs2
  <2> QED
    BY <1>1, <1>4, <1>10, <2>1, <2>2
<1>11. ASSUME s.format = "R" \/ IsShift(s), NEW p \in 25 .. 31
       PROVE  p \in w <=> p - 25 \in s.funct7
  <2>1. p \notin s.opcode /\ p \notin d /\ p \notin s1 /\ p \notin s2 /\ p \notin f3
    BY <1>0, <1>1, <1>2
  <2>2. p \notin m
    BY <1>3, <1>11
  <2> QED
    BY <1>1, <1>4, <2>1, <2>2
<1> QED
  BY <1>5, <1>6, <1>7, <1>8, <1>9, <1>10, <1>11 DEF f3

-----------------------------------------------------------------------------
(* The table of instructions.                                                *)

LEMMA OpcodesDiffer ==
  /\ LUI    \notin {AUIPC, JAL, JALR, BRANCH, LOAD, STORE, OPIMM, OP, SYSTEM}
  /\ AUIPC  \notin {JAL, JALR, BRANCH, LOAD, STORE, OPIMM, OP, SYSTEM}
  /\ JAL    \notin {JALR, BRANCH, LOAD, STORE, OPIMM, OP, SYSTEM}
  /\ JALR   \notin {BRANCH, LOAD, STORE, OPIMM, OP, SYSTEM}
  /\ BRANCH \notin {LOAD, STORE, OPIMM, OP, SYSTEM}
  /\ LOAD   \notin {STORE, OPIMM, OP, SYSTEM}
  /\ STORE  \notin {OPIMM, OP, SYSTEM}
  /\ OPIMM  \notin {OP, SYSTEM}
  /\ OP     # SYSTEM
<1>1. /\ 5 \notin AUIPC /\ 2 \in AUIPC /\ 4 \in AUIPC
      /\ 2 \in LUI /\ 4 \in LUI /\ 5 \in LUI
  BY DEF LUI, AUIPC
<1>2. /\ 3 \in JAL /\ 2 \in JALR /\ 3 \notin JALR /\ 4 \notin JAL /\ 4 \notin JALR
      /\ 3 \notin AUIPC /\ 3 \notin LUI
  BY DEF LUI, AUIPC, JAL, JALR
<1>3. /\ 6 \in BRANCH /\ 2 \notin BRANCH /\ 4 \notin BRANCH /\ 3 \notin BRANCH
      /\ 2 \notin LOAD /\ 5 \notin LOAD /\ 3 \notin LOAD /\ 6 \notin LOAD /\ 4 \notin LOAD
      /\ 2 \notin STORE /\ 5 \in STORE /\ 3 \notin STORE /\ 6 \notin STORE
      /\ 4 \notin STORE
  BY DEF BRANCH, LOAD, STORE
<1>4. /\ 2 \notin OPIMM /\ 4 \in OPIMM /\ 5 \notin OPIMM /\ 3 \notin OPIMM /\ 6 \notin OPIMM
      /\ 2 \notin OP /\ 4 \in OP /\ 5 \in OP /\ 3 \notin OP /\ 6 \notin OP
      /\ 2 \notin SYSTEM /\ 4 \in SYSTEM /\ 5 \in SYSTEM /\ 3 \notin SYSTEM
      /\ 6 \in SYSTEM
  BY DEF OPIMM, OP, SYSTEM
<1> QED
  BY <1>1, <1>2, <1>3, <1>4

\* The table, opcode by opcode, in the words of recognize.
LEMMA RowsByOpcode ==
  ASSUME NEW r \in Rows
  PROVE  \/ r.opcode = LUI /\ r.name = "LUI" /\ r.format = "U"
         \/ r.opcode = AUIPC /\ r.name = "AUIPC" /\ r.format = "U"
         \/ r.opcode = JAL /\ r.name = "JAL" /\ r.format = "J"
         \/ r.opcode = JALR /\ r.name = "JALR" /\ r.format = "I"
         \/ r.opcode = BRANCH /\ r.name = BranchName(r.funct3) /\ r.format = "B"
         \/ r.opcode = LOAD /\ r.name = LoadName(r.funct3) /\ r.format = "I"
         \/ /\ r.opcode = STORE /\ r.name = StoreName(r.funct3) /\ r.format = "S"
            /\ r.name # "NONE"
         \/ /\ r.opcode = OPIMM /\ r.format = "I" /\ r.name # "NONE"
            /\ r.name = ImmediateName(r.funct3, r.funct7)
            /\ r.funct3 = 5 => r.name \in {"SRLI", "SRAI"}
         \/ /\ r.opcode = OP /\ r.format = "R"
            /\ r.name = RegisterName(r.funct3, r.funct7)
         \/ r.opcode = SYSTEM /\ r.name = "ECALL" /\ r.format = "SYSTEM"
BY DEF Rows, Row, BranchName, LoadName, StoreName, ImmediateName, RegisterName

\* What decode extracts from the word of an instruction.
LEMMA FieldsBack ==
  ASSUME NEW s, Fields(s), NEW w, w = Encoded(s)
  PROVE  /\ Opcode(w) = s.opcode
         /\ HasRd(s.format) => Rd(w) = s.rd
         /\ HasRs1(s.format) => Rs1(w) = s.rs1
         /\ HasRs2(s.format) => Rs2(w) = s.rs2
         /\ s.format \notin {"U", "J"} => Funct3(w) = s.funct3
         /\ s.format = "R" \/ IsShift(s) => Funct7(w) = s.funct7
<1>0. /\ s.opcode \subseteq 0 .. 6 /\ s.funct3 \in 0 .. 7
      /\ s.rd \subseteq 0 .. 4 /\ s.rs1 \subseteq 0 .. 4 /\ s.rs2 \subseteq 0 .. 4
      /\ s.funct7 \subseteq 0 .. 6
  BY DEF Fields
<1>1. Opcode(w) = s.opcode
  <2>1. \A p \in 0 .. 0 + 6 : p \in w <=> p - 0 \in s.opcode
    BY EncodedBits
  <2>2. Field(w, 0, 0 + 6) = s.opcode
    BY <1>0, <2>1, FieldOf
  <2> QED
    BY <2>2 DEF Opcode
<1>2. ASSUME HasRd(s.format) PROVE Rd(w) = s.rd
  <2>1. \A p \in 7 .. 7 + 4 : p \in w <=> p - 7 \in s.rd
    BY <1>2, EncodedBits
  <2>2. Field(w, 7, 7 + 4) = s.rd
    BY <1>0, <2>1, FieldOf
  <2> QED
    BY <2>2 DEF Rd
<1>3. ASSUME HasRs1(s.format) PROVE Rs1(w) = s.rs1
  <2>1. \A p \in 15 .. 15 + 4 : p \in w <=> p - 15 \in s.rs1
    BY <1>3, EncodedBits
  <2>2. Field(w, 15, 15 + 4) = s.rs1
    BY <1>0, <2>1, FieldOf
  <2> QED
    BY <2>2 DEF Rs1
<1>4. ASSUME HasRs2(s.format) PROVE Rs2(w) = s.rs2
  <2>1. \A p \in 20 .. 20 + 4 : p \in w <=> p - 20 \in s.rs2
    BY <1>4, EncodedBits
  <2>2. Field(w, 20, 20 + 4) = s.rs2
    BY <1>0, <2>1, FieldOf
  <2> QED
    BY <2>2 DEF Rs2
<1>5. ASSUME s.format \notin {"U", "J"} PROVE Funct3(w) = s.funct3
  <2>1. \A p \in 12 .. 14 : p \in w <=> p \in Funct3Bits(s.funct3)
    BY <1>5, EncodedBits
  <2>2. /\ 12 \in w <=> s.funct3 \in {1, 3, 5, 7}
        /\ 13 \in w <=> s.funct3 \in {2, 3, 6, 7}
        /\ 14 \in w <=> s.funct3 \in 4 .. 7
    BY <2>1 DEF Funct3Bits
  <2> QED
    BY <1>0, <2>2 DEF Funct3
<1>6. ASSUME s.format = "R" \/ IsShift(s) PROVE Funct7(w) = s.funct7
  <2>1. \A p \in 25 .. 25 + 6 : p \in w <=> p - 25 \in s.funct7
    BY <1>6, EncodedBits
  <2>2. Field(w, 25, 25 + 6) = s.funct7
    BY <1>0, <2>1, FieldOf
  <2> QED
    BY <2>2 DEF Funct7
<1> QED
  BY <1>1, <1>2, <1>3, <1>4, <1>5, <1>6

\* recognize finds the row of the table.
LEMMA RecognizesRow ==
  ASSUME NEW s, IsInstruction(s), NEW w, w = Encoded(s)
  PROVE  recognize(w).name = s.name /\ recognize(w).type = s.format
<1> DEFINE r == Row(s.name, s.format, s.opcode, s.funct3, s.funct7)
<1>0. r \in Rows /\ Fields(s)
  BY RowFields DEF IsInstruction
<1>1. /\ s.name = r.name /\ s.format = r.format /\ s.opcode = r.opcode
      /\ s.funct3 = r.funct3 /\ s.funct7 = r.funct7
  BY DEF Row
<1>2. /\ Opcode(w) = s.opcode
      /\ s.format \notin {"U", "J"} => Funct3(w) = s.funct3
      /\ s.format = "R" \/ IsShift(s) => Funct7(w) = s.funct7
  BY <1>0, FieldsBack
<1> HIDE DEF r
<1>3. CASE r.opcode \in {LUI, AUIPC, JAL, JALR}
  BY <1>0, <1>1, <1>2, <1>3, RowsByOpcode, OpcodesDiffer DEF recognize, Info
<1>4. CASE r.opcode = BRANCH
  BY <1>0, <1>1, <1>2, <1>4, RowsByOpcode, OpcodesDiffer DEF recognize, Info
<1>5. CASE r.opcode = LOAD
  BY <1>0, <1>1, <1>2, <1>5, RowsByOpcode, OpcodesDiffer DEF recognize, Info
<1>6. CASE r.opcode = STORE
  BY <1>0, <1>1, <1>2, <1>6, RowsByOpcode, OpcodesDiffer DEF recognize, Info
<1>7. CASE r.opcode = OPIMM
  BY <1>0, <1>1, <1>2, <1>7, RowsByOpcode, OpcodesDiffer
     DEF recognize, Info, ImmediateName, IsShift
<1>8. CASE r.opcode = OP
  BY <1>0, <1>1, <1>2, <1>8, RowsByOpcode, OpcodesDiffer DEF recognize, Info
<1>9. CASE r.opcode = SYSTEM
  <2>1. r.format = "SYSTEM" /\ r.name = "ECALL"
    BY <1>0, <1>9, RowsByOpcode, OpcodesDiffer
  <2>2. w = SYSTEM
    BY <1>0, <1>1, <1>9, <2>1
       DEF Encoded, Fields, Scattered, HasRd, HasRs1, HasRs2, Funct3Bits, Moved
  <2> QED
    BY <1>1, <1>2, <1>9, <2>1, <2>2, OpcodesDiffer DEF recognize, Info
<1> QED
  BY <1>0, <1>3, <1>4, <1>5, <1>6, <1>7, <1>8, <1>9, RowsByOpcode

\* What the immediate of an instruction shares its word with.
OtherFields(s) ==
  s.opcode
    \cup (IF HasRd(s.format) THEN Moved(s.rd, 0, 4, 7) ELSE {})
    \cup (IF HasRs1(s.format) THEN Moved(s.rs1, 0, 4, 15) ELSE {})
    \cup (IF HasRs2(s.format) THEN Moved(s.rs2, 0, 4, 20) ELSE {})
    \cup (IF s.format \in {"U", "J"} THEN {} ELSE Funct3Bits(s.funct3))

LEMMA OtherFieldsBits ==
  ASSUME NEW s, Fields(s), s.format \in {"I", "S", "B", "U", "J"}
  PROVE  OtherFields(s) \in SUBSET OtherBits(s.format)
<1>1. /\ s.opcode \subseteq 0 .. 6 /\ Funct3Bits(s.funct3) \subseteq 12 .. 14
      /\ Moved(s.rd, 0, 4, 7) \subseteq 7 .. 11
      /\ Moved(s.rs1, 0, 4, 15) \subseteq 15 .. 19
      /\ Moved(s.rs2, 0, 4, 20) \subseteq 20 .. 24
  <2>1. s.opcode \subseteq 0 .. 6 /\ Funct3Bits(s.funct3) \subseteq 12 .. 14
    BY DEF Fields, Funct3Bits
  <2>2. Moved(s.rd, 0, 4, 7) \subseteq 7 .. 11
    BY DEF Moved
  <2>3. Moved(s.rs1, 0, 4, 15) \subseteq 15 .. 19
    BY DEF Moved
  <2>4. Moved(s.rs2, 0, 4, 20) \subseteq 20 .. 24
    BY DEF Moved
  <2> QED
    BY <2>1, <2>2, <2>3, <2>4
<1>2. CASE s.format = "I"
  BY <1>1, <1>2 DEF OtherFields, OtherBits, HasRd, HasRs1, HasRs2
<1>3. CASE s.format \in {"S", "B"}
  BY <1>1, <1>3 DEF OtherFields, OtherBits, HasRd, HasRs1, HasRs2
<1>4. CASE s.format \in {"U", "J"}
  BY <1>1, <1>4 DEF OtherFields, OtherBits, HasRd, HasRs1, HasRs2
<1> QED
  BY <1>2, <1>3, <1>4

\* An immediate shift counts as an I instruction with funct7 in its immediate.
LEMMA MeantScattered ==
  ASSUME NEW s, Fields(s), s.format \in {"I", "S", "B", "U", "J"}
  PROVE  /\ MeantImm(s) \in BitWord /\ Carries(s.format, MeantImm(s))
         /\ Encoded(s) = Scattered(s.format, MeantImm(s)) \cup OtherFields(s)
<1>1. CASE ~IsShift(s)
  <2>1. s.funct7 = {} /\ s.imm \in BitWord /\ Carries(s.format, s.imm)
    BY <1>1 DEF Fields
  <2>2. Moved(s.funct7, 0, 6, 5) = {} /\ Moved(s.funct7, 0, 6, 25) = {}
    BY <2>1 DEF Moved
  <2>3. MeantImm(s) = s.imm
    BY <2>2 DEF MeantImm
  <2> QED
    BY <2>1, <2>2, <2>3 DEF Encoded, OtherFields
<1>2. CASE IsShift(s)
  <2> DEFINE imm == MeantImm(s)
  <2>1. s.format = "I" /\ s.imm \subseteq 0 .. 4 /\ s.funct7 \subseteq {5}
    BY <1>2 DEF Fields
  <2>2. imm = s.imm \cup {p + 5 : p \in s.funct7}
    BY <2>1 DEF MeantImm, Moved
  <2>3. imm \in SUBSET (0 .. 10)
    BY <2>1, <2>2
  <2>4. imm \in BitWord /\ Carries("I", imm)
    BY <2>3 DEF BitWord, Bit, Carries, SignedFrom
  <2>5. Moved(imm, 0, 11, 20) = Moved(s.imm, 0, 11, 20) \cup Moved(s.funct7, 0, 6, 25)
    <3>1. Moved(imm, 0, 11, 20) = {p - 0 + 20 : p \in imm}
      BY <2>3 DEF Moved
    <3>2. Moved(s.imm, 0, 11, 20) = {p - 0 + 20 : p \in s.imm}
      BY <2>1 DEF Moved
    <3>3. Moved(s.funct7, 0, 6, 25) = {p + 25 : p \in s.funct7}
      BY <2>1 DEF Moved
    <3> QED
      BY <2>1, <2>2, <3>1, <3>2, <3>3
  <2>6. /\ Scattered("I", imm) = Moved(imm, 0, 11, 20)
        /\ Scattered(s.format, s.imm) = Moved(s.imm, 0, 11, 20)
    BY <2>1 DEF Scattered
  <2> HIDE DEF imm
  <2> QED
    BY <2>1, <2>4, <2>5, <2>6 DEF Encoded, OtherFields, imm
<1> QED
  BY <1>1, <1>2

LEMMA ImmediateBack ==
  ASSUME NEW s, Fields(s), s.format \in {"I", "S", "B", "U", "J"},
         NEW w, w = Encoded(s)
  PROVE  calc_imm(w, s.format) = MeantImm(s)
BY MeantScattered, OtherFieldsBits, ImmediateRoundTrip

\* Decoding finds, for every instruction of RV32I with any registers and any
\* immediate its format carries, the name, the registers and the immediate that
\* were put into its word.
THEOREM AlwaysDecodesAssembled == Spec => []DecodesAssembled
<1> DEFINE Inv ==
      /\ source # NoSource => IsInstruction(source) /\ instr = Encoded(source)
      /\ DecodesAssembled
<1>1. Init => Inv
  BY SourcesAssumption DEF Init, DecodesAssembled
<1>2. Inv /\ [Next]_vars => Inv'
  <2> SUFFICES ASSUME Inv, [Next]_vars PROVE Inv'
    OBVIOUS
  <2>1. CASE UNCHANGED vars
    BY <2>1 DEF vars, DecodesAssembled, MeantImm, HasRd, HasRs1, HasRs2
  <2>2. CASE decode
    <3> DEFINE info == recognize(instr)
    <3>1. /\ UNCHANGED <<source, instr>>
          /\ decoded' = [info |-> info, rd |-> Rd(instr), rs1 |-> Rs1(instr),
                         rs2 |-> Rs2(instr), imm |-> calc_imm(instr, info.type)]
      BY <2>2 DEF decode
    <3>2. ASSUME source # NoSource
          PROVE  /\ info.name = source.name /\ info.type = source.format
                 /\ HasRd(source.format)  => Rd(instr) = source.rd
                 /\ HasRs1(source.format) => Rs1(instr) = source.rs1
                 /\ HasRs2(source.format) => Rs2(instr) = source.rs2
                 /\ source.format \in {"I", "S", "B", "U", "J"} =>
                      calc_imm(instr, info.type) = MeantImm(source)
      <4>1. IsInstruction(source) /\ Fields(source) /\ instr = Encoded(source)
        BY <3>2, RowFields
      <4> QED
        BY <4>1, RecognizesRow, FieldsBack, ImmediateBack
    <3> HIDE DEF info
    <3> QED
      BY <3>1, <3>2 DEF DecodesAssembled
  <2> QED
    BY <2>1, <2>2 DEF Next
<1> QED
  BY <1>1, <1>2, PTL DEF Spec

-----------------------------------------------------------------------------
(* From the source to the register: the life of an object.                 *)

\* An instruction the executors compute keeps its name as the one of its executor.
LEMMA ExecutorNamed ==
  ASSUME NEW w, recognize(w).name \in AluNames \cup BranchNames
  PROVE  recognize(w).executor = recognize(w).name
<1> DEFINE op == Opcode(w)
           f3 == Funct3(w)
<1>1. LoadName(f3) \in {"LB", "LH", "LW", "LBU", "LHU", "NONE"}
  BY Funct3Range DEF LoadName
<1>2. StoreName(f3) \in {"SB", "SH", "SW", "NONE"}
  BY Funct3Range DEF StoreName
<1>3. CASE op \in {LOAD, STORE}
  BY <1>1, <1>2, <1>3 DEF recognize, Info, AluNames, BranchNames
<1>4. CASE op \notin {LOAD, STORE}
  BY <1>4 DEF recognize, Info
<1> QED BY <1>3, <1>4

\* What an object is at every moment: its operands are words, those the source
\* says, its executor is the source's, and what it has left behind is its result.
Object ==
  /\ a \in Word /\ b \in Word
  /\ executed => decoded # Undecoded
  /\ source # NoSource => IsInstruction(source) /\ instr = Encoded(source)
  /\ decoded # Undecoded /\ source # NoSource
       /\ source.name \in AluNames \cup BranchNames =>
         decoded.info.executor = source.name /\ b = Meant
  /\ executed /\ decoded.info.executor \in AluNames =>
       rd = Result(decoded.info.executor, a, b)
  /\ executed /\ decoded.info.executor \in BranchNames =>
       br_is_taken = Taken(decoded.info.executor, a, b)

LEMMA NarrowedWord == \A imm, type : Narrowed(imm, type) \in Word
<1> SUFFICES ASSUME NEW imm, NEW type PROVE Narrowed(imm, type) \in Word
  OBVIOUS
<1> DEFINE s == {i \in Place : Lowest(type) + i \in imm}
<1>1. s \in SUBSET Place
  OBVIOUS
<1> HIDE DEF s
<1>2. Composed(s) \in Word
  BY <1>1, ComposedBits
<1> QED BY <1>2 DEF Narrowed, s

LEMMA ObjectDecodes ==
  ASSUME Object, decodeOperands
  PROVE  Object'
<1> DEFINE info == recognize(instr)
           imm == calc_imm(instr, info.type)
<1>1. /\ decoded = Undecoded /\ UNCHANGED <<source, instr, rd, br_is_taken, executed>>
      /\ decoded'.info = info /\ decoded'.imm = imm
  BY DEF decodeOperands, decode
<1>2. /\ a' \in IF HasExecutor(info) THEN Word ELSE {0}
      /\ b' \in IF HasExecutor(info) /\ info.type \in {"R", "B"} THEN Word
                ELSE {Narrowed(imm, info.type)}
  <2> HIDE DEF info, imm
  <2> QED BY <1>1 DEF decodeOperands
<1>3. a' \in Word /\ b' \in Word /\ executed' = FALSE
  BY <1>1, <1>2, WordFacts, NarrowedWord DEF Object
<1>4. ASSUME source # NoSource, source.name \in AluNames \cup BranchNames
      PROVE  info.executor = source.name /\ b' = Meant'
  <2>1. IsInstruction(source) /\ Fields(source) /\ instr = Encoded(source)
    BY <1>4, RowFields DEF Object
  <2>2. info.name = source.name /\ info.type = source.format
    BY <2>1, RecognizesRow
  <2>3. info.executor = source.name
    BY <1>4, <2>2, ExecutorNamed
  <2>4. CASE source.format \in {"R", "B"}
    BY <1>1, <2>3, <2>4 DEF Meant
  <2>5. CASE source.format \notin {"R", "B"}
    <3>1. source.format # "SYSTEM"
      <4> DEFINE r == Row(source.name, source.format, source.opcode, source.funct3,
                          source.funct7)
      <4>1. r \in Rows /\ r.name = source.name /\ r.format = source.format
        BY <2>1 DEF IsInstruction, Row
      <4> HIDE DEF r
      <4>2. r.format = "SYSTEM" => r.name = "ECALL"
        BY <4>1, RowsByOpcode
      <4> QED BY <1>4, <4>1, <4>2 DEF AluNames, BranchNames
    <3>2. imm = MeantImm(source)
      BY <2>1, <2>2, <2>5, <3>1, ImmediateBack DEF Fields
    <3>3. b' = Narrowed(imm, source.format)
      BY <1>2, <2>2, <2>5
    <3> QED BY <1>1, <2>3, <2>5, <3>2, <3>3 DEF Meant
  <2> QED BY <2>4, <2>5
<1> HIDE DEF info, imm
<1> QED BY <1>1, <1>3, <1>4 DEF Object

LEMMA ObjectExecutes ==
  ASSUME Object, executeArithmetic \/ executeBranch
  PROVE  Object'
<1>1. UNCHANGED <<source, instr, decoded, a, b>> /\ decoded # Undecoded
  BY DEF executeArithmetic, executeBranch, vars
<1>2. Meant' = Meant
  BY <1>1 DEF Meant
<1>3. \A n : ~(n \in AluNames /\ n \in BranchNames)
  BY DEF AluNames, BranchNames
<1>4. CASE executeArithmetic
  BY <1>1, <1>2, <1>3, <1>4 DEF Object, executeArithmetic
<1>5. CASE executeBranch
  BY <1>1, <1>2, <1>3, <1>5 DEF Object, executeBranch
<1> QED BY <1>4, <1>5

LEMMA ObjectStep ==
  ASSUME Object, [decodeOperands \/ executeArithmetic \/ executeBranch]_allVars
  PROVE  Object'
<1>1. CASE UNCHANGED allVars
  BY <1>1 DEF Object, Meant, allVars, objectVars, vars
<1> QED BY <1>1, ObjectDecodes, ObjectExecutes

LEMMA ObjectInit == InitObject => Object
BY SourcesAssumption, WordFacts DEF InitObject, Init, Object

\* The life of an object contains the decoding of its word: what is always true of
\* the one is always true of the other.
THEOREM ObjectDecoded == ObjectSpec => Spec
<1>1. InitObject => Init
  BY DEF InitObject
<1>2. [decodeOperands \/ executeArithmetic \/ executeBranch]_allVars => [Next]_vars
  BY DEF decodeOperands, executeArithmetic, executeBranch, Next, allVars
<1> QED BY <1>1, <1>2, PTL DEF ObjectSpec, Spec

\* From the source to the register, for words of every width, all operands and all
\* immediates: rd is what RV32I defines, in programs without the two instructions
\* whose executors are exchanged.
THEOREM AlwaysComputes ==
  ASSUME \A s \in Sources : s.name \notin {"ANDI", "XORI"}
  PROVE  ObjectSpec => []ComputesRV32I
<1> DEFINE Inv == Object /\ (source # NoSource => source \in Sources)
<1>1. InitObject => Inv
  BY ObjectInit DEF InitObject, Init
<1>2. Inv /\ [decodeOperands \/ executeArithmetic \/ executeBranch]_allVars => Inv'
  BY ObjectStep
     DEF decodeOperands, decode, executeArithmetic, executeBranch, allVars, vars
<1>3. Inv => ComputesRV32I
  <2> SUFFICES ASSUME Inv, executed, source # NoSource, source.name \in AluNames
               PROVE  Computes(source.name, a, Meant, rd)
    BY DEF ComputesRV32I
  <2>1. /\ a \in Word /\ b \in Word /\ b = Meant
        /\ rd = Result(source.name, a, b)
    BY DEF Object
  <2>2. source.name \in AluNames \ {"ANDI", "XORI"}
    OBVIOUS
  <2> QED BY <2>1, <2>2, ExecutorsCompute
<1> QED BY <1>1, <1>2, <1>3, PTL DEF ObjectSpec

\* What those two leave in rd instead, in every program: each what the other one
\* should.
Swapped ==
  executed /\ source # NoSource =>
    /\ source.name = "ANDI" => Computes("XORI", a, Meant, rd)
    /\ source.name = "XORI" => Computes("ANDI", a, Meant, rd)

THEOREM AlwaysSwapped == ObjectSpec => []Swapped
<1>1. Object => Swapped
  <2> SUFFICES ASSUME Object, executed, source # NoSource,
                      source.name \in {"ANDI", "XORI"}
               PROVE  /\ source.name = "ANDI" => Computes("XORI", a, Meant, rd)
                      /\ source.name = "XORI" => Computes("ANDI", a, Meant, rd)
    BY DEF Swapped
  <2>1. /\ a \in Word /\ b \in Word /\ b = Meant
        /\ rd = Result(source.name, a, b)
    BY DEF Object, AluNames
  <2> QED BY <2>1, ImmediatesSwapped
<1> QED BY <1>1, ObjectInit, ObjectStep, PTL DEF ObjectSpec

\* A branch as written is taken exactly when RV32I takes it, for all operands.
THEOREM AlwaysBranches == ObjectSpec => []BranchesRV32I
<1>1. Object => BranchesRV32I
  <2> SUFFICES ASSUME Object, executed, source # NoSource, source.name \in BranchNames
               PROVE  br_is_taken = Condition(source.name, a, Meant)
    BY DEF BranchesRV32I
  <2>1. /\ a \in Word /\ b \in Word /\ b = Meant
        /\ br_is_taken = Taken(source.name, a, b)
    BY DEF Object
  <2> QED BY <2>1, BranchesTaken
<1> QED BY <1>1, ObjectInit, ObjectStep, PTL DEF ObjectSpec
=============================================================================
