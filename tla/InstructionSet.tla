--------------------------- MODULE InstructionSet ---------------------------
(***************************************************************************)
(* The life of one instruction outside the pipeline: assembled into a      *)
(* word, decoded into an object with its operand values, and executed by   *)
(* the executor that recognize has put into the object.  Values have       *)
(* WordBits bits, of which the immediate fills as many as it can.          *)
(***************************************************************************)
EXTENDS Assembler, Executors

VARIABLES
  a, b,               \* the operands of the executor
  rd, br_is_taken,    \* what it leaves in the object
  executed

objectVars == <<a, b, rd, br_is_taken, executed>>
allVars == <<vars, objectVars>>

\* The bits of an immediate that fit into a word, from the lowest that its format
\* can set; 32 bits hold all of them.
Lowest(type) == IF type = "U" /\ WordBits < 32 THEN 12 ELSE 0
Narrowed(imm, type) == Composed({i \in Place : Lowest(type) + i \in imm})

InitObject ==
  /\ Init
  /\ a = 0 /\ b = 0 /\ rd = 0 /\ br_is_taken = FALSE /\ executed = FALSE

HasExecutor(info) == info.executor \in AluNames \cup BranchNames

\* Decoder::decode: the first operand is rs1, or the pc for AUIPC; the second
\* one is rs2 for the types R and B and the immediate for the others.  The
\* address operands of the other executors are not followed.
decodeOperands ==
  /\ decode
  /\ a' \in IF HasExecutor(decoded'.info) THEN Word ELSE {0}
  /\ b' \in IF HasExecutor(decoded'.info) /\ decoded'.info.type \in {"R", "B"}
              THEN Word
            ELSE {Narrowed(decoded'.imm, decoded'.info.type)}
  /\ UNCHANGED <<rd, br_is_taken, executed>>

\* Instruction::execute: main_executor on the object.
executeArithmetic ==
  /\ decoded # Undecoded /\ ~executed /\ executed' = TRUE
  /\ decoded.info.executor \in AluNames
  /\ rd' = Result(decoded.info.executor, a, b)
  /\ UNCHANGED <<vars, a, b, br_is_taken>>

executeBranch ==
  /\ decoded # Undecoded /\ ~executed /\ executed' = TRUE
  /\ decoded.info.executor \in BranchNames
  /\ br_is_taken' = Taken(decoded.info.executor, a, b)
  /\ UNCHANGED <<vars, a, b, rd>>

ObjectSpec ==
  InitObject
    /\ [][decodeOperands \/ executeArithmetic \/ executeBranch]_allVars

-----------------------------------------------------------------------------
\* The second operand as the source says it.
Meant ==
  IF source.format \in {"R", "B"} THEN b
  ELSE Narrowed(MeantImm(source), source.format)

\* From the source to the register: the executor that decoding has found for the
\* word computes, bit for bit, what RV32I defines for the instruction the
\* assembler was given, signs, wrapped sums and shift amounts beyond the word
\* included.
ComputesRV32I ==
  executed /\ source # NoSource /\ source.name \in AluNames =>
    Computes(source.name, a, Meant, rd)

\* A branch as written is taken when its condition holds of the operands, read
\* as signed or as unsigned numbers as its name says: what decides every loop.
BranchesRV32I ==
  executed /\ source # NoSource /\ source.name \in BranchNames =>
    br_is_taken = Condition(source.name, a, Meant)
=============================================================================
