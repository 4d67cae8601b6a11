------------------------------ MODULE RegFile ------------------------------
(***************************************************************************)
(* The register file of src/RegFile.cpp: the register values and, for each *)
(* register, the counter reg_locker, which decode decrements when it hands *)
(* out a destination register and write increments when the value comes    *)
(* back.  A register is locked while its counter is not zero.              *)
(***************************************************************************)
EXTENDS Instruction, Integers

VARIABLES regs, reg_locker

RegFileTypeOK ==
  /\ regs \in [Reg -> Word]
  /\ reg_locker \in [Reg -> Int]

\* is_lock(num)
is_lock(num) == reg_locker[num] # 0

\* A mutant of LockedBy: x0 is locked like any other register.
LockedByEvenZero(num) == [reg_locker EXCEPT ![num] = @ - 1]

\* getReg(num, ACCESS_TYPE_WRITE): the counters after handing out num.
LockedBy(num) == IF num = 0 THEN reg_locker
                 ELSE [reg_locker EXCEPT ![num] = @ - 1]

\* write(reg): x0 keeps its value and is never locked.
write(num, value) ==
  IF num = 0
    THEN UNCHANGED <<regs, reg_locker>>
    ELSE /\ regs' = [regs EXCEPT ![num] = value]
         /\ reg_locker' = [reg_locker EXCEPT ![num] = @ + 1]
=============================================================================
