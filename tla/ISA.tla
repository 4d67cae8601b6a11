-------------------------------- MODULE ISA --------------------------------
(***************************************************************************)
(* The machine the pipeline simulates, one instruction at a time: fetch,   *)
(* read the operands, execute, access memory, write rd, go to the next pc. *)
(* There are no latches, bypasses, stalls or squashed instructions.  An    *)
(* instruction whose pc or data address lies outside memory has no step.   *)
(***************************************************************************)
EXTENDS Instruction

CONSTANTS
  Programs,   \* contents of the instruction memory, one per initial state
  Entry,      \* entry point of the program
  InitRegs,   \* registers when the first instruction is fetched
  InitMem     \* data memory when the first instruction is fetched

VARIABLES prog, pc, regs, mem, halted

vars == <<prog, pc, regs, mem, halted>>

Init ==
  /\ prog \in Programs
  /\ pc = Entry
  /\ regs = InitRegs
  /\ mem = InitMem
  /\ halted = FALSE

\* The instruction at pc with its operands read, executed.
Current ==
  LET w == prog[pc] IN
  Executed([NewInstruction EXCEPT
              !.op = w, !.pc = pc,
              !.rs1 = IF ReadsRs1(w) THEN regs[w.rs1] ELSE 0,
              !.rs2 = IF ReadsRs2(w) THEN regs[w.rs2] ELSE 0,
              !.rd  = regs[w.rd]])

Result(i) == IF is_load(i.op) THEN mem[i.addr] ELSE i.rd

Step ==
  /\ ~halted
  /\ pc \in Address
  /\ Current.op.mem_acc_type # "NONE" => Current.addr \in Address
  /\ regs' = IF Writes(Current.op) /\ Current.op.rd # 0
               THEN [regs EXCEPT ![Current.op.rd] = Result(Current)]
               ELSE regs
  /\ mem' = IF IsStore(Current.op)
              THEN [mem EXCEPT ![Current.addr] = Current.rs2]
              ELSE mem
  /\ pc' = IF Jumps(Current) THEN Current.branch_addr ELSE Plus(pc, 1)
  /\ halted' = (Current.op.name = "ECALL")
  /\ UNCHANGED prog

Spec == Init /\ [][Step]_vars
=============================================================================
