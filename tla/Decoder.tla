------------------------------ MODULE Decoder ------------------------------
(***************************************************************************)
(* Decoder::decode of src/Decoder.cpp: it takes the next object of the     *)
(* pool for the instruction's type, fills in the operands, from the        *)
(* register file or through the hazard unit, and locks the destination.    *)
(*                                                                         *)
(* A pool is a CyclicArray of Stages objects, used round and round and     *)
(* never freed: nothing but the pipeline's timing keeps an object from     *)
(* being overwritten while a latch still points to it.  The objects of     *)
(* type NONE come from the heap instead and are never reused; a pool of    *)
(* Stages of them is enough to tell the live ones apart.                   *)
(***************************************************************************)
EXTENDS HazardUnit

VARIABLE index      \* per type, the next slot of its CyclicArray

DecoderTypeOK == index \in [InstrType -> Slot]

\* A mutant of IndexAfter: the index wraps one slot too early.
IndexAfterShort(type) ==
  [index EXCEPT ![type] = IF @ + 1 >= Stages - 1 THEN 0 ELSE @ + 1]

\* CyclicArray::get_next: the slot handed out, and the index after it
\* (index++ % size).
get_next(type) == <<type, index[type]>>
IndexAfter(type) ==
  [index EXCEPT ![type] = IF @ = Stages - 1 THEN 0 ELSE @ + 1]

\* Operands of w that are not loaded yet, or come through a bypass.
LoadUses(w) == Ones(ReadsRs1(w) /\ LoadUse(w.rs1), ReadsRs2(w) /\ LoadUse(w.rs2))
MemExBypasses(w) ==
  Ones(ReadsRs1(w) /\ BypassMemEx(w.rs1), ReadsRs2(w) /\ BypassMemEx(w.rs2))
WbExBypasses(w) ==
  Ones(ReadsRs1(w) /\ BypassWbEx(w.rs1), ReadsRs2(w) /\ BypassWbEx(w.rs2))

\* The data operand of a store is asked for on behalf of the memory stage, and
\* HazardUnit::decode throws when it is still to be loaded.
DecodeThrows(w) == IsStore(w) /\ LoadUse(w.rs2)

\* The object *p after decoding w: load/store address and branch outcome are
\* still those of the instruction that used the slot before.
Decoded(p, w, pc) ==
  [instrs[p] EXCEPT
     !.op = w, !.pc = pc, !.branch_addr = 0,
     !.rs1 = IF ReadsRs1(w) THEN Operand(w.rs1) ELSE @,
     !.rs2 = IF ReadsRs2(w) THEN Operand(w.rs2) ELSE @,
     !.rd = IF Writes(w) THEN regs[w.rd] ELSE @]

\* Decoder::decode of the word w fetched from pc.
decoder_decode(w, pc) ==
  LET p == get_next(w.type) IN
  /\ instrs' = [instrs EXCEPT ![p] = Decoded(p, w, pc)]
  /\ index' = IndexAfter(w.type)
  /\ reg_locker' = IF Writes(w) THEN LockedBy(w.rd) ELSE reg_locker
  /\ hu_stall(LoadUses(w))
  /\ hu' = [hu EXCEPT
              !.stops = Bump(@, LoadUses(w)),
              !.bypasses_mem_ex = Bump(@, MemExBypasses(w)),
              !.bypasses_wb_ex = Bump(@, LoadUses(w) + WbExBypasses(w))]
  /\ UNCHANGED regs
=============================================================================
