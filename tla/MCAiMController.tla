-------------------------- MODULE MCAiMController --------------------------
(* Small instances of one channel: two banks, two rows, buffers of two.     *)
EXTENDS AiMController

Req(type, op, bank, row) ==
  [type |-> type, opcode |-> op, bank |-> bank, row |-> row, addr |-> -1]

Read(b, r) == Req("Read", "MIN", b, r)
Write(b, r) == Req("Write", "MIN", b, r)
AiM(op, b, r) == Req("AIM", op, b, r)

NoRank == -1

(* Conventional accesses that conflict on a bank, against all-bank AiM.     *)
MCMixed ==
  {Read(0, 0), Write(0, 1), Write(1, 0),
   AiM("ISR_MAC_ABK", NoBank, 1), AiM("ISR_COPY_BKGB", 0, 0),
   AiM("ISR_SYNC", NoBank, -1)}

(* Register moves, blocking reads and closing writes around a conventional  *)
(* access: every one of them changes the register mode or the rows.         *)
MCRegister ==
  {Write(0, 0),
   AiM("ISR_WR_GB", NoBank, -1), AiM("ISR_RD_MAC", NoBank, -1),
   AiM("ISR_WR_ABK", NoBank, 0), AiM("ISR_EOC", NoBank, -1)}

(* Refreshes among accesses and all-bank operations.                        *)
MCRefresh ==
  {Read(0, 0), Write(0, 1), AiM("ISR_AF", NoBank, 1)}
=============================================================================
