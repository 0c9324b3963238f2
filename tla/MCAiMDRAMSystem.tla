-------------------------- MODULE MCAiMDRAMSystem --------------------------
(* Small instances of the AiM DMA: two channels, an ISR queue of two.       *)
EXTENDS AiMDRAMSystem

Line(op, mask, opsize, addr, data) ==
  [op |-> op, mask |-> mask, opsize |-> opsize, addr |-> addr, data |-> data]

EOC == Line("ISR_EOC", {}, 1, 0, 0)

(* Blocking, barrier, multi-column and conventional requests.               *)
MCHostInputs ==
  {EOC,
   Line("ISR_SYNC", {}, 1, 0, 0),
   Line("ISR_RD_MAC", {0, 1}, 1, 0, 0),
   Line("ISR_MAC_ABK", {0, 1}, 2, 0, 0),
   Line("ISR_MAC_ABK", {1}, 2, 0, 0),
   Line("W_MEM", {0}, 1, 0, 0)}

(* Configuration registers, the boundary marker and what decoding rejects.  *)
MCControlInputs ==
  {EOC,
   Line("PHASE", {}, 1, 0, 0),
   Line("ISR_AF", {0, 1}, 1, 0, 0),
   Line("ISR_MAC_ABK", {0}, 2, 0, 0),
   Line("ISR_RD_AF", {0}, 1, 0, 0),
   Line("W_CFR", {}, 1, 2, 5),
   Line("W_CFR", {}, 1, 1, 0),
   Line("W_CFR", {}, 1, 3, 5),
   Line("R_MEM", {}, 1, 0, 0),
   Line("ISR_EWADD", {}, 0, 0, 0),
   Line("ISR_WR_AFLUT", {}, 1, 0, 0),
   Line("ISR_WR_ABK", {0, 1}, 1, 0, 0)}
=============================================================================
