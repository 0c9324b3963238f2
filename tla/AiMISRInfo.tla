----------------------------- MODULE AiMISRInfo -----------------------------
(***************************************************************************)
(* The instruction-set tables of base/request.h: for every ISR opcode, the  *)
(* attributes the memory system and the channel controllers decide by.      *)
(***************************************************************************)

(* The opcodes whose decoding unrolls into one request per column and per   *)
(* channel of the mask.                                                     *)
MulticastOpcodes ==
  {"ISR_WR_SBK", "ISR_WR_GB", "ISR_WR_BIAS", "ISR_RD_MAC", "ISR_RD_AF",
   "ISR_RD_SBK", "ISR_COPY_BKGB", "ISR_COPY_GBBK", "ISR_MAC_SBK",
   "ISR_MAC_ABK", "ISR_AF", "ISR_EWMUL", "ISR_WR_ABK"}

(* The opcodes that are sent to every controller, whatever the mask.        *)
BarrierOpcodes == {"ISR_SYNC", "ISR_EOC"}

Opcode == MulticastOpcodes \cup BarrierOpcodes \cup {"ISR_EWADD", "ISR_WR_AFLUT"}

(* AiM_DMA_blocking: the host may not go on before the request is served.   *)
AiM_DMA_blocking(op) == op \in {"ISR_RD_MAC", "ISR_RD_AF", "ISR_SYNC", "ISR_EOC"}

(* require_reg_RW_mod: the command moves register or global-buffer data.    *)
require_reg_RW_mod(op) ==
  op \in {"ISR_WR_GB", "ISR_WR_BIAS", "ISR_RD_MAC", "ISR_RD_AF"}

(* channel_count_eq_one: the mask must name exactly one channel.            *)
channel_count_eq_one(op) == op = "ISR_WR_ABK"

(* The opcodes with a legal opsize field; the others run one column.        *)
opsize_legal(op) ==
  op \in {"ISR_WR_GB", "ISR_WR_AFLUT", "ISR_COPY_BKGB", "ISR_COPY_GBBK",
          "ISR_MAC_SBK", "ISR_MAC_ABK", "ISR_EWMUL", "ISR_EWADD"}

(* The opcodes with a legal bank_index field: they address a single bank.   *)
bank_index_legal(op) ==
  op \in {"ISR_WR_SBK", "ISR_RD_SBK", "ISR_COPY_BKGB", "ISR_COPY_GBBK", "ISR_MAC_SBK"}
=============================================================================
