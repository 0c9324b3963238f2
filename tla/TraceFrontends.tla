---------------------------- MODULE TraceFrontends ----------------------------
(***************************************************************************)
(* The frontends that replay a memory trace                                 *)
(* (frontend/impl/memory_trace/loadstore_trace.cpp, readwrite_trace.cpp)    *)
(* and the main loop that ticks them and the memory system, each at its own *)
(* rate.                                                                    *)
(*                                                                          *)
(* The memory system is external: it has room for some requests and, at     *)
(* its ticks, is done with some of them.  accepted, front and mem are       *)
(* history: the requests it took, and the ticks given to each side.         *)
(***************************************************************************)
EXTENDS Integers, Sequences

CONSTANTS Traces,          \* the traces: sequences of is_write, addr
          Frontends,       \* a subset of {"LoadStoreTrace", "ReadWriteTrace"}
          frontend_tick, mem_tick,   \* the clock ratios
          Capacity         \* requests the memory system has room for

TraceFrontendsAssumption ==
  /\ \A t \in Traces : Len(t) \in Nat \ {0}
  /\ Frontends \subseteq {"LoadStoreTrace", "ReadWriteTrace"}
  /\ frontend_tick \in Nat \ {0} /\ mem_tick \in Nat \ {0} /\ Capacity \in Nat \ {0}

VARIABLES frontend, m_trace, m_curr_trace_idx, m_trace_count,
          i,               \* the loop's counter, modulo tick_mult
          pc,              \* where the loop is
          pending,         \* requests in the memory system
          accepted, front, mem

vars == <<frontend, m_trace, m_curr_trace_idx, m_trace_count, i, pc, pending, accepted, front, mem>>

tick_mult == frontend_tick * mem_tick

Init ==
  /\ frontend \in Frontends /\ m_trace \in Traces
  /\ m_curr_trace_idx = 0 /\ m_trace_count = 0
  /\ i = 0 /\ pc = "frontend"
  /\ pending = 0 /\ accepted = <<>>
  /\ front = 0 /\ mem = 0

Entry == m_trace[m_curr_trace_idx + 1]

NextIndex == (m_curr_trace_idx + 1) % Len(m_trace)

(* No address was given: the address of a request made from a vector.       *)
NoAddr == -1

(* The memory system is offered a request for an address; its mapper sets   *)
(* the address vector from the address, whatever vector the request has.    *)
Accepts == pending < Capacity

send(type, addr) ==
  IF Accepts THEN /\ pending' = pending + 1
                  /\ accepted' = Append(accepted, [type |-> type, addr |-> addr])
  ELSE UNCHANGED <<pending, accepted>>

(* Mutant: an entry is passed over when it is refused.                      *)
PassedOver ==
  /\ send(IF Entry.is_write THEN "Write" ELSE "Read", Entry.addr)
  /\ m_curr_trace_idx' = NextIndex /\ m_trace_count' = m_trace_count + 1

(* A refused entry is offered again at the next tick.                       *)
LoadStoreTick ==
  /\ send(IF Entry.is_write THEN "Write" ELSE "Read", Entry.addr)
  /\ IF Accepts THEN m_curr_trace_idx' = NextIndex /\ m_trace_count' = m_trace_count + 1
     ELSE UNCHANGED <<m_curr_trace_idx, m_trace_count>>

ReadWriteTick ==
  /\ send(IF Entry.is_write THEN "Read" ELSE "Write", NoAddr)
  /\ m_curr_trace_idx' = NextIndex
  /\ UNCHANGED m_trace_count

is_finished == frontend = "LoadStoreTrace" => m_trace_count' >= Len(m_trace)

FrontendDue == i % mem_tick = 0

FrontendStep ==
  /\ pc = "frontend"
  /\ \/ /\ FrontendDue
        /\ \/ frontend = "LoadStoreTrace" /\ LoadStoreTick
           \/ frontend = "ReadWriteTrace" /\ ReadWriteTick
        /\ front' = front + 1
     \/ /\ ~FrontendDue
        /\ UNCHANGED <<m_curr_trace_idx, m_trace_count, pending, accepted, front>>
  /\ pc' = IF is_finished THEN "done" ELSE "memory"
  /\ UNCHANGED <<frontend, m_trace, i, mem>>

(* The counts of the ticks start again when both have had their share.      *)
Counted(f, m) ==
  IF f = frontend_tick /\ m = mem_tick THEN front' = 0 /\ mem' = 0 ELSE front' = f /\ mem' = m

MemoryStep(served) ==
  /\ pc = "memory"
  /\ \/ /\ i % frontend_tick = 0
        /\ served <= pending
        /\ pending' = pending - served
        /\ Counted(front, mem + 1)
     \/ /\ i % frontend_tick # 0
        /\ served = 0
        /\ Counted(front, mem)
        /\ UNCHANGED pending
  /\ i' = (i + 1) % tick_mult
  /\ pc' = "frontend"
  /\ UNCHANGED <<frontend, m_trace, m_curr_trace_idx, m_trace_count, accepted>>

Done == pc = "done" /\ UNCHANGED vars

Next == FrontendStep \/ (\E served \in {0, 1} : MemoryStep(served)) \/ Done

(* The loop goes on, and the memory system is done with requests again and  *)
(* again.                                                                   *)
Spec == Init /\ [][Next]_vars /\ WF_vars(Next) /\ SF_vars(MemoryStep(1))

-----------------------------------------------------------------------------
(* Properties *)

Loads == frontend = "LoadStoreTrace"

(* loadstore_trace.cpp: types.                                              *)
TypeOK ==
  /\ m_curr_trace_idx \in 0..(Len(m_trace) - 1)
  /\ m_trace_count \in 0..Len(m_trace)
  /\ i \in 0..(tick_mult - 1) /\ pc \in {"frontend", "memory", "done"}
  /\ pending \in 0..Capacity
  /\ front \in Nat /\ mem \in Nat

(* What the memory system accepts is the trace, entry by entry, whenever it *)
(* refuses: nothing is skipped or sent twice, and the loop ends after the   *)
(* last entry.                                                              *)
TraceReplayed ==
  Loads =>
    /\ Len(accepted) <= Len(m_trace)
    /\ \A k \in 1..Len(accepted) :
         accepted[k] = [type |-> IF m_trace[k].is_write THEN "Write" ELSE "Read", addr |-> m_trace[k].addr]
    /\ pc = "done" => Len(accepted) = Len(m_trace)

(* The two sides advance at the ratio of their clocks: neither is ticked    *)
(* too often in a round of tick_mult iterations, and each gets its share.   *)
RatioKept ==
  /\ front <= frontend_tick /\ mem <= mem_tick
  /\ (i = 0 /\ pc = "frontend") => front = 0 /\ mem = 0

(* The simulation ends, although requests are refused in between.           *)
Ends == <>(pc = "done")
=============================================================================
