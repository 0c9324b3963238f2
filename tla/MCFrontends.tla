------------------------------ MODULE MCFrontends ------------------------------
(***************************************************************************)
(* The frontends and the way of their addresses, one setup at a time: two   *)
(* cores of SimpleO3 ("cores"), one core ("core"), the trace frontends      *)
(* ("traces") and the address path ("addresses").  The parts do not share   *)
(* any state.                                                               *)
(***************************************************************************)
EXTENDS Integers, Sequences

VARIABLES
  setup,
  m_cache_sets, m_mshrs, m_receive_requests, m_miss_list, m_hit_list,      \* SimpleO3LLC
  m_trace, trace_idx, fetched, m_window, retired, turn, memory, unsaved,   \* SimpleO3
  frontend, replayed, m_curr_trace_idx, m_trace_count, loop, pc, pending,
  accepted, front, mem,                                                    \* TraceFrontends
  translator, mapper, translation, num_free, reserved, addr                \* AddressPath

corevars ==
  <<m_cache_sets, m_mshrs, m_receive_requests, m_miss_list, m_hit_list, m_trace, trace_idx,
    fetched, m_window, retired, turn, memory, unsaved>>

tracevars ==
  <<frontend, replayed, m_curr_trace_idx, m_trace_count, loop, pc, pending, accepted, front, mem>>

addressvars == <<translator, mapper, translation, num_free, reserved, addr>>

allvars == <<setup, corevars, tracevars, addressvars>>

-----------------------------------------------------------------------------
(* SimpleO3: lines of two bytes, one set of two lines, and traces short     *)
(* enough to wrap around several times.                                     *)
MCInst(bubbles, load, store) ==
  [bubble_count |-> bubbles, load_addr |-> load, store_addr |-> store]

None == -1

(* Three lines that compete for one set; 0 and 1 share a line.              *)
MCBytes == {0, 1, 2, 4}
MCLines == {0, 2, 4}

(* Two cores with loads and stores to the same and to other lines.          *)
MCTwoCoreTraces ==
  {[c \in {0, 1} |-> IF c = 0 THEN a ELSE b] :
     a \in {<<MCInst(1, 0, None), MCInst(0, 2, 0)>>,
            <<MCInst(0, 1, 4), MCInst(3, None, None)>>},
     b \in {<<MCInst(0, 4, None), MCInst(0, 0, 1)>>,
            <<MCInst(0, 2, 2), MCInst(2, 0, None)>>}}

(* One core, every access with its own line address.                        *)
MCOneCoreTraces ==
  {[c \in {0} |-> <<MCInst(1, x, y), MCInst(0, z, None), MCInst(2, None, None)>>] :
     x \in MCLines, y \in MCLines \cup {None}, z \in MCLines}

Two == INSTANCE SimpleO3 WITH
  Core <- {0, 1}, NumCores <- 2, Addr <- MCBytes, Traces <- MCTwoCoreTraces,
  m_linesize_bytes <- 2, m_set_size <- 1, m_associativity <- 2, m_num_mshrs <- 2,
  m_latency <- 2, m_ipc <- 2, m_depth <- 2, m_num_expected_insts <- 8,
  MemCapacity <- 2, MaxBacklog <- 2

One == INSTANCE SimpleO3 WITH
  Core <- {0}, NumCores <- 1, Addr <- MCLines, Traces <- MCOneCoreTraces,
  m_linesize_bytes <- 2, m_set_size <- 1, m_associativity <- 2, m_num_mshrs <- 2,
  m_latency <- 2, m_ipc <- 2, m_depth <- 3, m_num_expected_insts <- 8,
  MemCapacity <- 1, MaxBacklog <- 1

ASSUME CoresAssumption ==
  /\ Two!LLCAssumption /\ Two!SimpleO3Assumption
  /\ One!LLCAssumption /\ One!SimpleO3Assumption /\ One!OneCoreOfLines

(* Every trace of up to four entries at two addresses.                      *)
MCTraces == UNION {[1..n -> [is_write : BOOLEAN, addr : {0, 1}]] : n \in 1..4}

T == INSTANCE TraceFrontends WITH
  m_trace <- replayed, i <- loop,
  Traces <- MCTraces, Frontends <- {"LoadStoreTrace", "ReadWriteTrace"},
  frontend_tick <- 2, mem_tick <- 3, Capacity <- 1

ASSUME T!TraceFrontendsAssumption

(* A memory of two channels, two banks, two rows and eight columns (after   *)
(* the prefetch), in transactions of two bytes; the translation uses three  *)
(* of its four pages, and page 5 is beyond its end.                         *)
A == INSTANCE AddressPath WITH
  Cores <- {1, 2}, VPages <- {0, 5}, Offsets <- {0, 3, 10, 31}, NumPages <- 3,
  PageSize <- 32, AddrBits <- <<1, 1, 1, 3>>, TxBytes <- 2,
  Translators <- {"RandomTranslation", "NoTranslation"},
  Mappers <- {"ChRaBaRoCo", "RoBaRaCoCh", "MOP4CLXOR"}

ASSUME A!GeometryAssumption

-----------------------------------------------------------------------------
(* A part that does not run stays where it starts.                          *)
IdleCores     == m_trace = (CHOOSE t \in MCTwoCoreTraces : TRUE) /\ Two!Init
IdleTraces    == replayed = <<[is_write |-> FALSE, addr |-> 0]>> /\ frontend = "LoadStoreTrace" /\ T!Init
IdleAddresses == translator = "NoTranslation" /\ mapper = "ChRaBaRoCo" /\ A!Init

MCInit ==
  \/ setup = "cores" /\ Two!Init /\ IdleTraces /\ IdleAddresses
  \/ setup = "core" /\ One!Init /\ IdleTraces /\ IdleAddresses
  \/ setup = "traces" /\ IdleCores /\ T!Init /\ IdleAddresses
  \/ setup = "addresses" /\ IdleCores /\ IdleTraces /\ A!Init

MCNext ==
  \/ setup = "cores" /\ Two!Next /\ UNCHANGED <<setup, tracevars, addressvars>>
  \/ setup = "core" /\ One!Next /\ UNCHANGED <<setup, tracevars, addressvars>>
  \/ setup = "traces" /\ T!Next /\ UNCHANGED <<setup, corevars, addressvars>>
  \/ setup = "addresses" /\ A!Next /\ UNCHANGED <<setup, corevars, tracevars>>

(* What the setups take over from the fairness of SimpleO3 and of           *)
(* TraceFrontends.                                                          *)
MemoryServesOne ==
  setup = "core" /\ One!MemoryServes(1) /\ UNCHANGED <<setup, tracevars, addressvars>>

MemoryServesTrace ==
  setup = "traces" /\ T!MemoryStep(1) /\ UNCHANGED <<setup, corevars, addressvars>>

MCSpec ==
  /\ MCInit /\ [][MCNext]_allvars
  /\ WF_allvars(MCNext) /\ SF_allvars(MemoryServesOne) /\ SF_allvars(MemoryServesTrace)

-----------------------------------------------------------------------------
(* The properties of the parts; see the modules that state them.            *)

(* Windows, cache sets, registers and lists within their bounds; counters   *)
(* of the trace replay and of the loop; physical pages and addresses.       *)
FrontendsTypeOK ==
  CASE setup = "cores"     -> Two!TypeOK
    [] setup = "core"      -> One!TypeOK
    [] setup = "traces"    -> T!TypeOK
    [] setup = "addresses" -> A!TypeOK

(* The cache agrees with what it has asked of the memory: a line is in      *)
(* flight exactly while a register names it, no store is lost before the    *)
(* memory has accepted a write-back, and no load of a single core waits for *)
(* a callback that will not come.                                           *)
CacheConsistent ==
  /\ setup = "cores" => Two!RegisterPerLineInFlight /\ Two!StoreKept
  /\ setup = "core" => One!RegisterPerLineInFlight /\ One!StoreKept /\ One!EveryLoadWillWake

(* The trace is replayed entry by entry, once, and to its end, while        *)
(* frontend and memory advance at the ratio of their clocks.                *)
ReplayExact == setup = "traces" => T!TraceReplayed /\ T!RatioKept

(* Different addresses select different columns, and none of them is in a   *)
(* page that was reserved, also when pages are given away again.            *)
AddressesKept == setup = "addresses" => A!ReservedKept /\ A!OwnColumn

(* A single core retires the instructions the run asks for, and the         *)
(* simulation of a trace ends, although requests are refused in between.    *)
RunsEnd == (setup = "core" => One!EveryCoreFinishes) /\ (setup = "traces" => T!Ends)
=============================================================================
