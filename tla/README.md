# A TLA+ verification of the AiM simulator

The AiM simulator is a trace-driven simulator of SK hynix's
accelerator-in-memory, built on Ramulator 2.0.  A trace of host instructions is
decoded by a DMA engine, unrolled into requests for many memory channels, and
scheduled by one controller per channel on DRAM whose banks can compute.  The
rest of Ramulator is there too: other frontends, a cache, address translation and
mapping, a generic controller, a timing engine with nine more DRAM standards, and
RowHammer plugins.  This directory models both, checks the models with TLC and
proves the safety of the AiM part, of the timing engine, of the generic controller,
of the cores and their cache, of the trace replay and of the RowHammer plugins with TLAPS.

## The system

| Part | Source (`src/src/...`) | State | Operations |
|---|---|---|---|
| Trace frontend | `frontend/impl/memory_trace/aim_trace.cpp` | position in the trace, one request it could not send | `tick`, `get_host_request`, `receive` |
| Main loop | `main.cpp` | none | ticks frontend and memory system until the frontend is finished |
| AiM DMA | `memory_system/impl/aim_DRAM_system.cpp` | ISR queue, per-channel queues of refused requests, count of blocking requests, configuration registers | `send`, `tick`, `receive` |
| ISR table, requests, buffers | `base/request.h`, `request.cpp` | constant tables; `ReqBuffer` | `enqueue`, `remove`, flags per opcode |
| AiM controller | `dram_controller/impl/AiM_dram_controller.cpp` | five buffers, two queues of issued requests, write mode, register mode | `send`, `priority_send`, `tick` |
| Scheduler | `dram_controller/impl/scheduler/generic_scheduler.cpp` | none | `get_best_request` |
| Refresh manager | `dram_controller/impl/refresh/all_bank_refresh.cpp` | next refresh cycle | `tick` |
| GDDR6-AiM device | `dram/impl/GDDR6.cpp`, `dram/lambdas/`, `dram/node.h` | open rows and earliest issue cycle per node | prerequisites, actions, timing |
| LPDDR4/5 AiM and other standards | `dram/impl/` | as above | as above |
| Generic system and controller | `memory_system/impl/generic_DRAM_system.cpp`, `dram_controller/impl/generic_dram_controller.cpp` | as the AiM controller, without AiM | `send`, `tick` |
| simpleO3 core, LLC | `frontend/impl/processor/simpleO3/` | instruction window, cache sets, MSHRs | `tick`, `send`, `receive` |
| Translation, address mappers | `translation/`, `addr_mapper/` | page table, row indirection table | `translate`, `apply` |
| RowHammer plugins | `dram_controller/impl/plugin/` | activation counters, swap tables | `update` |
| Object framework | `base/` | configuration, factories, statistics | start-up |

The simulator is one thread.  What makes it hard is not threads but the many
actors that share its ticks: the frontend pushes into a queue the DMA pops; a
channel may accept its part of an instruction while another refuses; callbacks
of different channels arrive in any order and re-enter the DMA; in a controller
five buffers compete for one command per cycle, one access takes several
commands (PRE, ACT, RD) over many cycles, and all-bank commands touch banks that
single-bank accesses are using.  `PROJECT.json` lists these hazards, each at its
line, with the properties that cover it.

What makes each part correct:

* DMA and frontend: nothing is lost, duplicated or reordered by refusals; the
  count of blocking requests is exact, so the queue moves on exactly when it
  should; register writes act in program order; a run ends, and ends last.
* Controller: an accepted request is served exactly once; barriers wait; AiM
  requests are issued in order; no scheduling decision can block the channel.
* Device: a bank has at most one open row, and a request is issued only on the
  row it names; the constraints of the levels add up to what a row, a bus and a
  refresh need; every preset gives a consistent device.
* Generic controller: as the AiM one, and writes to one address keep their
  order; refreshes are on time.
* Cache and cores: a load is woken, a store is not lost, registers and lines in
  flight agree.
* Addresses: a reserved page belongs to its core, a column to one address, and an
  indirection leads to the data.
* RowHammer plugins: no row is activated as often as the threshold without its
  victims being refreshed (or, in RRS, without being swapped).

## Modules

| Module | Models | Lines |
|---|---|---|
| `AiMISRInfo` | the opcode table of `base/request.h` | constants only |
| `AiMDRAMSystem` | the AiM DMA with frontend and main loop | state machine |
| `GDDR6` | prerequisites and row actions of a GDDR6-AiM channel | operators |
| `AiMChannel` | abstract: what the DMA relies on in a controller | state machine |
| `AiMController` | one channel's controller, scheduler and refresh manager over `GDDR6` | state machine |
| `AiMController_proofs` | theorems about `AiMController`, and the refinement of `AiMChannel` | proofs |
| `AiMDRAMSystem_proofs` | theorems about `AiMDRAMSystem` | proofs |
| `DRAMNode_proofs`, `LPDDR_proofs`, `GenericDRAMController_proofs`, `SimpleO3_proofs`, `TraceFrontends_proofs` | theorems about the module they are named after | proofs |
| `RowHammer_proofs` | theorems about `Graphene`, `Hydra`, `TWiCe`, `OracleRH` and `RRS` | proofs |
| `SimpleO3LLC` | the last-level cache | operators |
| `SimpleO3` | cores with their windows, over `SimpleO3LLC`, and the main loop | state machine |
| `DRAMStandards` | levels, commands, constraints, prerequisites and actions of seven standards | tables |
| `DRAMTree` | the tree of nodes with its constraints, as constructed | operators |
| `DRAMNode` | the timing engine and row states on that tree | state machine |
| `DRAMPresets` | `set_organization`, `set_timing_vals` and the presets of ten standards | operators |
| `DRAMConfig` | `init` of a device, over `DRAMPresets` | state machine |
| `LPDDR` | the LPDDR5-AiM and LPDDR4-AiM devices | state machine |
| `GenericDRAMController` | the generic system, controller, scheduler and refresh manager, over `DRAMNode` | state machine |
| `AddressPath` | translations and linear mappers | state machine |
| `RowHammer` | banks, activations and refreshes that the plugins see | operators |
| `Graphene`, `Hydra`, `TWiCe`, `OracleRH` | one plugin each, over `RowHammer` | state machines |
| `RIT`, `RRS` | the row indirection table, and the plugin that fills it | operators, state machine |
| `TraceFrontends` | LoadStoreTrace, ReadWriteTrace and the main loop | state machine |
| `MCAiMDRAMSystem`, `MCAiMController`, `MCGenericDRAMController` | instances for TLC of the module they are named after | definitions |
| `MCDevices` | `DRAMNode`, `LPDDR` and `DRAMConfig`, one part at a time | state machine |
| `MCFrontends` | `SimpleO3` twice, `TraceFrontends` and `AddressPath`, one setup at a time | state machine |
| `MCPlugins` | the five plugins, RRS twice, one setup at a time | state machine |

`AiMController` is composed with `GDDR6` (EXTENDS); it is shown to implement
`AiMChannel`, and `AiMDRAMSystem` uses of its controllers only what
`AiMChannel` allows.  `GenericDRAMController` is composed with `DRAMNode`,
`SimpleO3` with `SimpleO3LLC`, `RRS` with `RIT`.

### AiMDRAMSystem

| Variable | Code |
|---|---|
| `trace` (history) | the host requests read so far; an index is the `host_req_id` |
| `remaining_req` | `AiMTrace::remaining_req` after a tick |
| `request_queue` | `request_queue`, by host request id |
| `remaining` | `remaining_AiM_requests` |
| `stalled` | `stalled_AiM_requests` |
| `CFR_values` | `CFR_values` |
| `awaiting` | the blocking requests inside the controllers, whose `callback` is set |
| `delivered` (history) | what every controller accepted |
| `m_trace_reached_calledback` | the same |
| `exc` | which exception ended the program |

`ReadHostRequest`, `ReadThrows` and `ResendHostRequest` are the three outcomes of
`AiMTrace::tick`; `TickDrain`, `TickDecode`, `TickDecodeThrows` and `TickWait` the
four of `AiMDRAMSystem::tick`, each with the ticks of the controllers at its end
and the calls of `receive` these make.  A tick is atomic because the code is
single-threaded.  Frontend and memory ticks interleave freely, which covers
every ratio of their clocks.

A controller is abstracted to two choices per tick: `acc[c]`, how many of the
requests offered to it it accepts (a prefix: the requests of a host request are
all of one type, and a controller that refuses one refuses the rest until its
next tick), and `served`, at most one of the blocking requests it holds.
A channel mask is the set of its bits; the lines of a trace are records from
`HostInputs`, which satisfies what the parser enforces (`HostTemplate`).  It does not
check channels and banks: `apply_addr_mapp` does at decode, and ends the program.  A
conventional access to a channel or bank that does not exist has the empty mask, and
`DecodeThrows` covers it; the bank of an AiM instruction is taken to exist.

### GDDR6 and AiMController

| Variable | Code |
|---|---|
| `buffer` | `m_read_buffer`, `m_write_buffer`, `m_aim_buffer`, `m_priority_buffer`, `m_active_buffer` |
| `pending_reads`, `pending_writes` | the same; `now` marks a departure at the next tick |
| `m_is_write_mode`, `is_reg_RW_mode` | the same |
| `m_row_state` | the `m_row_state` of every bank node (a bank is Closed exactly when it is empty) |
| `arrived` | number of accepted requests; a request's `id` is its position |
| `served`, `issued` (history) | requests finished, requests whose final command went out |

`send` is one action.  `tick` has five outcomes (`TickIdle`, `TickBarrier`,
`TickMode`, `TickFinal`, `TickPrepare`), all of which also serve completed
requests, let the refresh manager act and update the write mode, in the code's
order.  Buffers are sets because list order is order of arrival.

Clocks are abstracted: `ready` is any set of commands that the timing tables
might allow at this tick, and any issued request may have departed.  One
relation between commands is kept, `TimingOK`: in the GDDR6 table every
constraint that delays ACT at a bank has a counterpart that delays ACT16 at
least as long, so ACT16 is not ready while an ACT that some request waits for is
not.  That relation is what keeps ACT16 from overtaking an activation
in the active buffer; `ActiveRowKept` fails without it (its mutant).

### SimpleO3LLC and SimpleO3

| Variable | Code |
|---|---|
| `m_cache_sets` | `m_cache_sets`, lines in LRU order |
| `m_mshrs`, `m_receive_requests` | the same; a register is the address it names |
| `m_miss_list`, `m_hit_list` | the same, with the cycles an entry still waits |
| `m_window`, `trace_idx`, `fetched`, `retired` | `m_window`, `m_curr_trace_idx`, the members `m_num_bubbles`, `m_load_addr` and `m_writeback_addr`, `s_insts_retired` of each core |
| `turn` | where in a cycle the main loop is: misses, hits, a core, the memory |
| `memory` | requests that the memory has accepted |
| `unsaved` (history) | lines with a store that the memory has not been told of |

A cycle is cut where another actor may come in: `TickMisses`, `TickHit`,
`TickHitsDone`, then for each core `TickLoad`, `TickStore`, `TickNoMemory` or
`TickStall`, then the memory.  The memory is external: of the misses it is offered in a
tick it takes any that fit, as one with several buffers might, and `MemoryServes(i)`
answers any of the reads it holds; the callback fills the line, frees the register
and wakes the loads.

### DRAMStandards, DRAMTree, DRAMNode, DRAMPresets, DRAMConfig

`DRAMStandards` holds the tables of DDR3, DDR4, DDR4-VRR, DDR5, HBM, HBM2 and
HBM3 as sets of records, with the lambdas they name; `create_nodes` of `DRAMTree`
attaches them to the nodes of an organisation.  `DRAMNode` interprets them
as `node.h` does: `get_preq_command` descends the tree until a node has a
prerequisite, `update_states` and `update_timing` walk it with siblings,
histories and windows, `check_ready` looks at every node on the path.  Clocks are
relative: how long a command still waits, and how old the entries of a history
are.  An `Issue` and a `tick` are the two actions; `log` is history, the commands
of the last cycles, which the timing properties are stated over.  The constant
`Device` names the devices under check: the table of a standard, its timing
values `V`, its organisation `org` and the requests made of it.

`DRAMPresets` is arithmetic: the sanity check of the density, `nRFC`, `nREFI`,
`nFAW` and the `nRRD`s from tables in nanoseconds, rounded up by
`JEDEC_rounding` or by division, the overrides of the user.  `DRAMConfig` runs
it over all pairs of presets and over one setting of the user.  A read in front
of a table is a choice from `Garbage`.

### LPDDR

`chan` has the state (`Closed`, `Pre-Opened`, `Opened`) and the recorded rows of
every bank, and `synced` for `m_final_synced_cycle >= clk`.
`Issue(q)` is what a controller does for any request at any time: ask for the
prerequisite and issue it.  LPDDR4 differs in names only.  A table entry that the
code sets twice has its last value.  `m_open_rows`, which only a statistic reads,
is left out.

### GenericDRAMController

`buffer` has the four request buffers, `pending` the issued and forwarded reads
with the cycles to their departure, `refresh_in` the refresh manager's counter;
the device is `DRAMNode`'s.  A tick is deterministic: serve, refresh, schedule
with the readiness the device computes, issue.  `send` may come at the
cycles `SendCycles`, counted from the next refresh, so that requests arrive before,
during and after one.

### AddressPath

`RandomTranslation`'s page table, free pages and reserved pages, and the slices
of `ChRaBaRoCo`, `RoBaRaCoCh` and `MOP4CLXOR` on addresses of a few bits.  The
random draw is a choice.

### RowHammer plugins

The actions are what `update` sees: an activation, a refresh of a rank, a cycle.
`Graphene` has its table and spillover counter per bank, `Hydra` the group
counters, row counters and their cache with both eviction policies, `TWiCe` the
entries with their life, `OracleRH` exact counts.  In all of them `acts` is
history, the true number of activations.  `RRS` has a tracker as Graphene's and
the table of `RIT`.  A swap has two effects: the controller's priority buffer must
take its four passes over the columns (`Refused`), and the contents of two rows change
places (`issue_swap`).  The buffer is external: any number of other requests,
`waiting`, may be in it.  `exited` says in which bank's update, and with which
message, the program has called `exit`: the four calls in `issue_swap`, the one in
`get_unswap_pair`, the one in `rit_insert_entry`.  Nothing happens afterwards, so what an update
had changed before it stopped is left out, except by `RIT is full!`.

The rest of `RRS` is history:

| Variable | Meaning |
|---|---|
| `contents` | which row's data a physical row holds, as the reads and writes would move it |
| `astray` | the rows that a second swap in a period has drawn, whose data it loses |
| `twins` | the banks in which it has drawn one row for both |
| `parted` | the rows that it gave a new partner in this period though they were not hot themselves |
| `waiting` | how many requests were in the buffer when it was too full |

### TraceFrontends

The main loop as it is: a counter modulo the tick multiple decides which side is
ticked.  `LoadStoreTick` and `ReadWriteTick` are the two frontends; the memory
system refuses when it is full.

## Runs

| Run | Question | Result |
|---|---|---|
| `traffic` | Do refusals, retries, callbacks and a full ISR queue lose, duplicate or reorder anything? Is the stall counter exact? | holds |
| `control` | Do register writes act in program order? Does every trace end? (liveness) | holds |
| `mask` | Does bit i of a mask name channel i? | violated |
| `mixed` | Accesses, AiM commands and SYNC on one channel: no request lost, one row per bank, no self-blocking, barrier waits | holds |
| `register` | AiM order across register-mode changes; refinement of `AiMChannel` | holds |
| `refresh` | The row properties with refreshes at any tick; is every accepted request served? (liveness) | holds |
| `barrier` | Does a barrier drain the channel? | violated |
| `forward` | Is a read answered only by a write to what it reads? | violated |
| `devices` | Do prerequisites lead to the final command with one row per bank, do the constraints of different levels add up to row, window, refresh and data-bus timings, is every accepted preset consistent? | holds |
| `generic` | Generic controller with timing and refresh of two ranks: order of writes, refreshes on time, every request finishes (liveness) | holds |
| `frontends` | Loads wake, stores are kept, cores and traces end (liveness), replay is exact, addresses are one-to-one and stable | holds |
| `plugins` | Does any plugin let a row reach the threshold, misplace a counter or lose track of moved data, other than what a second swap loses? Does RRS stop when there is room? | holds |

`devices`, `frontends` and `plugins` check several modules that share no state:
a first variable (`part`, `setup`) chooses which one runs, the others stay in an
initial state, and a property names the choice it is about.  Their properties are
conjunctions of named parts, which the component modules state and explain:

| Property | Parts |
|---|---|
| `TimingKept` | `PrechargeTime`, `RowActiveTime`, `RefreshTime`, `PrechargedBeforeRefresh`, `FourActivateWindow`, `DataBusExclusive` of `DRAMNode` |
| `ConfigConsistent` | `RejectedIffContradictory`, `RefreshIntervalKept`, `RefreshFits`, `WindowCoversDistances`, `GivenKept` of `DRAMConfig` |
| `PrerequisitesEnd` | `EveryRequestServed` of `DRAMNode`, `ServedAlone` of `LPDDR` |
| `CacheConsistent` | `RegisterPerLineInFlight`, `StoreKept`, `EveryLoadWillWake` of `SimpleO3` |
| `ReplayExact`, `AddressesKept` | `TraceReplayed`, `RatioKept` of `TraceFrontends`; `ReservedKept`, `OwnColumn` of `AddressPath` |
| `RunsEnd` | `EveryCoreFinishes` of `SimpleO3`, `Ends` of `TraceFrontends` |
| `EverythingServed` | `EveryRequestFinished`, `EveryBankRefreshed` of `GenericDRAMController` |
| `CountsKept` | `EstimateCovers`, `SpilloverBounded` (Graphene), `CacheCoherent`, `CountersInReservedRows` (Hydra), `PruningBounded` (TWiCe), `CountExact` (OracleRH) |
| `IndirectionSound` | `DataFollows`, `ExitsForWantOfRoom` of `RRS`, in both of its setups |

The three violations are disagreements between the code and its own comments:

* `mask`: `FindFirstChannelIndex` returns `MAX_CHANNEL_COUNT - 1 - i` for bit
  `i`, so masks are mirrored with respect to `request.h`'s description and to
  `R|W MEM`, which names its channel directly.
* `barrier`: a request that has moved to the active buffer is in no buffer that
  `send` or `serve_completed_reqs` looks at, so a SYNC accepted after it may be
  called back before it is served.  `BarrierDrainsAllButActive` states what does
  hold.
* `forward`: forwarding compares `addr`, which is -1 in every request of the
  AiM DMA.

### Bounds

* DMA: 2 channels (one may refuse while the other accepts), ISR queue of 2 (it
  fills), traces of up to 4 lines, ending in EOC, any order of the inputs;
  at most 2 columns per instruction (a prefix can be accepted).
* Controller: 2 banks, 2 rows, at most 4 requests, buffers with `max_size` 2
  (that is 3 entries, by the code's `<=`).  Two banks and two rows are enough for
  every prerequisite to occur (closed, hit, conflict, mixed over the banks); four
  requests for an active request, a conflicting one, an all-bank one and a
  barrier at once (three in `refresh`, which has no barrier but refreshes of its own).
* The theorems remove the bounds for the properties they are about.
* `refresh` gives the device a rank: GDDR6 has no rank level, so its refresh
  manager counts -1 ranks and never sends a refresh; devices with ranks do.
  That run keeps GDDR6's single ACT.
* `devices`: timing values of a few cycles that keep the order of the presets'
  (`MCV`); a device has four banks and two rows for the protocol, two bank groups
  for row timings, two ranks for the data bus (with an `nCL` that exceeds `nCWL` by
  no more than `nCS`, see below), five banks for the four-activation window.
  `maxlog` bounds how many commands are sent within the longest constraint, which
  is what the timing properties compare.  LPDDR has three banks.  The configuration part
  takes every preset but the six whose density has no column in the refresh
  tables or contradicts the counts (`MCUncovered`, see below), and eight settings.
  HBM2, HBM3 take part in the protocol only, for the reasons below.
* `generic`: `max_size` 1 (2 entries), three requests sent shortly before a
  refresh (`SendCycles`), so that it meets them in every buffer; two ranks, so that
  one is refreshed while the other works; `nREFI` 22 leaves room for both refreshes
  and the requests.
* `frontends`: three lines for a set of two, two registers, windows of two or three
  instructions, traces that wrap around several times until 8 instructions have
  retired; every trace of up to four entries under clock ratios 2 and 3 with a memory
  of one; four pages, eight columns.
* `plugins`: thresholds of 2 to 6 with tables of one or two entries, so that entries
  are replaced many times before a row is due; Graphene's, Hydra's and RRS's
  periods end by their own reset, TWiCe's runs for 5 refreshes and 4 activations of
  a row.  RRS has two setups.  In `swaps` the period is too short for a row to be hot twice:
  five rows and a table of two pairs go through swaps, swaps of rows swapped before and
  unswaps for room.  In `epoch` it is long enough for a second swap of a row in
  a period, and with three rows for one drawn twice; at most one such swap
  fits a period, so at most one row is parted.  The priority buffers take 8 and 13
  requests where a swap has 4, so that two and three swaps fit
  when it is empty, and not when others wait.  `RIT is full!` is not reached: no row
  is drawn twice in `swaps`, and the table of `epoch` has an entry for every row that may
  be drawn.  Their `VIEW` is `Followed`: of the contents it keeps only what
  `DataFollows` reads, because steps move or keep these whatever the others are.

### Fairness

`AiMDRAMSystem`: weak fairness of the frontend's tick and of the memory
system's tick, which the endless loop of `main.cpp` gives, and, per channel, that
a controller neither refuses a request for ever nor keeps a blocking request for
ever.  The safety half of that contract is the refinement checked in
`register`, the other half `EveryRequestServed`.

`AiMController`: weak fairness of `TickAllReady`, a tick by which all waiting
constraints have ended, which every finite timing table gives; strong fairness of
`TickFinal` for an active request whose row is open, because a row stays open for
`nRAS`, which is longer than the `nRCD` after which the access is ready.

`GenericDRAMController` needs only that the device and the controller go on
ticking: readiness is computed.  `MCFrontends` has weak fairness of the main loop
and strong fairness of the memory's serving what it holds (and of its freeing a
place for a trace entry): the memory is external there, and `EveryRequestFinished`
says so of the generic one.

### Disagreements observed

These were seen when a model was first checked, and confirmed in the source.
Where a property fails because of one, the run's instance stays on the side where
it holds, as said under Bounds.

* `llc.cpp:42`: a matured hit assigns `m_receive_requests[addr]`.  With two cores, if
  its line was evicted and missed again meanwhile, the requests of the new miss are
  overwritten and never called back (`core.h:75`: "Called by the callback when a
  request is served by the memory").  `EveryLoadWillWake` fails with two cores.
* `llc.cpp:156`: the callback of such a hit marks the refetched line ready before
  its data arrived (`llc.h:27`: "Whether this line is ready (i.e., is still
  inflight?)").
* `DDR3.cpp:383`: a write to another rank waits `nBL + nCS` after a read, a read
  `nCL + nBL + nCS - nCWL` after a write: the correction by `nCL - nCWL` is on the
  wrong one.  With DDR3_2133M (13, 9, nCS 2) the bursts overlap, against "nCS (rank
  switching) is needed for new DQS" (line 382).  DDR4 and DDR5 have the same lines.
* `DDR5.cpp:480`: `REFsb` has the scope bank group, so `check_ready` never reaches
  the bank where `REFsb -> REFsb` is constrained: two follow back to back.  `PREsb`
  occurs in no constraint at all (`DDR5.cpp:56`).
* `HBM2.cpp:336`, `HBM3.cpp`: constraints of `REFab` and `PREA` are stated for the
  pseudo channel, but the address has none and `update_timing` stops at the channel:
  `nRFC` is not waited for.
* `HBM3.cpp:79`: `RFMsb` has no prerequisite, so `get_preq_command` returns `true`
  (`node.h:183`), the number of PRE: a per-bank-rfm request precharges for ever.
* `HBM2.cpp:14`, `HBM3.cpp:14`: the 8 Gb preset states the density 6<<10, its counts
  make 8<<10, and the sanity check rejects it always.
* `GDDR6.cpp:678`, `HBM.cpp:261`, `LPDDR5.cpp:589`: `density_id` is -1 for densities
  without a column (GDDR6_AiM_org's 128 Gb among them) and the table is read in
  front of its first entry; the check for "uninitialized timings" passes.
* `LPDDR5.cpp:516`: `tCK_ps` is recomputed as 312 ps where the preset says 1250, so
  `nREFI` and `nRFC` are four times too many cycles.
* `GDDR6.cpp:707`: `nCLREG`, `nCLGB`, `nCWLREG`, `nCWLGB` and `nWPRE` are assigned
  after "Overwrite timing parameters with any user-provided value" (line 681); LPDDR
  does the same.
* `random_translation.cpp:82`: `m_free_physical_pages` is never written, so an
  assigned page is drawn again although others are free (line 74: "We do not assign
  [...] an already assigned page").
* `no_translation.cpp:25`: "Just wrap the vaddr around max_paddr" (line 23); the line
  that did is a comment.
* `all_bank_refresh.cpp:33`: HBM, HBM2, HBM3 and GDDR6 have no rank level, `-1` ranks
  are counted, and nothing is refreshed.
* `generic_dram_controller.cpp:228`: the address of a refresh ends at the rank and
  never equals an active request's, so its PREA closes rows opened for them.
* `generic_dram_controller.cpp:59`: a write that moved to the active buffer is not
  forwarded from, and a later read of its address may go first.
* `generic_dram_controller.cpp:146`: a forwarded read waits behind reads that depart
  later (line 60: "will depart at the next cycle").
* `rrs.cpp:278`: when a row swapped in this period is hot again, it and its partner are
  swapped with two rows drawn for them: four rows move in a cycle, and the table gets
  two pairs.  They lead to the data of the hot row and of its partner; requests for
  the two drawn rows reach other data from then on.  `DataFollows` says
  exactly that: it is about all rows but these (`astray`).
* `rrs.cpp:266`: the two rows are drawn independently and may be the same one.  Its entry is then
  overwritten, the table no longer consists of pairs, and it may
  overflow although `is_rit_full` was asked; the properties are about the other banks (`twins`).
  `rrs.cpp:103` may draw the row after the last.
* `rrs.cpp:376`: a swap is pushed into the priority buffer at once, and the program exits when
  it does not fit.  The generic controller sizes the buffer for three swaps of 128
  columns (`generic_dram_controller.cpp:48`, `512*3 + 32`), which is the most
  that one update issues; an update that meets what is left of an earlier swap may stop.
* `rit.cpp:135`: "Should not happen!" may happen with the size the authors compute, two
  entries per tracker row (`rh_study/calc_rh_parameters.py:31`): after a second
  swap in a period, pairs are locked whose rows are not in the tracker.
* `rit.cpp:65`: requests that wait while their row is swapped keep their old row.
* `readwrite_trace.cpp:40`: reads and writes are exchanged, and the address vectors
  replaced by those of address -1; `is_finished` (line 93) ends the run after one
  tick.
* `LPDDR5.cpp:859`: ACT-2 uses `Bank::ACT`, whose assertions (`action.h:20`) want a
  closed bank without rows; a request in between may complete the activation with
  another row.  `LPDDR5.cpp:840` and `1019` replace the action and the prerequisite of
  WRA16 set before, so it neither finds the rows open nor closes them.
* `LPDDR5.cpp:423`, `GDDR6.cpp:507`: `m_open_rows` has a bit per bank within the
  group, so banks of the same number share one; the precharged-cycle statistic is off.

## Theorems

Each theorem is for every value of the constants that the named assumptions of
the modules allow, and for runs of every length.  `TypeOK` apart, the invariants
are not inductive; the inductive ones are given below.

| Module | Theorem | Establishes |
|---|---|---|
| `AiMController_proofs` | `TypeCorrect`, `OneRow`, `OneActive`, `RowKept`, `NoSelfBlocking` | `TypeOK`, `OneRowPerBank`, `OneActivePerBank`, `ActiveRowKept`, `ActiveNeverBlocksItself` |
| | `ActiveNeverFull` | the enqueue into the active buffer, whose result the code ignores, succeeds |
| | `NothingLost`, `IssuedInOrder` | `NoRequestLost`, `AiMIssuedInOrder` |
| | `BarriersDrain` (action property) | `BarrierDrainsAllButActive` |
| | `RefinesChannel` (refinement) | `ImplementsChannel`: the controller implements `AiMChannel` |
| `AiMDRAMSystem_proofs` | `TypeCorrect`, `CounterIsExact`, `ReceiveIsSafe`, `Blocking`, `InOrder`, `NothingDropped`, `EndOfTrace` | `TypeOK`, `StalledExact`, `ReceiveNeverThrows`, `BlockedUntilServed`, `DeliveryInOrder`, `CompletedIsDelivered`, `EOCIsLast` |
| | `SingleCompletion` (action property) | `OneCompletionPerTick` |
| | `ConfigOrder` | `ConfigInProgramOrder` |
| `DRAMNode_proofs` | `OneRow`, `Served`, `Types` | `OneRowOpen`, `EveryRequestServed`, `TypeOK` |
| | `RefreshesFindClosed` (action property) | `RefreshesClosedBanks` |
| | `TimingConstraints` | `ConstraintsKept`: every entry of the timing table is respected between all commands sent |
| | `DistancesKept` | `TimingKept`, on every device whose tables are `Covering` |
| `LPDDR_proofs` | `Types`, `NoCycle` | `TypeOK`, `ServedAlone` |
| `GenericDRAMController_proofs` | `NothingLost`, `GenericTypes` | `NoRequestLost`, `GenericTypeOK` |
| | `WriteOrder` (action property) | `WritesInOrder` |
| `RowHammer_proofs` | `OracleExact`, `OracleBound` | `CountExact`, `HammerBound` of `OracleRH` |
| | `TWiCeTypes`, `TWiCePruning` | `TypeOK`, `PruningBounded` of `TWiCe` |
| | `GrapheneTypes`, `GrapheneEstimates`, `GrapheneSpillover`, `GrapheneBound` | `TypeOK`, `EstimateCovers`, `SpilloverBounded`, `HammerBound` of `Graphene` |
| | `HydraTypes`, `HydraCoherent`, `HydraBound`, `HydraReservedRows` | `TypeOK`, `CacheCoherent`, `HammerBound`, `CountersInReservedRows` of `Hydra` |
| | `RRSTypes`, `RRSBound`, `RRSDataFollows`, `RRSExitsForWantOfRoom` | `TypeOK`, `HammerBound`, `DataFollows`, `ExitsForWantOfRoom` of `RRS` |
| `SimpleO3_proofs` | `CoreTypes`, `RegistersAgree`, `StoresKept`, `LoadsWake` | `TypeOK`, `RegisterPerLineInFlight`, `StoreKept`, `EveryLoadWillWake` |
| `TraceFrontends_proofs` | `TraceTypes`, `Replayed`, `ClockRatio` | `TypeOK`, `TraceReplayed`, `RatioKept` |

Some theorems have a hypothesis besides, which the model defines next to what it is
for and TLC evaluates for the instances of the runs: `Covering`, `CountersFill`,
`OneCoreOfLines`, `BanksFit`.  Each is explained below.

### The controller's rows

Assumed: `ControllerAssumption` (finitely many banks, no more than the entries of a
buffer; inputs as the DMA builds them) and `BanksAssumption`.

`OneRowPerBank` is not inductive: ACT16 adds its row to every bank, and an ACT
may be issued for an active request whose bank meanwhile changed.  The inductive
invariant is `RowInv`: one row per bank, one active request per bank, and the
open row of a bank with an active request is that request's (`ActiveRowKept`).
The last needs `TimingOK`: when ACT16 is issued for an all-bank request, no
active request can be waiting for an ACT, for it would have been ready and the
active buffer comes first; so all banks with active requests have their row
open, and a bank whose row differs from the all-bank request's gets PREA, not
ACT16.  `OneActivePerBank` follows because a request enters the active
buffer by an ACT, which only a closed bank needs, and an active request of that
bank would have been ready for the same command first.  `NoSelfBlocking` follows
from `ActiveRowKept`: an active request then needs ACT or its final command,
never PRE.  `ActiveNeverFull` maps active requests injectively to banks.

### The controller's requests, and its contract

`Held` names the eight places a request may be in, and `Placed(Held, arrived)` says
that each id up to `arrived` is in exactly one of them.  Every part of a tick is
shown to be a `Moves` from one place to another, which keeps `Placed`
(`MovePlaced`), so the whole tick does, in the code's order: serve, refresh, issue
or activate.  A move to the active buffer keeps the request because of
`ActiveNeverFull`.

`AiMIssuedInOrder` and the barrier property need three more facts, joined in
`DeliveryInv`: AiM requests never wait together with conventional ones in the read or write
buffers (`Exclusive`, which the refusals of `send` are for), what was issued is in
`pending_reads`, `pending_writes` or served (`IssuedInv`), and an issued AiM request is
older than all that waits outside the active buffer (`OrderInv`).

The refinement of `AiMChannel` maps `awaiting` to the blocking requests that are
accepted and not served, and `calledback` to the served ones.  A `send` of a blocking
request is `Accept`, because its id is the next one; a tick that serves one is
`CallBack` of the oldest, because `pending_reads` is served from its head and is in
order of age (`OrderInv`); every other step stutters.

### The DMA

Assumed: `SystemAssumption`, nothing else.  That is any number of channels, queue
capacity and trace whose lines satisfy `HostTemplate`, and any refusals and
callbacks of the controllers.

`receive` is safe only because all that is
outstanding belongs to the head; that is kept only because the queue holds
consecutive ids; the counter is exact only because no request is offered twice,
which is delivery in order.  The inductive invariant `DmaInv` therefore joins
them:

* `QueueInv`: the queue holds the ids after `Completed`, is not empty while its
  head is decoded, and EOC is the last line read;
* `HeadInv`: everything undelivered or awaited is of the head, the counter is the
  size of `Outstanding`, nothing of a later host request was delivered, and every
  request of a decoded head is with its channel or still to be delivered
  (`Covered`);
* the properties `TypeOK`, `DeliveryInOrder`, `CompletedIsDelivered`, `EOCIsLast`.

All ticks are one argument.  `Offered(pend, n)` says that `pend` is what is left of
the head and `n` its blocking requests; `Delivers` is what a tick does with an
offer.  `DeliverInv` shows that a tick on an offer keeps the invariant, `OldOffer`
that `remaining` is one, `NewOffer` that the unrolled head is one.  The latter rests
on `StallsCounts`: `opsize` times the number of target channels counts the requests,
by a bijection between pairs (column, channel) and requests.

`ConfigOrder` adds `ConfigInv`: the registers hold what the trace has written up to the
last decoded line (`Registers`), which is not the last line read, for the frontend is
ahead of the DMA by the queue; and requests carry the values of their own line, both those
delivered and those that wait after a refusal.  Reading a line leaves the value at
all earlier ones alone; decoding a `W_CFR` sets the value at its line (`NextValue`).

### Devices

Assumed: `DeviceAssumption`, that the tree is the one `create_nodes` builds, that windows
are at most 4, and `Conforms`: which preconditions and actions the entries of the tables
combine.  TLC evaluates it for every standard of the runs.  Numbers of ranks,
groups, banks and rows, and the timing values, are arbitrary.

`OneRow` rests on the preconditions: ACT is the prerequisite of a request only for a
closed bank.  `Served` follows the chain of prerequisites: PRE, PREA or PREsb closes all
that the final command asks for at once, and ACT opens its row.

`TimingConstraints` compares the real past with what the code keeps of it.  The code
keeps a deadline per node and command, and per node and command a queue of the times of
the last `window` commands; the log keeps all.  The constraint between two
commands need not be between neighbours, and the code computes it when the first of them
is sent, by looking `window` places back.  `TimingInv` therefore says that the queues
cover the log (`HistoriesCover`: the w-th entry is not older than any w-th last
command of the log) and that the deadlines cover it too (`WaitsCover`: a constraint of
latency L after a command of age a keeps the deadline at L - a or later).  A step of time
lowers deadlines and ages together; a command sent adds an entry at the front of each and
the deadlines that its constraints ask for; `check_ready` visits every node at which a
constraint may be stated.

`DistancesKept` goes from single constraints to what banks, ranks and the data bus
need. `check_ready` asks the nodes on a command's path and `update_timing` tells the
nodes on the path, their siblings and the banks of the same number, so a constraint
works between two commands exactly when it is stated at a level both pass. `Covering`
says of a table, and of nothing else, that every distance is some constraint at such a
level: `CoversBank` for precharge, activation and refresh, `CoversWindow` for four
activations, `CoversBus` for the bursts, either of a channel or of a rank and its
siblings. The invariant is `TimingInv` and that the log holds only what a controller
sends for some request (`LogSent`), whose scopes decide the paths. TLC evaluates
`Covering` for the 15 devices of the runs (`CoveringAssumption`), with the runs'
timing values: for the timed DDR3, DDR4, DDR5 and HBM devices it is a fact about their
tables, for the protocol's devices, whose values are one cycle, nothing is asked. Not
every preset is covering: those with `nCL - nCWL > nCS` do not keep
bursts of two ranks apart, and HBM2, HBM3 and DDR5 state constraints where no path
leads, as said under the disagreements.

`RefreshesFindClosed` is about what a step sends, `Types` adds the bounds of the
queues and ages.

For LPDDR, `Types` is inductive, and `NoCycle` is a case analysis: the four commands are
a synchronisation, a precharge and two halves of an activation.

### The generic controller

Assumed: what is assumed of devices, `GenericAssumption` (sizes and the refresh interval are
positive) and `AccessAssumption` (accesses are addresses of the device, and its
standard knows reads, writes and refreshes).

The invariant is `RequestInv`. `DistinctInv` says that no buffer holds a request
twice, `KindInv` that buffers hold requests of their own type, `AgeInv` that the write
buffer is in order of arrival and that an active write is older than every waiting one
of its address, `PlaceInv` that every id is in one place or done, as above. For the
age of writes the scheduler matters: requests of one address have the same next
command and are ready together, so `compare` takes the older one (`get_best_request`
returns the first of the best). `GenericTypeOK` needs `TimesInv` besides, with the
bounds of clocks and departures.

`NothingLost` has `BanksFit` as a hypothesis: there are no more banks than `max_size`.
The active buffer takes one request per bank, and the code ignores the result of its
`enqueue`. With the 32 entries of the code this covers devices of up to 32 banks,
among them DDR3, DDR4 and HBM with one rank and many of theirs with two; it does not
cover DDR5 with two ranks, which has 64 banks. The run `generic` has two entries for
two banks.

### The RowHammer plugins

Assumed: `RowHammerAssumption` and the assumption of the plugin.  Numbers of ranks, groups,
banks and rows, thresholds, table and cache sizes are arbitrary within them.

All of them need that the tables are not mixed up: `flat_bank_id` is a number with the
rank, the group and the bank as its digits, so it tells the banks apart and stays
within the tables (`TableOfBank`).

`OracleRH`: the counter of a row is the number of its activations, wrapped at the
threshold as the code wraps it. `TWiCe`: what an entry has lost is bounded by
`Forgotten`, the pruning threshold for each interval that the entry did not live
through; an entry is pruned only when it has fewer activations than the threshold for
each interval of its life, so that pruning it keeps the bound (`IntervalForgets`).

`Graphene`: `Cells` is a table as a set with one element for each activation that it
counts. Every activation adds one cell or one to the spillover counter, so their
number is at most that of the activations (`Sound`), also when a row takes over the
place, and the count, of another (`ReplacedSound`). As every entry is at least the
spillover counter, the table has room for a rectangle of entries times that counter
below its cells, and the counter is no more than the average (`SpillBelowAverage`).
With the size that the authors require it never reaches the threshold, which is why
the code may insert a row without a look at it.

`Hydra`: `Covered` relates the four places that count. A row is counted by its group
until the group is hot, then by its own counter, which starts at the group's; a
counter can be cached only when the group's are initialized, so that the
initialization does not pass by a cached counter. The cache is one table for the banks
of a rank: that two rows never share an entry is again a fact about digits, of set and
tag (`EntryOfRow`).

`HydraReservedRows`: the row of a counter is had from the row it counts when it is
fetched, and from set and tag when it is evicted. Tags in the cache are numbers
(`Tags`), so the second is the row that was fetched, below the number of rows; the
division into lines and the rounding up of the number of reserved rows then agree
(`CounterRows`). Hypothesis `CountersFill`: counters fill lines and the counters of a
bank fill whole lines, as with the 8 or 16 bits and powers of two in use.

`RRS`: `Tracked` is Graphene's argument for a tracker with room, whose counts are not
reduced: the rest of a count modulo the threshold covers the activations since the
last swap, and the spillover counter is no more than the average, thus below the
threshold. Rows are activated at most once in a clock, so a period of the size that
`RRSAssumption` allows has too few activations for more. That gives `RRSTypes` and
`RRSBound`.

`RRSDataFollows` and `RRSExitsForWantOfRoom` need no more than the assumptions on
the constants, and `DataInv`, which holds of every bank where no row was drawn twice
(`BankSound`). Entries come in pairs that lead to each other (`Pairs`), and the data of
every row that is not `astray` are found where the table leads (`FoundFor`).
An unswap moves both rows back to themselves (`UnswapFinds`), a swap of two rows that are in no
pair keeps what is found (`SwapFinds`); a second swap, `NewPartnersSound`, is
followed row by row: it takes two entries out and puts four in, and only the
two drawn rows are found elsewhere. That a drawn row is in no pair and in no
tracker is the guard of `get_rand_row`.

The exits: no update issues more than three swaps (`AtMostThreeSwaps`), so a
buffer that refuses would refuse three. With a table of even size there is room for a
pair where `is_rit_full` says so or a pair was taken out (`Fits`), and a second
swap takes one pair out before it puts two in; so `RIT is full!` needs
an odd size or a row drawn twice. A pair cannot be unswapped if one of its rows is in the
tracker or it is locked, and an entry is locked only if one of its rows has been hot since
the reset, which then is in the tracker still, or was parted from its partner
(`LocksHeld`). If that is so for all pairs of a full table, at least one of
those rows is left over (`NoPairLeft`), so the table has fewer than two entries
for each of them. A table of two entries for each row of the tracker is thus
always large enough until a second swap parts a row.
TLC evaluates `CountersFill` for the runs' sizes (`PlacesAssumption`).

### The cores and their cache

Assumed: `LLCAssumption`, `SimpleO3Assumption`: addresses are numbers, sizes positive,
traces not empty. Any number of cores, sets, ways and registers, any latency, any
order of the replies.

`Inv` joins what the cores and the cache rely on in each other. `CacheInv`: a set is
never larger than the associativity and holds no tag twice, and the lines not ready
are exactly those of the registers, one register per line (`RegistersAgree`). A miss
takes a register only when no register names the line, and the victim of an eviction
is never a line in flight, so that a reply always finds its line. `SavedInv`: a line
with a store the memory has not seen is dirty in its set, or its write-back waits in
the miss list (`StoresKept`); an eviction moves it from the one to the other in a
step, whichever the actor. `MemoryInv`, `CoresInv` and `TurnInv` are ranges,
`CoreTypes` what follows.

`LoadsWake` needs `WakeInv` besides: each register has its read in the miss list or
the memory (`FetchInv`), a nonempty list of waiters has its register, and a load that
is not ready has a hit on its way or waits in the list of its line. Hypothesis
`OneCoreOfLines`: one core that accesses lines at their first address. Else the
theorem is false: a hit that matures after its line was evicted and missed again
assigns the list of waiters (`llc.cpp:42`) and drops the others in it, see the
disagreements. With one core all in the list wait for the same address, and the late
hit wakes them.

### Trace replay

Assumed: `TraceFrontendsAssumption`: traces are not empty, clock ratios and the
capacity of the memory system positive.

`Replayed`: `ReplayInv` says that `m_trace_count` requests were accepted, that they
are the trace's first, that the index is the count until the trace is exhausted, when
it wraps, and that the loop is done exactly then. Only `LoadStoreTrace` replays;
`ReadWriteTrace` ends after one tick (see the disagreements), and `Loads` excludes it.

`ClockRatio`: a side is ticked when the loop's counter is a multiple of its divisor,
and `Ticks(c, x, n)` says that `c` is the number of multiples of `n` below `x`.
`LoopInv` keeps that for both sides (`Shares`); the counts restart before the round
ends, when both have had their share and no tick is due until the counter wraps.

### What is only model-checked

* Liveness, of every module: `EventuallyFinished`, `EveryRequestServed`,
  `EverythingServed`, `RunsEnd`. The prover has neither ENABLED nor fairness.
* `RefreshBeforeNext`: a bound on how long the active buffer can hold up a refresh,
  which depends on how the timing values add up.
* Facts about the standards' tables: that the devices of the runs satisfy `Conforms`
  and `Covering`, which `TimingKept`'s theorem asks for, and `ConfigConsistent`
  (presets). TLC evaluates them on the tables.
* `AddressesKept`: the mapper `MOP4CLXOR` combines slices by exclusive or, and no
  theorem can be stated in a module that uses `Bitwise`.
* `DevicesTypeOK`, `PrerequisitesEnd`, `FrontendsTypeOK`, `CacheConsistent`,
  `ReplayExact`, `PluginsTypeOK`, `HammerBound`, `CountsKept` and `IndirectionSound`
  of the runs are conjunctions over the modules that a run joins. A theorem proves
  each of their parts for the module it is about, except for `DRAMConfig` and
  `AddressPath`, which have no theorems; the conjunctions are statements about a run.
* What a recursive function computes for all inputs cannot be proved here. Where an
  argument by induction is needed the proofs use that a set of naturals has a least
  element (`LeastNatural`), from the library's facts on well-founded relations.

## Not modelled, and the plan

* Object framework: parsing, configuration, factories, statistics, logging.  No
  state the properties tell apart, and string handling throughout.
* Dummy memory system and controller, recording plugins, gem5 wrapper, examples:
  stubs, pure output, or a forwarded call.
* PARA draws a random number per activation and keeps no state; `trr.cpp` is
  commented out of the build.
* Data values: the simulator carries none.
* The GDDR6 and LPDDR timing tables in full.  The AiM controller uses one relation of
  the former (`TimingOK`); for LPDDR only the clock synchronisation is kept.
* Per-bank refresh (LPDDR `REFpb`): nothing sends it.
* More than one channel in `GenericDRAMController`: its channels share nothing but
  the system's `send`.

Left for the proofs: `RefreshBeforeNext` of `GenericDRAMController`, by a bound on the life of an active request,
and the presets' `ConfigConsistent`; `OwnColumn` of `AddressPath` is out of the prover's reach.
