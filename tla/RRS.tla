--------------------------------- MODULE RRS ---------------------------------
(***************************************************************************)
(* The plugin RRS, randomized row swap (dram_controller/impl/plugin/rrs.cpp) *)
(* and the row indirection of the address mapper.  A tracker like           *)
(* Graphene's counts the activations of each row; whenever a count reaches a *)
(* multiple of the threshold, the row is swapped with a random one.         *)
(*                                                                          *)
(* A swap is sent to the controller's priority buffer, whose other requests  *)
(* (refreshes, and what is left of earlier swaps) are external: any number   *)
(* of them may be waiting.                                                  *)
(*                                                                          *)
(* The simulator moves no data.  The last six variables are history, on     *)
(* which no step depends.                                                   *)
(***************************************************************************)
EXTENDS RowHammer, RIT

CONSTANTS m_num_hrt_entries, m_reset_period_clk,
          m_num_cls,              \* requests that read or write a row
          max_size                \* of the controller's priority buffer

(* Rows are numbered from 0, and the tracker is large enough for a period.  *)
RRSAssumption ==
  /\ m_num_hrt_entries \in Nat \ {0} /\ m_reset_period_clk \in Nat \ {0}
  /\ m_reset_period_clk < Threshold * (m_num_hrt_entries + 1)
  /\ m_num_cls \in Nat \ {0} /\ max_size \in Nat
  /\ Rows = 0..(Cardinality(Rows) - 1)

VARIABLES m_clk,                  \* modulo the period
          m_hot_row_tracker,      \* flat bank -> row -> count
          m_spillover_counter,    \* flat bank -> count
          m_row_indirection_table, \* flat bank -> RIT
          exited,                 \* flat bank -> why its update has called exit(1)
          acts,      \* activations of a row since a reset or since it was hot
          contents,  \* the row whose data a physical row holds
          waiting,   \* requests found in the priority buffer that was too full
          astray,    \* the rows that a second swap in a period has drawn
          twins,     \* the banks where it has drawn one row twice
          parted     \* the rows it has given a new partner, in this period

history == <<acts, contents, waiting, astray, twins, parted>>
vars == <<m_clk, m_hot_row_tracker, m_spillover_counter, m_row_indirection_table,
          exited, history>>

m_num_rows_per_bank == Cardinality(Rows)

(* The random numbers that are drawn: one more than there are rows.         *)
distribution == 0..m_num_rows_per_bank

Init ==
  /\ m_clk = m_reset_period_clk - 1
  /\ m_hot_row_tracker = [t \in Tables |-> [r \in {} |-> 0]]
  /\ m_spillover_counter = [t \in Tables |-> 0]
  /\ m_row_indirection_table = [t \in Tables |-> EmptyRIT]
  /\ exited = [t \in Tables |-> "no"]
  /\ acts = [t \in Tables |-> [r \in distribution |-> 0]]
  /\ contents = [t \in Tables |-> [r \in distribution |-> r]]
  /\ waiting = 0 /\ twins = {}
  /\ astray = [t \in Tables |-> {}] /\ parted = [t \in Tables |-> {}]

-----------------------------------------------------------------------------
(* update *)

Now == (m_clk + 1) % m_reset_period_clk

(* The state with which an update starts: at the end of a period, trackers  *)
(* are emptied and entries unlocked.                                        *)
HRT    == IF Now = 0 THEN [t \in Tables |-> [r \in {} |-> 0]] ELSE m_hot_row_tracker
Spills == IF Now = 0 THEN [t \in Tables |-> 0] ELSE m_spillover_counter
RITs   == IF Now = 0 THEN [t \in Tables |-> rit_unlock(m_row_indirection_table[t])]
          ELSE m_row_indirection_table
Acts   == IF Now = 0 THEN [t \in Tables |-> [r \in distribution |-> 0]] ELSE acts
Parted == IF Now = 0 THEN [t \in Tables |-> {}] ELSE parted

Running == \A t \in Tables : exited[t] = "no"

Idle ==
  /\ Running
  /\ m_clk' = Now
  /\ m_hot_row_tracker' = HRT /\ m_spillover_counter' = Spills /\ m_row_indirection_table' = RITs
  /\ acts' = Acts /\ parted' = Parted
  /\ UNCHANGED <<exited, contents, waiting, astray, twins>>

WithCount(hrt, r, count) == [x \in DOMAIN hrt \cup {r} |-> IF x = r THEN count ELSE hrt[x]]

(* The trackers in which r replaces a row with the spillover count.         *)
Replacing(hrt, r, spill) ==
  {WithCount(Restrict(hrt, DOMAIN hrt \ {e}), r, spill + 1) : e \in {x \in DOMAIN hrt : hrt[x] = spill}}

HasRoom(hrt) == Cardinality(DOMAIN hrt) < m_num_hrt_entries

(* The trackers that count an activation of row r; none if it spills over.  *)
Counting(hrt, r, spill) ==
  IF r \in DOMAIN hrt THEN {WithCount(hrt, r, hrt[r] + 1)}
  ELSE IF HasRoom(hrt) THEN {WithCount(hrt, r, 1)}
  ELSE Replacing(hrt, r, spill)

(* The rows that get_rand_row may return; it never does if there are none.  *)
get_rand_row(hrt, rit, r) == distribution \ (DOMAIN hrt \cup DOMAIN rit \cup {r})

(* What the four passes over the columns of two rows move.                  *)
issue_swap(c, src, dst) == [c EXCEPT ![src] = c[dst], ![dst] = c[src]]

(* priority_send refuses a request of the swaps when so many are waiting:   *)
(* the buffer takes one more than its size.                                 *)
Refused(n, swaps) == n + 4 * m_num_cls * swaps > max_size + 1

(* The table and the contents of a bank, where there is room for a pair,    *)
(* and the swaps that were issued.                                          *)
MakingRoom(rit, c, hrt) ==
  IF ~is_rit_full(rit) THEN {[rit |-> rit, c |-> c, swaps |-> 0]}
  ELSE {[rit |-> rit_remove_entry(rit, pair[1], pair[2]), c |-> issue_swap(c, pair[1], pair[2]),
         swaps |-> 1] : pair \in get_unswap_pair(rit, DOMAIN hrt)}

(* A row that is in no pair.                                                *)
SwapNew(rit, c, hrt, r) ==
  UNION {{[rit |-> rit_insert_entry(u.rit, r, dst), c |-> issue_swap(u.c, r, dst),
           swaps |-> u.swaps + 1, drawn |-> {}] : dst \in get_rand_row(hrt, u.rit, r)} :
         u \in MakingRoom(rit, c, hrt)}

(* One that was swapped in an earlier period: unswapped, then swapped.      *)
SwapAgain(rit, c, hrt, r) ==
  LET prev == rit[r].dst_row
  IN  {[rit |-> rit_insert_entry(rit_remove_entry(rit, r, prev), r, dst),
        c |-> issue_swap(issue_swap(c, r, prev), r, dst), swaps |-> 2, drawn |-> {}] :
         dst \in get_rand_row(hrt, rit, r)}

(* Mutant: a row gets the partner that it is swapped with.                  *)
NewPartnersStraight(u, r, prev, dst0, dst1) ==
  [rit |-> rit_insert_entry(rit_insert_entry(rit_remove_entry(u.rit, r, prev), r, dst0),
                           prev, dst1),
   c |-> issue_swap(issue_swap(u.c, r, dst0), prev, dst1),
   swaps |-> u.swaps + 2, drawn |-> {dst0, dst1}]

(* Each of two paired rows is swapped with a row drawn for it, and gets the *)
(* other one's as its partner: that is where its data are.                  *)
NewPartners(u, r, prev, dst0, dst1) ==
  [rit |-> rit_insert_entry(rit_insert_entry(rit_remove_entry(u.rit, r, prev), r, dst1),
                           prev, dst0),
   c |-> issue_swap(issue_swap(u.c, r, dst0), prev, dst1),
   swaps |-> u.swaps + 2, drawn |-> {dst0, dst1}]

(* One that was swapped in this period.                                     *)
SwapBoth(rit, c, hrt, r) ==
  UNION {{NewPartners(u, r, rit[r].dst_row, d[1], d[2]) :
            d \in get_rand_row(hrt, u.rit, r) \X get_rand_row(hrt, u.rit, r)} :
         u \in MakingRoom(rit, c, hrt)}

SwappedNow(rit, r)    == r \in DOMAIN rit /\ rit[r].lock
SwappedBefore(rit, r) == r \in DOMAIN rit /\ ~rit[r].lock

(* What may become of a bank's table and contents when row r is hot.        *)
Swaps(rit, c, hrt, r) ==
  IF SwappedNow(rit, r) THEN SwapBoth(rit, c, hrt, r)
  ELSE IF SwappedBefore(rit, r) THEN SwapAgain(rit, c, hrt, r)
  ELSE SwapNew(rit, c, hrt, r)

(* The numbers of swaps an update may try to issue: all of them, or the one *)
(* that makes room, after which a row is still to be drawn.                 *)
Sendings(rit, c, hrt, r) ==
  {s.swaps : s \in Swaps(rit, c, hrt, r)}
    \cup {u.swaps : u \in IF SwappedBefore(rit, r) THEN {} ELSE MakingRoom(rit, c, hrt)}

(* A pair must be unswapped to make room, and there is none.                *)
NoPair(rit, hrt, r) ==
  /\ ~SwappedBefore(rit, r)
  /\ is_rit_full(rit)
  /\ get_unswap_pair(rit, DOMAIN hrt) = {}

Count(t, r) ==
  /\ acts' = [Acts EXCEPT ![t][r] = @ + 1]
  /\ m_row_indirection_table' = RITs
  /\ parted' = Parted
  /\ UNCHANGED <<exited, contents, waiting, astray, twins>>

(* Row r is swapped.                                                        *)
Swapping(t, r, hrt) ==
  \E s \in Swaps(RITs[t], contents[t], hrt, r) :
    /\ ~Refused(0, s.swaps)                 \* fewer may be waiting
    /\ m_row_indirection_table' = [RITs EXCEPT ![t] = s.rit]
    /\ contents' = [contents EXCEPT ![t] = s.c]
    /\ exited' = [exited EXCEPT ![t] = IF RITOverflows(s.rit) THEN "RIT is full!" ELSE "no"]
    /\ astray' = [astray EXCEPT ![t] = @ \cup s.drawn]
    /\ twins' = IF Cardinality(s.drawn) = 1 THEN twins \cup {t} ELSE twins
    /\ UNCHANGED waiting

(* The program stops before row r is swapped; what it had changed by then   *)
(* is left out, since nothing reads it.                                     *)
Stopping(t, r, hrt) ==
  /\ \/ /\ NoPair(RITs[t], hrt, r)
        /\ exited' = [exited EXCEPT ![t] = "No unlocked entry found in the RIT!"]
        /\ UNCHANGED waiting
     \/ \E n \in 0..(max_size + 1), swaps \in Sendings(RITs[t], contents[t], hrt, r) :
          /\ Refused(n, swaps)
          /\ exited' = [exited EXCEPT ![t] = "Check priority queue max size."]
          /\ waiting' = n
  /\ m_row_indirection_table' = RITs
  /\ UNCHANGED <<contents, astray, twins>>

Swap(t, r, hrt) ==
  /\ acts' = [Acts EXCEPT ![t][r] = 0]
  /\ parted' = IF SwappedNow(RITs[t], r)
               THEN [Parted EXCEPT ![t] = @ \cup {RITs[t][r].dst_row}] ELSE Parted
  /\ Swapping(t, r, hrt) \/ Stopping(t, r, hrt)

Hot(count) == count % Threshold = 0

(* An activation of a row by a request that was mapped to it (perhaps       *)
(* before a swap), or by one of a swap.                                     *)
Activate(b, r) ==
  LET t == flat_bank_id(b)
      counting == Counting(HRT[t], r, Spills[t])
  IN  /\ Running
      /\ r \in Rows \/ r \in DOMAIN RITs[t]
      /\ m_clk' = Now
      /\ \/ /\ counting = {}
            /\ m_spillover_counter' = [Spills EXCEPT ![t] = @ + 1]
            /\ m_hot_row_tracker' = HRT
            /\ Count(t, r)
         \/ \E hrt \in counting :
              /\ m_spillover_counter' = Spills
              /\ m_hot_row_tracker' = [HRT EXCEPT ![t] = hrt]
              /\ \/ ~Hot(hrt[r]) /\ Count(t, r)
                 \/ Hot(hrt[r]) /\ Swap(t, r, hrt)

Next ==
  \/ Idle
  \/ \E b \in Banks, r \in distribution : Activate(b, r)

Spec == Init /\ [][Next]_vars

-----------------------------------------------------------------------------
(* Properties *)

(* rrs.cpp: types; neither table grows beyond its size.                     *)
TypeOK ==
  /\ m_clk \in 0..(m_reset_period_clk - 1)
  /\ \A t \in Tables :
       /\ DOMAIN m_hot_row_tracker[t] \subseteq distribution
       /\ Cardinality(DOMAIN m_hot_row_tracker[t]) <= m_num_hrt_entries
       /\ \A r \in DOMAIN m_row_indirection_table[t] : m_row_indirection_table[t][r].dst_row \in distribution
  /\ m_spillover_counter \in [Tables -> Nat]

(* What RRS is for: no row is activated Threshold times in a period without *)
(* being swapped, however it moves in and out of the tracker.               *)
HammerBound == \A t \in Tables, r \in distribution : acts[t][r] < Threshold

(* Of the contents, where the data that no second swap has lost are found:  *)
(* steps keep or move these without regard to the rest.                     *)
Found ==
  [t \in Tables \ twins |-> [r \in Rows \ astray[t] |->
     contents[t][apply_indirection(m_row_indirection_table[t], r)]]]

(* All but the rest of the contents.                                        *)
Followed ==
  <<m_clk, m_hot_row_tracker, m_spillover_counter, m_row_indirection_table, exited,
    acts, waiting, twins, parted, Found>>

(* The indirection of apply_indirection leads to the row's own data,        *)
(* through swaps, unswaps for room, unswaps of old pairs and second swaps   *)
(* in a period, of which it loses the rows that were drawn but neither the  *)
(* hot row nor its old partner.                                             *)
DataFollows ==
  \A t \in Tables \ twins : \A r \in Rows \ astray[t] : Found[t][r] = r

(* No update issues more than three swaps, room is made before entries are  *)
(* inserted, and what blocks all the pairs is the tracker's rows and those  *)
(* that a second swap has parted: when the program stops with an error, it  *)
(* is for want of the room that these need.                                 *)
ExitsForWantOfRoom ==
  \A t \in Tables :
    /\ exited[t] = "Check priority queue max size." => Refused(waiting, 3)
    /\ exited[t] = "RIT is full!" => t \in twins \/ m_num_rit_entries % 2 = 1
    /\ exited[t] = "No unlocked entry found in the RIT!" =>
         \/ t \in twins
         \/ m_num_rit_entries < 2 * (m_num_hrt_entries + Cardinality(parted[t]))
=============================================================================
