--------------------------------- MODULE RIT ---------------------------------
(***************************************************************************)
(* The row indirection table of a bank (addr_mapper/impl/rit.cpp), which    *)
(* the mappers "..._with_rit" consult for every request and the plugin RRS  *)
(* fills: a function from rows to entries with the row that takes their     *)
(* place (dst_row) and a lock that holds until the end of the epoch.        *)
(***************************************************************************)
EXTENDS Naturals, FiniteSets, Functions

CONSTANT m_num_rit_entries

RITAssumption == m_num_rit_entries \in Nat

EmptyRIT == [r \in {} |-> [dst_row |-> r, lock |-> FALSE]]

(* Where a request for row r goes.                                          *)
apply_indirection(rit, r) == IF r \in DOMAIN rit THEN rit[r].dst_row ELSE r

is_rit_full(rit) == Cardinality(DOMAIN rit) >= m_num_rit_entries

rit_unlock(rit) == [r \in DOMAIN rit |-> [rit[r] EXCEPT !.lock = FALSE]]

(* An entry and its pair; the pair is stored last.                          *)
rit_insert_entry(rit, src, dst) ==
  [r \in DOMAIN rit \cup {src, dst} |->
     CASE r = dst -> [dst_row |-> src, lock |-> TRUE]
       [] r = src /\ r # dst -> [dst_row |-> dst, lock |-> TRUE]
       [] OTHER -> rit[r]]

(* The program exits when the table is too large after an insertion.        *)
RITOverflows(rit) == Cardinality(DOMAIN rit) > m_num_rit_entries

rit_remove_entry(rit, src, dst) == Restrict(rit, DOMAIN rit \ {src, dst})

(* The pairs that may be unswapped to make room; which one is up to the     *)
(* order of the hash table.  The program exits when there is none.          *)
get_unswap_pair(rit, excluded) ==
  {pair \in {<<r, rit[r].dst_row>> : r \in DOMAIN rit} :
     ~rit[pair[1]].lock /\ pair[1] \notin excluded /\ pair[2] \notin excluded}
=============================================================================
