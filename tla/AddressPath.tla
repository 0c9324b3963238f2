----------------------------- MODULE AddressPath -----------------------------
(***************************************************************************)
(* The way of an address from a core to the banks: a translation of         *)
(* translation/impl/ turns the virtual address of a request into a physical *)
(* one, and an address mapper of addr_mapper/impl/ slices that into the ids *)
(* of the levels of the device.                                             *)
(***************************************************************************)
EXTENDS Integers, FiniteSets, Sequences, TLC, FiniteSetsExt, Bitwise

CONSTANTS
  Cores,        \* the cores, each with a table of its own
  VPages,       \* the virtual pages they use
  Offsets,      \* the offsets in a page they use
  NumPages,     \* m_num_pages
  PageSize,     \* m_pagesize
  AddrBits,     \* m_addr_bits: channel first, then ..., row, column
  TxBytes,      \* bytes of a transaction: 2^m_tx_offset
  Translators,  \* the translations to try
  Mappers       \* the mappers to try

GeometryAssumption ==
  /\ PageSize \in Nat \ {0} /\ NumPages \in Nat \ {0} /\ TxBytes \in Nat \ {0}
  /\ Offsets \subseteq 0 .. PageSize - 1
  /\ Len(AddrBits) > 2 /\ AddrBits[Len(AddrBits)] >= 2

VARIABLES
  translator, mapper,   \* the configuration
  translation,          \* m_translation: per core, a map from vpn to ppn
  num_free,             \* m_num_free_physical_pages
  reserved,             \* m_reserved_pages
  addr                  \* the physical address of the last request, or -1

vars == <<translator, mapper, translation, num_free, reserved, addr>>

Pages == 0 .. NumPages - 1
max_paddr == NumPages * PageSize

-----------------------------------------------------------------------------
(* Linear mappers.  slice_lower_bits takes the lowest bits off an address;  *)
(* Slice says what it returns after `taken' bits have been taken off.       *)
Levels == DOMAIN AddrBits
Row    == Len(AddrBits) - 1
Col    == Len(AddrBits)

Bits(levels) == FoldSet(LAMBDA l, n : n + AddrBits[l], 0, levels)

Slice(a, taken, bits) == (a \div 2^taken) % 2^bits

ChRaBaRoCo(a) == [l \in Levels |-> Slice(a, Bits({k \in Levels : k > l}), AddrBits[l])]

RoBaRaCoCh(a) ==
  [l \in Levels |-> IF l = 1 THEN Slice(a, 0, AddrBits[1])
                    ELSE IF l = Col THEN Slice(a, AddrBits[1], AddrBits[Col])
                    ELSE Slice(a, AddrBits[Col] + Bits(1 .. l - 1), AddrBits[l])]

(* Four columns in a row, the rest of the column above the banks; the other *)
(* levels are xor'ed with as many bits of the column.  The row is what      *)
(* remains of the address, however much that is.                            *)
MOP4CLXOR(a) ==
  LET above  == 2 + Bits(1 .. Row - 1)
      column == Slice(a, 0, 2) + 4 * Slice(a, above, AddrBits[Col] - 2)
      sliced == [l \in Levels |->
                   IF l = Col THEN column
                   ELSE IF l = Row THEN a \div 2^(above + AddrBits[Col] - 2)
                   ELSE Slice(a, 2 + Bits(1 .. l - 1), AddrBits[l])]
  IN [l \in Levels |-> IF l = Col \/ AddrBits[l] = 0 THEN sliced[l]
                       ELSE sliced[l] ^^ Slice(column, Bits(1 .. l - 1), AddrBits[l])]

apply(m, paddr) ==
  LET a == paddr \div TxBytes
  IN CASE m = "ChRaBaRoCo" -> ChRaBaRoCo(a)
       [] m = "RoBaRaCoCh" -> RoBaRaCoCh(a)
       [] m = "MOP4CLXOR" -> MOP4CLXOR(a)

-----------------------------------------------------------------------------
Init ==
  /\ translator \in Translators
  /\ mapper \in Mappers
  /\ translation = [c \in Cores |-> <<>>]
  /\ num_free = NumPages
  /\ reserved = {}
  /\ addr = -1

(* Hydra reserves the pages of its counter table during setup(), before any *)
(* request; one page always remains.                                        *)
reserve(page) ==
  /\ translator = "RandomTranslation"
  /\ addr = -1
  /\ Cardinality(reserved \cup {page}) < NumPages
  /\ reserved' = reserved \cup {page}
  /\ UNCHANGED <<translator, mapper, translation, num_free, addr>>

(* Mutant: reserved pages are given away when the free ones are used up.    *)
AnyPage(page) == page \in Pages

(* The random draws are repeated until the page is not reserved.  They look *)
(* at m_free_physical_pages, too, but no page is ever marked as taken.      *)
Drawn(page) == page \in Pages \ reserved

Assign(core, vpn, page) ==
  /\ translation' = [translation EXCEPT ![core] = (vpn :> page) @@ @]
  /\ num_free' = IF num_free = 0 THEN 0 ELSE num_free - 1

RandomTranslate(core, vpn, offset) ==
  IF vpn \in DOMAIN translation[core]
  THEN /\ addr' = translation[core][vpn] * PageSize + offset
       /\ UNCHANGED <<translation, num_free>>
  ELSE \E page \in Pages :
         /\ Drawn(page)
         /\ Assign(core, vpn, page)
         /\ addr' = page * PageSize + offset

NoTranslate(core, vpn, offset) ==
  /\ addr' = vpn * PageSize + offset
  /\ UNCHANGED <<translation, num_free>>

translate(core, vpn, offset) ==
  /\ \/ translator = "RandomTranslation" /\ RandomTranslate(core, vpn, offset)
     \/ translator = "NoTranslation" /\ NoTranslate(core, vpn, offset)
  /\ UNCHANGED <<translator, mapper, reserved>>

Next ==
  \/ \E page \in Pages : reserve(page)
  \/ \E core \in Cores, vpn \in VPages, offset \in Offsets : translate(core, vpn, offset)

Spec == Init /\ [][Next]_vars

-----------------------------------------------------------------------------
Assigned(c) == {translation[c][v] : v \in DOMAIN translation[c]}

(* The tables hold physical pages, and the count of free pages stays in     *)
(* range.                                                                   *)
TypeOK ==
  /\ \A c \in Cores : DOMAIN translation[c] \subseteq VPages /\ Assigned(c) \subseteq Pages
  /\ num_free \in 0 .. NumPages
  /\ reserved \subseteq Pages
  /\ addr \in Int /\ (translator = "RandomTranslation" => addr \in -1 .. max_paddr - 1)

(* RandomTranslation: no request of a core ever reaches a page that was     *)
(* reserved for the counters of Hydra, not even after the pages ran out.    *)
ReservedKept ==
  /\ \A c \in Cores : Assigned(c) \cap reserved = {}
  /\ addr >= 0 => addr \div PageSize \notin reserved

(* apply of the mappers: an address of the memory selects a column that     *)
(* exists, and no other transaction of the memory selects the same one.     *)
OwnColumn ==
  addr \in 0 .. max_paddr - 1 =>
    LET vec == apply(mapper, addr)
    IN /\ \A l \in Levels : vec[l] \in 0 .. 2^AddrBits[l] - 1
       /\ \A a \in 0 .. (max_paddr \div TxBytes) - 1 :
            apply(mapper, a * TxBytes) = vec => a = addr \div TxBytes

=============================================================================
