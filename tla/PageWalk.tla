------------------------------- MODULE PageWalk -------------------------------
(***************************************************************************)
(* The processor's view of page tables, which neither the kernel nor the   *)
(* loader implements but both write for: four levels of tables, each a     *)
(* frame of EntriesPerTable entries of EntryBytes bytes, walked from a     *)
(* root by the index fields of a virtual address.  The sign bits of an     *)
(* address are left out, so addresses run from 0 to AddressSpaceSize - 1.  *)
(*                                                                         *)
(* Memory maps a frame to its entries; an entry is a frame, or Absent.     *)
(***************************************************************************)
EXTENDS Integers

CONSTANTS
  EntriesPerTable,   \* 512
  EntryBytes,        \* 8
  Frames,
  Absent             \* an entry that is not present

ASSUME PagingAssumption ==
  /\ EntriesPerTable \in Nat \ {0, 1} /\ EntryBytes \in Nat \ {0}
  /\ Frames \subseteq Nat /\ Absent \notin Frames

kPageSize == EntriesPerTable * EntryBytes

(* Shifting the lowest n indices out of an address divides it by Shift[n]. *)
Shift == LET E == EntriesPerTable IN <<E, E * E, E * E * E, E * E * E * E>>
AddressSpaceSize == kPageSize * Shift[4]

Indices == 0 .. (EntriesPerTable - 1)
Entries == Frames \cup {Absent}
Memories == [Frames -> [Indices -> Entries]]
Pages == {n * kPageSize : n \in 0 .. (Shift[4] - 1)}

(* The bytes one entry of a table of this level covers. *)
Reach(level) == EntryBytes * Shift[level]

(* The index of addr into its table of the given level, 4 being the root's. *)
entryIndex(addr, level) == (addr \div Reach(level)) % EntriesPerTable

(* The frame whose table of this level translates addr, or Absent. *)
TableOf(mem, root, addr, level) ==
  LET next(table, l) == IF table = Absent THEN Absent
                        ELSE mem[table][entryIndex(addr, l)]
      pdp == next(root, 4)
      pd == next(pdp, 3)
  IN CASE level = 4 -> root
       [] level = 3 -> pdp
       [] level = 2 -> pd
       [] level = 1 -> next(pd, 2)

Translate(mem, root, addr) ==
  LET table == TableOf(mem, root, addr, 1)
  IN IF table = Absent THEN Absent ELSE mem[table][entryIndex(addr, 1)]
===============================================================================
