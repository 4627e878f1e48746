-------------------------- MODULE RecursivePageTables --------------------------
(***************************************************************************)
(* k::RecursivePageTables: the kernel maps pages by writing its page tables*)
(* through themselves.  The last entry of the root points at the root, so  *)
(* that every table appears as a page in the last part of the address      *)
(* space, at an address computed from the address being mapped.  Each such *)
(* access is itself translated by the processor (PageWalk), and faults     *)
(* when a table on its way is absent; the kernel has no fault handler.     *)
(*                                                                         *)
(* A level of the walk is one action.  Nothing interleaves with map.  An   *)
(* absent translation is not cached and a replaced one is invalidated by   *)
(* mapNoTables, so translation caches are left out.                        *)
(***************************************************************************)
EXTENDS PageWalk, FiniteSets

CONSTANTS
  RootFrame,        \* pml4Paddr_
  InitialStates,    \* the memory and free frames the kernel may start from
  Requests          \* the [vaddr, frame, count] that callers map

ASSUME RequestAssumption ==
  /\ RootFrame \in Frames
  /\ \A s \in InitialStates :
       /\ s.mem \in Memories /\ s.free \subseteq Frames
       /\ s.mem[RootFrame][EntriesPerTable - 1] = RootFrame
  /\ \A r \in Requests : /\ r.vaddr \in Pages /\ r.count \in Nat
                         /\ \A k \in 0 .. (r.count - 1) : r.frame + k \in Frames

VARIABLES
  mem,          \* contents of every frame
  free,         \* frames pallocator_ has left
  pc,           \* "idle", "map" a page, "overrun", or "fault"
  request,      \* the arguments of the last call
  done,         \* the pages it has mapped
  level,        \* locals of map for one page: the level of the walk,
  table,        \* and the address the current table is believed to be at
  reply         \* what the last call returned

vars == <<mem, free, pc, request, done, level, table, reply>>

tablesStart == AddressSpaceSize - AddressSpaceSize \div EntriesPerTable
pml4Address == AddressSpaceSize - kPageSize

virtAddr == request.vaddr + done * kPageSize

physFrame == request.frame + done

-----------------------------------------------------------------------------
(* The address of the entry that maps addr. *)
entryAddr(addr) ==
  tablesStart + ((addr \div EntriesPerTable) \div EntryBytes) * EntryBytes

(* The address of vaddr's table of a level: as many last indices as there are
   levels below it, then vaddr shifted down.  What of vaddr is shifted into
   the offset of the page stays there.                                    *)
tableAddress(vaddr, lvl) ==
  (AddressSpaceSize - AddressSpaceSize \div Shift[lvl]) + vaddr \div Shift[lvl]

(* Accesses through the address space, with memory m. *)
Offset(addr) == addr % kPageSize
FrameAt(m, addr) == Translate(m, RootFrame, addr)
Accessible(m, addr) == FrameAt(m, addr) # Absent
EntryAt(m, addr) == m[FrameAt(m, addr)][Offset(addr) \div EntryBytes]

WriteEntry(m, addr, entry) ==
  [m EXCEPT ![FrameAt(m, addr)][Offset(addr) \div EntryBytes] = entry]

(* What bit 0 at addr may read: the present bit of an entry only when addr is
   where the entry begins.                                                *)
PresentBits(addr) ==
  IF EntryAt(mem, addr) = Absent THEN {FALSE}
  ELSE IF addr % EntryBytes = 0 THEN {TRUE}
  ELSE BOOLEAN

(* The contents a frame may have after bytes first .. last of it were set to
   zero.  An entry that keeps only its first bytes keeps the present bit.  *)
Zeroed(entries, first, last) ==
  LET cut == first \div EntryBytes
      whole(i) == i * EntryBytes \in first .. last
  IN {[i \in Indices |-> IF whole(i) THEN Absent
                         ELSE IF i = cut THEN left ELSE entries[i]] :
        left \in IF entries[cut] = Absent THEN {Absent} ELSE Frames}

-----------------------------------------------------------------------------
Init ==
  /\ \E s \in InitialStates : mem = s.mem /\ free = s.free
  /\ pc = "idle"
  /\ request \in Requests
  /\ done = request.count
  /\ level = 4 /\ table = pml4Address
  /\ reply = "None"

(* map starts over from the root for every page. *)
AtRoot == level' = 4 /\ table' = pml4Address

(* PageTables::map(count, ...) is called. *)
map(r) ==
  /\ pc = "idle"
  /\ request' = r
  /\ done' = 0
  /\ pc' = "map"
  /\ AtRoot
  /\ UNCHANGED <<mem, free, reply>>

(* The loop of PageTables::map runs once more than count. *)
MutantMapping == pc = "map" /\ done <= request.count

(* A page is being mapped. *)
Mapping == pc = "map" /\ done < request.count

entry == (table + entryIndex(virtAddr, level) * EntryBytes) % AddressSpaceSize
subtable == tableAddress(virtAddr, level - 1)

(* A level above the last, at an entry the processor can read. *)
AtEntry == Mapping /\ level > 1 /\ Accessible(mem, entry)

(* A table on the way to an address is absent, and the processor faults. *)
Fault ==
  /\ pc' = "fault"
  /\ UNCHANGED <<mem, free, request, done, level, table, reply>>

ReadFault == Mapping /\ level > 1 /\ ~Accessible(mem, entry) /\ Fault

Descend == level' = level - 1 /\ table' = subtable

(* The entry is present. *)
UseSubtable ==
  /\ AtEntry
  /\ TRUE \in PresentBits(entry)
  /\ Descend
  /\ UNCHANGED <<mem, free, pc, request, done, reply>>

(* The entry is not present, and the allocator has no page for a table, or,
   during init, no page for anybody: its status is returned.               *)
RefuseSubtable ==
  /\ AtEntry
  /\ FALSE \in PresentBits(entry)
  /\ free = {}
  /\ reply' = "Refused"
  /\ pc' = "idle"
  /\ UNCHANGED <<mem, free, request, done, level, table>>

(* The new table is linked in and not cleared. *)
MutantCreateSubtableUncleared ==
  /\ AtEntry
  /\ FALSE \in PresentBits(entry)
  /\ \E frame \in free :
       /\ free' = free \ {frame}
       /\ IF Accessible(mem, entryAddr(subtable))
          THEN /\ mem' = WriteEntry(mem, entryAddr(subtable), frame)
               /\ Descend
               /\ UNCHANGED pc
          ELSE pc' = "fault" /\ UNCHANGED <<mem, level, table>>
  /\ UNCHANGED <<request, done, reply>>

(* The table is linked in at the entry of the page instead of its own. *)
MutantCreateSubtableWrongEntry ==
  /\ AtEntry
  /\ FALSE \in PresentBits(entry)
  /\ \E frame \in free :
       /\ free' = free \ {frame}
       /\ IF Accessible(mem, entryAddr(virtAddr))
          THEN LET linked == WriteEntry(mem, entryAddr(virtAddr), frame) IN
            /\ \E entries \in Zeroed(mem[frame], Offset(subtable), kPageSize - 1) :
                 mem' = [linked EXCEPT ![frame] = entries]
            /\ Descend
            /\ UNCHANGED pc
          ELSE pc' = "fault" /\ UNCHANGED <<mem, level, table>>
  /\ UNCHANGED <<request, done, reply>>

(* The page taken for a table stays with the allocator. *)
MutantCreateSubtableKeepsPage ==
  /\ AtEntry
  /\ FALSE \in PresentBits(entry)
  /\ \E frame \in free :
       IF Accessible(mem, entryAddr(subtable))
       THEN LET linked == WriteEntry(mem, entryAddr(subtable), frame) IN
         /\ \E entries \in Zeroed(mem[frame], Offset(subtable), kPageSize - 1) :
              mem' = [linked EXCEPT ![frame] = entries]
         /\ Descend
         /\ UNCHANGED pc
       ELSE pc' = "fault" /\ UNCHANGED <<mem, level, table>>
  /\ UNCHANGED <<free, request, done, reply>>

(* The entry is not present: a new page is linked in through the address
   space, and cleared from where the table is believed to be; the rest of
   the memset, if any, falls on the page that follows.                    *)
CreateSubtable ==
  /\ AtEntry
  /\ FALSE \in PresentBits(entry)
  /\ \E frame \in free :
       /\ free' = free \ {frame}
       /\ IF Accessible(mem, entryAddr(subtable))
          THEN LET linked == WriteEntry(mem, entryAddr(subtable), frame) IN
            /\ \E entries \in Zeroed(mem[frame], Offset(subtable), kPageSize - 1) :
                 mem' = [linked EXCEPT ![frame] = entries]
            /\ pc' = IF Offset(subtable) = 0 THEN "map" ELSE "overrun"
            /\ Descend
          ELSE pc' = "fault" /\ UNCHANGED <<mem, level, table>>
  /\ UNCHANGED <<request, done, reply>>

PageAfter == (table - Offset(table) + kPageSize) % AddressSpaceSize

ClearOverrun ==
  /\ pc = "overrun"
  /\ IF Accessible(mem, PageAfter)
     THEN /\ LET frame == FrameAt(mem, PageAfter) IN
               \E entries \in Zeroed(mem[frame], 0, Offset(table) - 1) :
                 mem' = [mem EXCEPT ![frame] = entries]
          /\ pc' = "map"
     ELSE pc' = "fault" /\ UNCHANGED mem
  /\ UNCHANGED <<free, request, done, level, table, reply>>

(* The address has already advanced to the next page when it is used. *)
MutantSetEntryNextPage ==
  /\ Mapping
  /\ level = 1
  /\ Accessible(mem, entryAddr(virtAddr + kPageSize))
  /\ mem' = WriteEntry(mem, entryAddr(virtAddr + kPageSize), physFrame)
  /\ done' = done + 1
  /\ AtRoot
  /\ UNCHANGED <<free, pc, request, reply>>

(* mapNoTables(virtAddr, physAddr, attributes), and on to the next page. *)
SetEntry ==
  /\ Mapping
  /\ level = 1
  /\ Accessible(mem, entryAddr(virtAddr))
  /\ mem' = WriteEntry(mem, entryAddr(virtAddr), physFrame)
  /\ done' = done + 1
  /\ AtRoot
  /\ UNCHANGED <<free, pc, request, reply>>

WriteFault ==
  Mapping /\ level = 1 /\ ~Accessible(mem, entryAddr(virtAddr)) /\ Fault

Return ==
  /\ pc = "map"
  /\ done = request.count
  /\ reply' = "Ok"
  /\ pc' = "idle"
  /\ UNCHANGED <<mem, free, request, done, level, table>>

Next ==
  \/ \E r \in Requests : map(r)
  \/ ReadFault \/ UseSubtable \/ RefuseSubtable \/ CreateSubtable \/ ClearOverrun
  \/ SetEntry \/ WriteFault \/ Return

Spec == Init /\ [][Next]_vars

-----------------------------------------------------------------------------
PagesTypeOK ==
  /\ mem \in Memories /\ free \subseteq Frames
  /\ pc \in {"idle", "map", "overrun", "fault"}
  /\ request \in Requests /\ done \in 0 .. request.count
  /\ level \in 1 .. 4
  /\ reply \in {"None", "Ok", "Refused"}

(* The pages below the part of the address space that shows the tables. *)
MappablePages == {p \in Pages : p < tablesStart}

mapping == [p \in MappablePages |-> Translate(mem, RootFrame, p)]

Space == INSTANCE AddressSpace WITH PageSize <- kPageSize

(* Every step of map leaves all translations alone or maps the next page
   asked for, and a table that is created brings none with it, whatever its
   frame held before (36-78, and the loop of PageTables::map).             *)
AddressSpaceSpec == Space!Spec

(* The pages of a request, and those a request for r begins where an entry of
   the root begins and spans at most the entries of a page in a last table,
   so that no address of a table falls inside another page.               *)
RangeBelow(r) ==
  \A k \in 0 .. (r.count - 1) : r.vaddr + k * kPageSize \in MappablePages
RangeAtRoot(r) ==
  /\ r.vaddr < tablesStart /\ \A l \in 1 .. 3 : entryIndex(r.vaddr, l) = 0
  /\ r.count * EntryBytes <= EntriesPerTable

(* Two walks meet in a table only where their addresses have not parted, and
   none passes through a frame of spare.                                  *)
TablesApart(m) ==
  \A p, q \in MappablePages : \A l, k \in 1 .. 4 :
    /\ TableOf(m, RootFrame, p, l) # Absent
    /\ TableOf(m, RootFrame, p, l) = TableOf(m, RootFrame, q, k)
    => l = k /\ \A j \in (l + 1) .. 4 : entryIndex(p, j) = entryIndex(q, j)
TablesAvoid(m, spare) ==
  \A p \in MappablePages : \A l \in 1 .. 4 : TableOf(m, RootFrame, p, l) \notin spare

(* The two settings in which map is right: the tables begin as a tree, and
   either the allocator refuses every page (as it does while it is itself
   initialized), or ranges begin at entries of the root.                  *)
Growing(states, requests) ==
  /\ \A s \in states : TablesApart(s.mem) /\ TablesAvoid(s.mem, s.free)
  /\ \A r \in requests : RangeAtRoot(r)
Fixed(states, requests) ==
  /\ \A s \in states : TablesApart(s.mem) /\ s.free = {}
  /\ \A r \in requests : RangeBelow(r)

(* The tables below those in ts, by the entries that are not the root's link
   to itself.                                                              *)
Links(ts) == {link \in ts \X Indices : /\ mem[link[1]][link[2]] # Absent
                                         /\ link # <<RootFrame, EntriesPerTable - 1>>}
Below(ts) == {mem[link[1]][link[2]] : link \in Links(ts)}

Level3 == Below({RootFrame})
Level2 == Below(Level3)
Level1 == Below(Level2)
Tables == {RootFrame} \cup Level3 \cup Level2 \cup Level1

(* Every table but the root hangs from one entry, and none is a page the
   allocator may still give away: two parts of the address space never share
   a table, although each step of map writes through the tables it changes. *)
TablesFormTree ==
  /\ Cardinality(Links({RootFrame} \cup Level3 \cup Level2)) = Cardinality(Tables) - 1
  /\ Tables \cap free = {}

(* A page taken from the allocator becomes a table of the tree in the same
   step: none is lost when map gives up halfway and is called again.       *)
FramesAccounted == [][Tables' \cup free' = Tables \cup free]_vars

(* map touches no address that is not mapped. *)
NoFault == pc # "fault"

(* A page becomes accessible only when it is mapped, and then at the frame
   asked for, wherever the tables it needs have to be created.             *)
OnlyAskedAppears ==
  [][\A p \in MappablePages :
       \/ mapping'[p] \in {mapping[p], Absent}
       \/ p = virtAddr /\ mapping'[p] = physFrame ]_vars

(* map asks for a page only when the table it needs is really absent: it finds
   tables at page-aligned addresses ("& 0x7FFFFFF000", paging.h:374).       *)
PresentTablesFound ==
  [][RefuseSubtable =>
       TableOf(mem, RootFrame, virtAddr, level - 1) = Absent]_vars
===============================================================================
