-------------------------------- MODULE Loader --------------------------------
(***************************************************************************)
(* The UEFI loader, from efi_main to the jump into the kernel: it builds   *)
(* the kernel's page tables out of memory it asks of the firmware, maps    *)
(* the image, a stack with a guard page per processor, the frame buffer,   *)
(* the initrd and, one to one, its own memory, then takes the memory map   *)
(* and leaves boot services.  The firmware is the other actor: it places   *)
(* what is allocated, and its own activity changes the map the loader is   *)
(* about to hand over.                                                     *)
(*                                                                         *)
(* Addresses are page numbers.  Physical pages start at 1 and are mapped   *)
(* one to one at the same virtual pages; the kernel's pages lie above.     *)
(***************************************************************************)
EXTENDS Integers, Sequences, FiniteSets, FiniteSetsExt

CONSTANTS
  MemoryPages,       \* RAM is the physical pages 1 .. MemoryPages
  EntriesPerTable, Levels,        \* 512 and 4
  VirtualPages,      \* pages of the address space
  Segments,          \* the PT_LOAD headers: records [page, count]
  EntryPage,         \* the page of e_entry
  Images,            \* what the initrd may hold: "elf" or "other"
  Cpus, StackPages, FramebufferPages, InitrdPages,
  MapMargin,         \* descriptors added to the size asked for: 8
  MaxEvents,         \* bound on the firmware's own changes to its map
  Absent

ASSUME LoaderAssumption ==
  /\ {MemoryPages, EntriesPerTable, Levels, Cpus, StackPages} \subseteq Nat \ {0}
  /\ {FramebufferPages, InitrdPages, MapMargin, MaxEvents, VirtualPages} \subseteq Nat
  /\ Levels > 1 /\ EntriesPerTable > 1 /\ Absent \notin Nat
  /\ Segments \in Seq([page : Nat, count : Nat]) /\ Segments # <<>>

(* What kernel/link.ld makes of the image: it lies above all of RAM, and a
   section begins on the page where the one before it ends.  The rest of the
   address space has room for what the loader puts behind it.             *)
ASSUME ImageAssumption ==
  /\ MemoryPages < Segments[1].page
  /\ \A k \in 1 .. (Len(Segments) - 1) :
       Segments[k + 1].page = Segments[k].page + Segments[k].count
  /\ \A k \in 1 .. Len(Segments) :
       Segments[k].page + Segments[k].count + Cpus * (StackPages + 1)
         + FramebufferPages + InitrdPages <= VirtualPages

Frames == 1 .. MemoryPages
FramebufferBase == MemoryPages + 1            \* device memory lies past RAM
Pages == 0 .. (VirtualPages - 1)
Span(first, n) == first .. (first + n - 1)
Requests == [vaddr : Pages, frame : 0 .. (FramebufferBase + FramebufferPages),
             count : 0 .. VirtualPages]

VARIABLES
  pc,
  type,        \* the firmware's memory map: the type of each page of RAM
  mapKey,      \* its version
  policy,      \* from which end it allocates: "lowest" or "highest"
  pool,        \* where the pool put each buffer: boot_info, temporary, final
  poolPages,   \* the pages of the pool
  tables,      \* page tables: which frame serves a table key (see TableKey)
  mapping,     \* what the tables translate each page to
  request, done,   \* the map_pages call: [vaddr, frame, count], pages done
  nextPage,    \* next_page
  image,       \* kernel_info and first_page: [kind, first, entry]
  i,           \* the loop counter: segment, processor or page of the map
  memmap,      \* get_memmap's results: [key, size, types]
  bi,          \* the boot_info_t: [initrd, framebuffer, end, map]
  stackTop,    \* *stack_pointer_out: the page after the first stack
  loaded,      \* history: the segments map_kernel mapped whole
  layout,      \* history: every area the loader mapped
  events       \* history: changes the firmware made by itself

firmwareVars == <<type, mapKey, pool, poolPages, policy>>
mapVars == <<tables, mapping, request, done>>
loaderVars == <<nextPage, image, i, memmap, bi, stackTop,
                loaded, layout, events>>
vars == <<pc, firmwareVars, mapVars, loaderVars>>

-----------------------------------------------------------------------------
(* The firmware. *)

(* Where AllocatePages puts n pages: AllocateAnyPages leaves it to the
   firmware, which here takes the lowest place or the highest one.        *)
Placements(n) ==
  LET fit == {f \in Frames : /\ n > 0 /\ f + n - 1 <= MemoryPages
                             /\ \A g \in Span(f, n) : type[g] = "Conventional"}
  IN IF fit = {} THEN {}
     ELSE {IF policy = "lowest" THEN Min(fit) ELSE Max(fit)}

Retype(set, newType) ==
  /\ type' = [f \in Frames |-> IF f \in set THEN newType ELSE type[f]]
  /\ mapKey' = mapKey + 1

AllocatePages(f, n) == Retype(Span(f, n), "LoaderData")

(* AllocatePool(LoaderData): room in a page of the pool, or a new page. *)
AllocatePool(buffer) ==
  /\ UNCHANGED policy
  /\ \E f \in poolPages \cup Placements(1) :
       /\ pool' = [pool EXCEPT ![buffer] = f]
       /\ poolPages' = poolPages \cup {f}
       /\ IF f \in poolPages THEN UNCHANGED <<type, mapKey>> ELSE AllocatePages(f, 1)

PoolFails == poolPages \cup Placements(1) = {}

(* FreePool: a page without buffers may go back to the firmware's map. *)
FreePool(buffer) ==
  LET f == pool[buffer]
  IN /\ pool' = [pool EXCEPT ![buffer] = Absent]
     /\ UNCHANGED policy
     /\ \/ UNCHANGED <<type, mapKey, poolPages>>
        \/ /\ \A b \in DOMAIN pool \ {buffer} : pool[b] # f
           /\ Retype({f}, "Conventional")
           /\ poolPages' = poolPages \ {f}

(* The descriptors of a map: its runs of pages of one type. *)
Descriptors(t) == Cardinality({f \in Frames : f = 1 \/ t[f] # t[f - 1]})

(* While the map is being taken, a timer or a driver of the firmware may
   allocate or free a page.                                               *)
FirmwareEvent ==
  /\ pc \in {"get temporary", "get final", "exit"} /\ events < MaxEvents
  /\ \E f \in Frames :
       \/ type[f] = "Conventional" /\ Retype({f}, "BootServicesData")
       \/ type[f] = "BootServicesData" /\ Retype({f}, "Conventional")
  /\ events' = events + 1
  /\ UNCHANGED <<pc, pool, poolPages, policy, mapVars, nextPage, image, i, memmap, bi,
                 stackTop, loaded, layout>>
-----------------------------------------------------------------------------
(* map_page and its callers. *)

(* The table that level l of the walk of page v leads to. *)
TableKey(v, l) == <<l, v \div EntriesPerTable ^ (l - 1)>>
Missing(v) == {l \in 2 .. Levels : TableKey(v, l) \notin DOMAIN tables}

(* The frame f becomes a table. *)
Linked(key, f) == [k \in DOMAIN tables \cup {key} |-> IF k = key THEN f ELSE tables[k]]

Settled == done = request.count

(* map_pages(virt_addr, phys_addr, count) begins.  *)
StartMapping(v, f, n) ==
  /\ request' = [vaddr |-> v, frame |-> f, count |-> n]
  /\ done' = 0
  /\ layout' = layout \cup {[vaddr |-> v, frame |-> f, count |-> n]}
  /\ UNCHANGED <<tables, mapping>>

(* The first page's frame is left out; one frame serves the whole range. *)
MutantNextEntryAhead == [page |-> request.vaddr + done, frame |-> request.frame + done + 1]
MutantNextEntrySame == [page |-> request.vaddr + done, frame |-> request.frame]

NextEntry == [page |-> request.vaddr + done, frame |-> request.frame + done]

(* Nothing changes but where the program continues. *)
GoTo(next) ==
  /\ pc' = next
  /\ UNCHANGED <<firmwareVars, mapVars, loaderVars>>

(* One round of map_page: the highest missing table is allocated, cleared
   and linked; with none missing the entry is written.                    *)
MapPage ==
  /\ pc \in {"segments", "stacks", "frame buffer", "initrd", "identity"}
  /\ ~Settled
  /\ LET e == NextEntry
     IN IF Missing(e.page) = {}
        THEN /\ mapping' = [mapping EXCEPT ![e.page] = e.frame]
             /\ done' = done + 1
             /\ UNCHANGED <<firmwareVars, tables>>
        ELSE \E f \in Placements(1) :
               /\ AllocatePages(f, 1)
               /\ tables' = Linked(TableKey(e.page, Max(Missing(e.page))), f)
               /\ UNCHANGED <<pool, poolPages, policy, mapping, done>>
  /\ UNCHANGED <<pc, request, loaderVars>>

(* Out of pages for a table: the error goes up, and stops the loader unless
   it comes from map_kernel, whose status is dropped.  next_page is then
   still where the segment that failed was to begin.                      *)
MapPageFails ==
  /\ pc \in {"segments", "stacks", "frame buffer", "initrd", "identity"}
  /\ ~Settled /\ Missing(NextEntry.page) # {} /\ Placements(1) = {}
  /\ IF pc # "segments" THEN GoTo("failed")
     ELSE /\ pc' = "check kernel"
          /\ loaded' = i - 1
          /\ layout' = layout \ {request}
          /\ request' = [request EXCEPT !.count = 0] /\ done' = 0
          /\ UNCHANGED <<firmwareVars, tables, mapping, nextPage, image, i,
                         memmap, bi, stackTop, events>>

(* map_new_pages, when the firmware has the pages. *)
MapNewPages(v, n) == \E f \in Placements(n) : AllocatePages(f, n) /\ StartMapping(v, f, n)

(* check_addr walks without looking at the present bits: past a missing
   table it reads physical page 0, and finds anything.                    *)
CheckOutcomes(v) == IF Missing(v) # {} THEN BOOLEAN ELSE {mapping[v] # Absent}

CheckThen(pages, next) ==
  \/ pc' = next /\ \A v \in pages : TRUE \in CheckOutcomes(v)
  \/ pc' = "failed" /\ \E v \in pages : FALSE \in CheckOutcomes(v)
-----------------------------------------------------------------------------
(* The steps of efi_main, load_kernel and map_virtual_address_space. *)

Init ==
  /\ pc = "boot info"
  /\ \E top \in Frames :   \* the firmware's data lies above the free memory
       type = [f \in Frames |-> IF f = 1 THEN "LoaderCode"
                                ELSE IF f <= top THEN "Conventional"
                                ELSE "BootServicesData"]
  /\ mapKey = 0
  /\ policy \in {"lowest", "highest"}
  /\ pool = [b \in {"boot_info", "temporary", "final"} |-> Absent]
  /\ poolPages = {}
  /\ tables = <<>>
  /\ mapping = [v \in Pages |-> Absent]
  /\ request = [vaddr |-> 0, frame |-> 0, count |-> 0]
  /\ done = 0
  /\ nextPage = 0
  /\ \E kind \in Images : image = [kind |-> kind, first |-> 0, entry |-> 0]
  /\ i = 0
  /\ memmap = [key |-> 0, size |-> 0, types |-> type]
  /\ bi = [initrd |-> 0, framebuffer |-> 0, end |-> 0, map |-> type]
  /\ stackTop = 0
  /\ loaded = 0
  /\ layout = {}
  /\ events = 0

AllocateBootInfo ==
  /\ pc = "boot info"
  /\ IF PoolFails THEN GoTo("failed")
     ELSE /\ AllocatePool("boot_info")
          /\ pc' = "boot image"
          /\ UNCHANGED <<mapVars, loaderVars>>

(* load_boot_image reads the file, unless it is missing or unreadable. *)
LoadBootImage ==
  /\ pc = "boot image"
  /\ \/ GoTo("failed")
     \/ \E f \in Placements(InitrdPages) :
          /\ AllocatePages(f, InitrdPages)
          /\ bi' = [bi EXCEPT !.initrd = f]
          /\ pc' = "find kernel"
          /\ UNCHANGED <<pool, poolPages, policy, mapVars, nextPage, image, i, memmap,
                         stackTop, loaded, layout, events>>

(* find_cpio_file (see CpioArchive) finds kernel.elf in it or does not. *)
FindKernel == pc = "find kernel" /\ (GoTo("page tables") \/ GoTo("failed"))

(* create_page_tables: the root, which its last entry maps into itself. *)
CreatePageTables ==
  /\ pc = "page tables"
  /\ \/ Placements(1) = {} /\ GoTo("failed")
     \/ \E f \in Placements(1) :
          /\ AllocatePages(f, 1)
          /\ tables' = Linked(TableKey(0, Levels + 1), f)
          /\ pc' = "image"
          /\ UNCHANGED <<pool, poolPages, policy, mapping, request, done, loaderVars>>

(* The head of map_kernel.  Without the magic number it returns before it
   writes its results, which then hold what the stack held: page 0 here.  *)
ReadImage ==
  /\ pc = "image"
  /\ IF image.kind = "elf"
     THEN /\ image' = [image EXCEPT !.first = Segments[1].page, !.entry = EntryPage]
          /\ nextPage' = Segments[1].page
          /\ pc' = "segments"
     ELSE /\ pc' = "check kernel"
          /\ UNCHANGED <<image, nextPage>>
  /\ UNCHANGED <<firmwareVars, mapVars, i, memmap, bi, stackTop, loaded, layout,
                 events>>

SegmentBase == nextPage + request.count

(* One round of map_kernel's loop: the segments are put one after the other
   from the first one's address on.                                       *)
MapSegment ==
  /\ pc = "segments" /\ Settled /\ i < Len(Segments)
  /\ LET at == SegmentBase
         n == Segments[i + 1].count
     IN /\ nextPage' = at
        /\ IF Placements(n) = {}
           THEN /\ pc' = "check kernel"
                /\ loaded' = i
                /\ UNCHANGED <<firmwareVars, mapVars, layout, i>>
           ELSE /\ MapNewPages(at, n)
                /\ i' = i + 1
                /\ UNCHANGED <<pc, pool, poolPages, policy, loaded>>
  /\ UNCHANGED <<image, memmap, bi, stackTop, events>>

FinishImage ==
  /\ pc = "segments" /\ Settled /\ i = Len(Segments)
  /\ nextPage' = nextPage + request.count
  /\ loaded' = i
  /\ pc' = "check kernel"
  /\ UNCHANGED <<firmwareVars, mapVars, image, i, memmap, bi, stackTop, layout,
                 events>>

(* map_kernel's status is not looked at; the two addresses are. *)
CheckKernel ==
  /\ pc = "check kernel"
  /\ CheckThen({image.first, image.entry}, "processors")
  /\ UNCHANGED <<firmwareVars, mapVars, loaderVars>>

(* get_mp_info, which the firmware may not support. *)
CountProcessors ==
  /\ pc = "processors"
  /\ \/ GoTo("failed")
     \/ /\ pc' = "stacks"
        /\ stackTop' = nextPage + 1 + StackPages
        /\ i' = 0
        /\ UNCHANGED <<firmwareVars, mapVars, nextPage, image, memmap, bi, loaded,
                       layout, events>>

StackBase == nextPage + 1

(* One round of the stack loop: a page is left out as a guard. *)
MapStack ==
  /\ pc = "stacks" /\ Settled /\ i < Cpus
  /\ IF Placements(StackPages) = {} THEN GoTo("failed")
     ELSE /\ MapNewPages(StackBase, StackPages)
          /\ nextPage' = StackBase + StackPages
          /\ i' = i + 1
          /\ UNCHANGED <<pc, pool, poolPages, policy, image, memmap, bi, stackTop, loaded,
                         events>>

MutantFramebufferEnd == nextPage
FramebufferEnd == nextPage + FramebufferPages

MapFramebuffer ==
  /\ pc = "stacks" /\ Settled /\ i = Cpus
  /\ \/ /\ pc' = "frame buffer" /\ TRUE \in CheckOutcomes(stackTop - 1)
        /\ StartMapping(nextPage, FramebufferBase, FramebufferPages)
        /\ bi' = [bi EXCEPT !.framebuffer = nextPage]
        /\ nextPage' = FramebufferEnd
        /\ UNCHANGED <<firmwareVars, image, i, memmap, stackTop, loaded, events>>
     \/ FALSE \in CheckOutcomes(stackTop - 1) /\ GoTo("failed")

InitrdEnd == nextPage + InitrdPages

(* initrd_base is physical until it is mapped, virtual from then on. *)
MapInitrd ==
  /\ pc = "frame buffer" /\ Settled
  /\ \/ /\ pc' = "initrd" /\ TRUE \in CheckOutcomes(bi.framebuffer)
        /\ StartMapping(nextPage, bi.initrd, InitrdPages)
        /\ bi' = [bi EXCEPT !.initrd = nextPage]
        /\ nextPage' = InitrdEnd
        /\ UNCHANGED <<firmwareVars, image, i, memmap, stackTop, loaded, events>>
     \/ FALSE \in CheckOutcomes(bi.framebuffer) /\ GoTo("failed")

MutantMapSize == Descriptors(type)
MapSize == Descriptors(type) + MapMargin

(* get_memmap, first half: the size is asked for, then the buffer allocated. *)
SizeMap(buffer, next) ==
  /\ IF PoolFails THEN GoTo("failed")
     ELSE /\ AllocatePool(buffer)
          /\ memmap' = [memmap EXCEPT !.size = MapSize]
          /\ pc' = next
          /\ UNCHANGED <<mapVars, nextPage, image, i, bi, stackTop, loaded, layout,
                         events>>

(* Second half: the map is copied, if the buffer is still large enough. *)
MapFits == Descriptors(type) <= memmap.size
PassedMap == type
CopiedMap == [memmap EXCEPT !.key = mapKey, !.types = type]

SizeTemporaryMap ==
  /\ pc = "initrd" /\ Settled
  /\ \/ TRUE \in CheckOutcomes(bi.initrd) /\ SizeMap("temporary", "get temporary")
     \/ FALSE \in CheckOutcomes(bi.initrd) /\ GoTo("failed")

GetTemporaryMap ==
  /\ pc = "get temporary"
  /\ IF ~MapFits THEN GoTo("failed")
     ELSE /\ memmap' = CopiedMap
          /\ pc' = "identity"
          /\ i' = 0
          /\ UNCHANGED <<firmwareVars, mapVars, nextPage, image, bi, stackTop,
                         loaded, layout, events>>

(* The loader's code is forgotten; the loop does not advance. *)
MutantOwnedData == {f \in Frames : f > i /\ memmap.types[f] = "LoaderData"}
MutantOwnedAgain == {f \in Frames : f >= i /\ memmap.types[f] \in {"LoaderCode", "LoaderData"}}

(* The pages of the loader in the temporary map, from the i-th on. *)
Owned == {f \in Frames : f > i /\ memmap.types[f] \in {"LoaderCode", "LoaderData"}}

MapIdentity ==
  /\ pc = "identity" /\ Settled /\ Owned # {}
  /\ StartMapping(Min(Owned), Min(Owned), 1)
  /\ i' = Min(Owned)
  /\ UNCHANGED <<pc, firmwareVars, nextPage, image, memmap, bi, stackTop, loaded,
                 events>>

(* The temporary map is freed and everything mapped is looked up again. *)
CheckMappings ==
  LET data == {f \in Frames : memmap.types[f] = "LoaderData"}
      code == {f \in Frames : memmap.types[f] = "LoaderCode"}
      checked == {image.first, image.entry, stackTop - 1, bi.framebuffer, bi.initrd,
                  Min(data), Max(code), pool["boot_info"]}
  IN /\ pc = "identity" /\ Settled /\ Owned = {}
     /\ FreePool("temporary")
     /\ bi' = [bi EXCEPT !.end = nextPage]
     /\ CheckThen(checked, "final map")
     /\ UNCHANGED <<mapVars, nextPage, image, i, memmap, stackTop, loaded, layout,
                    events>>

SizeFinalMap == pc = "final map" /\ SizeMap("final", "get final")

GetFinalMap ==
  /\ pc = "get final"
  /\ IF ~MapFits THEN GoTo("failed")
     ELSE /\ memmap' = CopiedMap
          /\ bi' = [bi EXCEPT !.map = PassedMap]
          /\ pc' = "exit"
          /\ UNCHANGED <<firmwareVars, mapVars, nextPage, image, i, stackTop, loaded,
                         layout, events>>

(* The status of ExitBootServices is dropped. *)
Mutantenter_kernel == pc = "exit" /\ GoTo("entered")

(* ExitBootServices refuses a key that is not the current one; there is no
   second attempt.                                                        *)
enter_kernel ==
  /\ pc = "exit"
  /\ GoTo(IF memmap.key = mapKey THEN "entered" ELSE "failed")

Next ==
  \/ AllocateBootInfo \/ LoadBootImage \/ FindKernel \/ CreatePageTables \/ ReadImage
  \/ MapSegment \/ FinishImage \/ CheckKernel \/ CountProcessors \/ MapStack
  \/ MapFramebuffer \/ MapInitrd \/ SizeTemporaryMap \/ GetTemporaryMap
  \/ MapIdentity \/ CheckMappings \/ SizeFinalMap \/ GetFinalMap \/ enter_kernel
  \/ MapPage \/ MapPageFails \/ FirmwareEvent

(* One processor runs the loader, so its own steps are taken while one can. *)
Spec == Init /\ [][Next]_vars /\ WF_vars(Next)
-----------------------------------------------------------------------------
(* The types of the variables; an area is a range of pages put in the page
   tables by one call.                                                    *)
LoaderTypeOK ==
  /\ type \in [Frames -> {"LoaderCode", "LoaderData", "BootServicesData", "Conventional"}]
  /\ mapKey \in Nat /\ events \in 0 .. MaxEvents
  /\ pool \in [{"boot_info", "temporary", "final"} -> Frames \cup {Absent}]
  /\ poolPages \subseteq Frames
  /\ \A k \in DOMAIN tables : tables[k] \in Frames
  /\ mapping \in [Pages -> 1 .. (MemoryPages + FramebufferPages) \cup {Absent}]
  /\ request \in Requests /\ done \in 0 .. request.count
  /\ nextPage \in Nat /\ loaded \in 0 .. Len(Segments)
  /\ layout \subseteq Requests

AtKernel == pc = "entered"

(* The kernel is entered with the firmware's last memory map: no change the
   firmware made after the copy slips through ExitBootServices.           *)
KernelSeesFinalMap == AtKernel => bi.map = type

(* Nothing the kernel runs on lies in memory its map calls free: the image,
   the stacks, the initrd, the page tables, the boot information, the map
   itself.  The kernel's allocators hand out whatever is free in it.      *)
InUse == {tables[k] : k \in DOMAIN tables}
         \cup (UNION {Span(a.frame, a.count) : a \in {b \in layout : b.vaddr > MemoryPages}})
         \cup {pool["boot_info"], pool["final"]}
FreeIsFree == AtKernel => \A f \in InUse \cap Frames : bi.map[f] # "Conventional"

(* The map the kernel gets can be trusted: it is the firmware's last one, and
   what the loader still uses is not free in it (virtual.cpp:46-99).      *)
MapIsTrue == KernelSeesFinalMap /\ FreeIsFree

(* What was mapped first is still mapped: no later area (stack, frame buffer,
   initrd, identity map) runs over an earlier one.                        *)
AreasKept ==
  \A a \in layout : \A k \in 0 .. (a.count - 1) : mapping[a.vaddr + k] = a.frame + k

(* Each processor's stack is mapped below its top, and overrunning it hits
   a page that is not mapped.                                             *)
StacksGuarded ==
  \A cpu \in 0 .. (Cpus - 1) :
    LET guard == stackTop - StackPages - 1 + cpu * (StackPages + 1)
    IN /\ mapping[guard] = Absent
       /\ \A v \in Span(guard + 1, StackPages) : mapping[v] # Absent

(* memory_end, from which the kernel reserves virtual memory, lies past
   everything the loader mapped, and wastes nothing.                      *)
EndIsPastAll ==
  /\ mapping[bi.end - 1] # Absent
  /\ \A v \in Pages : v >= bi.end => mapping[v] = Absent

(* Every segment that was loaded is where it was linked, although its
   address is never read.                                                 *)
SegmentsWhereLinked ==
  \A k \in 1 .. loaded :
    \E a \in layout : a.vaddr = Segments[k].page /\ a.count = Segments[k].count

(* The layout of virtual memory that a dozen running sums over next_page
   produce is consistent when the kernel is entered (virtual.cpp:142-355).
   An image that is no ELF file leaves next_page undefined.               *)
LayoutKept ==
  /\ AtKernel => SegmentsWhereLinked
  /\ AtKernel /\ image.kind = "elf" => AreasKept /\ StacksGuarded /\ EndIsPastAll

(* The code that switches page tables and the boot information it passes
   are mapped one to one when it does.                                    *)
HandoffMapped ==
  AtKernel => /\ mapping[pool["boot_info"]] = pool["boot_info"]
              /\ \A f \in Frames : type[f] = "LoaderCode" => mapping[f] = f

(* The margin is wide enough for the loader's own allocation of the buffer
   and for as many changes by the firmware as it has pairs of descriptors:
   a change splits a run of pages in three at most.                       *)
MarginSuffices ==
  pc \in {"get temporary", "get final"} /\ 2 * events <= MapMargin => MapFits

(* The loader never hangs: it enters the kernel or reports an error. *)
BootEnds == <>(pc \in {"entered", "failed"})

(* Its page tables behave like the kernel's: each map_pages call maps what
   was asked, in order, and disturbs no other page.                       *)
AS == INSTANCE AddressSpace WITH PageSize <- 1
AddressSpaceSpec == AS!Spec

(* Whenever the kernel runs, all of it was loaded.  (It need not be.) *)
KernelComplete == AtKernel => loaded = Len(Segments)

===============================================================================
