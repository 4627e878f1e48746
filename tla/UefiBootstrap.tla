---------------------------- MODULE UefiBootstrap ----------------------------
(***************************************************************************)
(* UefiMemoryBootstrapper: the kernel's view of the memory map the firmware*)
(* left behind.  Until the kernel's own allocator works, page frames leave *)
(* the map in two ways that share one index into it: the bootstrap         *)
(* allocator cuts pages off a free descriptor, and the iterator reports    *)
(* what is left of every free descriptor.  The object also hands out       *)
(* virtual pages above the kernel image, and its destructor unmaps what    *)
(* the loader had identity-mapped.                                         *)
(*                                                                         *)
(* Addresses are in pages, descriptors are numbered from 0 as in the code. *)
(***************************************************************************)
EXTENDS Integers, FiniteSets, Sequences, FiniteSetsExt

CONSTANTS
  InitialMaps,     \* the memory maps the loader may pass on
  BootCounts,      \* page counts asked of the bootstrap allocator
  ReserveCounts,   \* page counts asked of reserveVirtualMemory
  MemoryEnd,       \* bootInfo.memory_end: the first unmapped kernel page
  MemoryMapsEnd    \* the page after layout().memoryMapsEnd()

FramesOf(address, count) == address .. (address + count - 1)
FramesIn(d) == FramesOf(d.PhysicalStart, d.NumberOfPages)

(* The firmware lists no frame twice. *)
Descriptors == [Type : STRING, PhysicalStart : Nat, NumberOfPages : Nat]
RegionsApart(m) ==
  \A j, k \in DOMAIN m : j # k => FramesIn(m[j]) \cap FramesIn(m[k]) = {}

ASSUME MapAssumption ==
  \A m \in InitialMaps : m \in Seq(Descriptors) /\ RegionsApart(m)
ASSUME BootAssumption ==
  /\ BootCounts \subseteq Nat \ {0} /\ ReserveCounts \subseteq Nat \ {0}
  /\ MemoryEnd \in Nat /\ MemoryMapsEnd \in Nat
  /\ MemoryEnd <= MemoryMapsEnd   \* 512 GiB lie between them (paging.h:105-108)

isFreeMem(type) == type = "ConventionalMemory"
shouldBeUnmapped(type) == type \in {"LoaderCode", "LoaderData"}

VARIABLES
  memoryMap,            \* the descriptors: [Type, PhysicalStart, NumberOfPages]
  descriptorIndex,
  current,              \* the range move_next found last
  nextFreeVirtualPage,
  memSize,
  identityMapped,       \* frames whose identity mapping the loader made
  alive,                \* the bootstrapper has not been destroyed
  freeAtBoot,           \* history: the free frames of the firmware's map
  handedOut,            \* history: every PageSet allocated or reported
  reserved,             \* history: every virtual reservation
  answer                \* what the last operation returned

bootVars == <<memoryMap, descriptorIndex, current, nextFreeVirtualPage,
              memSize, identityMapped, alive, freeAtBoot, handedOut, reserved,
              answer>>

descriptorCount == Len(memoryMap)
Indices == 0 .. (descriptorCount - 1)
descriptor(i) == memoryMap[i + 1]

HasFreePages(d) == d.NumberOfPages > 0 /\ isFreeMem(d.Type)

(* The frames of the descriptors of map m that satisfy P(Type). *)
MapFrames(m, P(_)) ==
  UNION {FramesIn(m[k]) : k \in {j \in DOMAIN m : P(m[j].Type)}}

-----------------------------------------------------------------------------

calcMemSize(m) ==
  Max({0} \cup {m[k].PhysicalStart + m[k].NumberOfPages :
                  k \in {j \in DOMAIN m : isFreeMem(m[j].Type)}})

(* The constructor.  It sets descriptorIndex_ to -1, and the member that
   follows, the iterator, sets it to 0.                                   *)
Construct ==
  /\ memoryMap \in InitialMaps
  /\ descriptorIndex = 0
  /\ current = [address |-> 0, count |-> 0]
  /\ nextFreeVirtualPage = MemoryEnd
  /\ memSize = calcMemSize(memoryMap)
  /\ identityMapped = MapFrames(memoryMap, shouldBeUnmapped)
  /\ alive = TRUE
  /\ freeAtBoot = MapFrames(memoryMap, isFreeMem)
  /\ handedOut = <<>>
  /\ reserved = <<>>
  /\ answer = "None"

(* The reservation is made but the next one starts one page too low. *)
MutantReserveShort(pageCount) ==
  /\ IF nextFreeVirtualPage + pageCount >= MemoryMapsEnd
     THEN answer' = "OutOfMemory" /\ UNCHANGED <<nextFreeVirtualPage, reserved>>
     ELSE /\ answer' = "Ok"
          /\ nextFreeVirtualPage' = nextFreeVirtualPage + pageCount - 1
          /\ reserved' = Append(reserved, [address |-> nextFreeVirtualPage,
                                           count |-> pageCount])
  /\ UNCHANGED <<memoryMap, descriptorIndex, current, memSize, identityMapped,
                 alive, freeAtBoot, handedOut>>

(* memoryMapsEnd() is the last byte of its area, so a reservation that would
   end exactly there is refused as well.                                  *)
reserveVirtualMemory(pageCount) ==
  /\ IF nextFreeVirtualPage + pageCount >= MemoryMapsEnd
     THEN answer' = "OutOfMemory" /\ UNCHANGED <<nextFreeVirtualPage, reserved>>
     ELSE /\ answer' = "Ok"
          /\ nextFreeVirtualPage' = nextFreeVirtualPage + pageCount
          /\ reserved' = Append(reserved, [address |-> nextFreeVirtualPage,
                                           count |-> pageCount])
  /\ UNCHANGED <<memoryMap, descriptorIndex, current, memSize, identityMapped,
                 alive, freeAtBoot, handedOut>>

HandOut(set) == handedOut' = Append(handedOut, set)

(* The descriptors the bootstrap allocator may cut pages from: they follow
   the current one.                                                       *)
Candidates == {i \in Indices : i > descriptorIndex /\ HasFreePages(descriptor(i))}

(* Takes count pages even from a descriptor that has fewer. *)
MutantCutWholeCount(i, count) ==
  /\ memoryMap' = [memoryMap EXCEPT ![i + 1].NumberOfPages = @ - count,
                                    ![i + 1].PhysicalStart = @ + count]
  /\ HandOut([address |-> descriptor(i).PhysicalStart, count |-> count])

(* Takes at most count pages from the low end of descriptor i. *)
Cut(i, count) ==
  LET d == descriptor(i)
      n == Min({count, d.NumberOfPages}) IN
    /\ memoryMap' = [memoryMap EXCEPT ![i + 1] =
                       [Type |-> d.Type, PhysicalStart |-> d.PhysicalStart + n,
                        NumberOfPages |-> d.NumberOfPages - n]]
    /\ HandOut([address |-> d.PhysicalStart, count |-> n])

(* UefiBootstrapPhysicalMemoryAllocator::allocatePages. *)
bootstrapAllocatePages(count) ==
  /\ IF Candidates = {}
     THEN answer' = "OutOfMemory" /\ UNCHANGED <<memoryMap, handedOut>>
     ELSE answer' = "Ok" /\ Cut(Min(Candidates), count)
  /\ UNCHANGED <<descriptorIndex, current, nextFreeVirtualPage, memSize,
                 identityMapped, alive, freeAtBoot, reserved>>

bootstrapAllocatePage == bootstrapAllocatePages(1)

(* The pages of a reported descriptor are not zeroed. *)
MutantReportKeepsPages(i) ==
  LET d == descriptor(i)
      set == [address |-> d.PhysicalStart, count |-> d.NumberOfPages] IN
    /\ current' = set
    /\ HandOut(set)
    /\ descriptorIndex' = i
    /\ UNCHANGED memoryMap

(* Reports all of descriptor i, and prevents its reuse. *)
Report(i) ==
  LET d == descriptor(i)
      set == [address |-> d.PhysicalStart, count |-> d.NumberOfPages] IN
    /\ current' = set
    /\ HandOut(set)
    /\ descriptorIndex' = i
    /\ memoryMap' = [memoryMap EXCEPT ![i + 1].NumberOfPages = 0]

(* The descriptors the iterator has yet to report, from the current one on. *)
Unreported == {i \in Indices : i >= descriptorIndex /\ HasFreePages(descriptor(i))}

(* One step of the iterator.  The index stays on the descriptor reported, and
   moves past the end when there is none.                                 *)
move_next ==
  /\ IF Unreported # {}
     THEN answer' = "True" /\ Report(Min(Unreported))
     ELSE /\ answer' = "False"
          /\ descriptorIndex' = Max({descriptorIndex, descriptorCount})
          /\ UNCHANGED <<memoryMap, current, handedOut>>
  /\ UNCHANGED <<nextFreeVirtualPage, memSize, identityMapped, alive,
                 freeAtBoot, reserved>>

(* The destructor.  Its loop breaks after the first loader descriptor. *)
destroy ==
  LET loader == {i \in Indices : shouldBeUnmapped(descriptor(i).Type)} IN
    /\ alive' = FALSE
    /\ identityMapped' = IF loader = {} THEN identityMapped
                         ELSE identityMapped \ FramesIn(descriptor(Min(loader)))
    /\ answer' = "None"
    /\ UNCHANGED <<memoryMap, descriptorIndex, current, nextFreeVirtualPage,
                   memSize, freeAtBoot, handedOut, reserved>>

-----------------------------------------------------------------------------
(* A client of the public operations, in any order, until the destructor
   runs.  The kernel's own order is that of AllocatorInit.                *)
Operation ==
  /\ alive
  /\ \/ \E n \in ReserveCounts : reserveVirtualMemory(n)
     \/ \E n \in BootCounts : bootstrapAllocatePages(n)
     \/ bootstrapAllocatePage
     \/ move_next
     \/ destroy

BootSpec == Construct /\ [][Operation]_bootVars

BootTypeOK ==
  /\ \A k \in DOMAIN memoryMap :
       memoryMap[k].PhysicalStart \in Nat /\ memoryMap[k].NumberOfPages \in Nat
  /\ descriptorIndex \in 0 .. descriptorCount
  /\ nextFreeVirtualPage \in MemoryEnd .. MemoryMapsEnd
  /\ memSize \in Nat
  /\ alive \in BOOLEAN
  /\ identityMapped \cap freeAtBoot = {}
  /\ answer \in {"None", "Ok", "OutOfMemory", "True", "False"}

Apart(sets) ==
  \A i, j \in DOMAIN sets :
    i # j => FramesOf(sets[i].address, sets[i].count)
               \cap FramesOf(sets[j].address, sets[j].count) = {}

FramesHandedOut ==
  UNION {FramesOf(handedOut[i].address, handedOut[i].count) :
           i \in DOMAIN handedOut}

FramesLeft == MapFrames(memoryMap, isFreeMem)

(* Allocation and iteration share the map, in any order: no frame leaves it
   twice, be it allocated to the bitmap or reported to the allocator as free
   (allocatePages 87-88 against move_next 102).                           *)
HandedOutOnce == Apart(handedOut) /\ FramesHandedOut \cap FramesLeft = {}

(* No free frame of the firmware's map is lost on the way, and none appears
   that the map did not have.                                             *)
NothingLost == FramesHandedOut \cup FramesLeft = freeAtBoot

(* Once the iterator has ended, every free frame has been allocated or
   reported: the index that both use never skips a descriptor that still
   has pages.                                                             *)
IterationComplete == answer = "False" => FramesLeft = {}

(* What is handed out lies below memorySize(), from which the bitmap of the
   allocator is sized, although the firmware may list its regions in any
   order.                                                                 *)
WithinMemorySize == \A f \in FramesHandedOut : f < memSize

(* Bootstrap allocation and iteration share the firmware's map, in any order:
   each frame leaves it once, none is lost or made up, and when the iterator
   has ended none is left; all lie below the memory size from which the
   bitmap is sized (uefi_shim.cpp:75-142).                                *)
EveryFrameOnce ==
  HandedOutOnce /\ NothingLost /\ IterationComplete /\ WithinMemorySize

(* Virtual reservations never overlap and stay below the page tables' area. *)
ReservationsApart ==
  /\ Apart(reserved)
  /\ \A i \in DOMAIN reserved :
       reserved[i].address + reserved[i].count <= MemoryMapsEnd

(* The bootstrap allocator is out of memory only if no descriptor that has
   not been reported has free pages ("Start past current; on something that
   hasn't already been reported", uefi_shim.cpp:80).                      *)
BootstrapOutOfMemoryHonest ==
  [][ (\E n \in BootCounts : bootstrapAllocatePages(n)) /\ answer' = "OutOfMemory"
        => FramesLeft = {} ]_bootVars

(* The destructor unmaps the loader's code and data ("Unmap UEFI loader code
   and data that was identity-mapped in", uefi_shim.cpp:38).              *)
LoaderUnmapped == ~alive => identityMapped = {}
=============================================================================
