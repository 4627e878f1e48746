---------------------------- MODULE AllocatorInit ----------------------------
(***************************************************************************)
(* The boot of physical memory management: DefaultKernelContext's          *)
(* constructor runs DefaultPhysicalMemoryAllocator::init over a            *)
(* UefiMemoryBootstrapper, makes the allocator the kernel's own, and the   *)
(* bootstrapper is destroyed.  init reserves virtual space for the bitmap, *)
(* backs it with frames of the bootstrap allocator, fills it, and clears   *)
(* the bits of the ranges the memory map reports free.                     *)
(*                                                                         *)
(* Bit p of the bitmap stands for frame p; a set bit is membership in      *)
(* bitmap.                                                                 *)
(***************************************************************************)
EXTENDS UefiBootstrap, SequencesExt

CONSTANTS
  ByteBits,      \* UINT8_WIDTH
  BitsPerPage,   \* kBitsPerPage, the bits in one page of the bitmap
  UINTPTR_MAX

ASSUME BitmapAssumption ==
  /\ ByteBits \in Nat \ {0} /\ BitsPerPage \in Nat \ {0}
  /\ BitsPerPage % ByteBits = 0
  /\ UINTPTR_MAX \in Nat
  /\ \A m \in InitialMaps : calcMemSize(m) + BitsPerPage <= UINTPTR_MAX

VARIABLES
  initializationStatus,
  bitmap,
  lowestFreePage,
  pageAllocator,    \* what kernel->pageAllocator() is
  pc,               \* where init is
  pagesNeeded,      \* its locals: pages of the bitmap still to be backed,
  newPages,         \* the frames for the next of them,
  currentPage,      \* and the part of a range whose bits are still set
  endPage,
  backing,          \* history: the frames that hold the bitmap
  cleared           \* history: the bits memset has set

initVars == <<initializationStatus, bitmap, lowestFreePage, pageAllocator, pc,
              pagesNeeded, newPages, currentPage, endPage, backing, cleared>>
vars == <<bootVars, initVars>>

bitmapPages == (memSize + BitsPerPage - 1) \div BitsPerPage
bitmapBits == bitmapPages * BitsPerPage
Frames == 0 .. (bitmapBits - 1)

(* The bits held by n pages of the bitmap from its page k on. *)
BitsOfPages(k, n) == (k * BitsPerPage) .. ((k + n) * BitsPerPage - 1)

(* The allocator before init thinks of every page as free. *)
MutantInitHintZero ==
  /\ Construct
  /\ initializationStatus = "Uninitialized"
  /\ bitmap = {}
  /\ lowestFreePage = 0
  /\ pageAllocator = "bootstrap"
  /\ pc = "reserve"
  /\ pagesNeeded = bitmapPages
  /\ newPages = [address |-> 0, count |-> 0]
  /\ currentPage = 0 /\ endPage = 0
  /\ backing = {} /\ cleared = {}

Init ==
  /\ Construct
  /\ initializationStatus = "Uninitialized"
  /\ bitmap = {}
  /\ lowestFreePage = UINTPTR_MAX
  /\ pageAllocator = "bootstrap"
  /\ pc = "reserve"
  /\ pagesNeeded = bitmapPages
  /\ newPages = [address |-> 0, count |-> 0]
  /\ currentPage = 0 /\ endPage = 0
  /\ backing = {} /\ cleared = {}

-----------------------------------------------------------------------------
(* init, 102-113: virtual space for the whole bitmap, or an early return
   that leaves the status as it is.                                       *)
Reserve ==
  /\ pc = "reserve"
  /\ reserveVirtualMemory(pagesNeeded)
  /\ pc' = IF answer' = "Ok" THEN "back" ELSE "failed"
  /\ UNCHANGED <<initializationStatus, bitmap, lowestFreePage, pageAllocator,
                 pagesNeeded, newPages, currentPage, endPage, backing, cleared>>

(* The loop that backs the bitmap (119-142): frames for as many pages as one
   descriptor has, or an early return, again with the status as it is.     *)
AllocateBacking ==
  /\ pc = "back"
  /\ pagesNeeded > 0
  /\ bootstrapAllocatePages(pagesNeeded)
  /\ IF answer' = "Ok"
     THEN /\ newPages' = Last(handedOut')
          /\ backing' = backing \cup FramesOf(newPages'.address, newPages'.count)
          /\ pc' = "map"
     ELSE pc' = "failed" /\ UNCHANGED <<newPages, backing>>
  /\ UNCHANGED <<initializationStatus, bitmap, lowestFreePage, pageAllocator,
                 pagesNeeded, currentPage, endPage, cleared>>

(* PageTables::map finds every page table it needs. *)
MapSucceeds ==
  /\ initializationStatus' = "Ok"
  /\ pc' = "fill"
  /\ UNCHANGED lowestFreePage

(* A page table is missing, and map asks the kernel's own allocator, the one
   being initialized, for a page.  Its status is still Uninitialized, or it
   is what an earlier map left: then the search, from UINTPTR_MAX, ends
   where it begins.                                                       *)
MapFails ==
  /\ IF initializationStatus = "Ok"
     THEN initializationStatus' = "OutOfMemory" /\ lowestFreePage' = bitmapBits
     ELSE initializationStatus' = "InitializationError"
          /\ UNCHANGED lowestFreePage
  /\ pc' = "failed"

MapBacking ==
  /\ pc = "map"
  /\ MapSucceeds \/ MapFails
  /\ UNCHANGED <<bootVars, bitmap, pageAllocator, pagesNeeded, newPages,
                 currentPage, endPage, backing, cleared>>

(* memset covers one page of those just mapped; what the others hold is
   whatever the frames held before.                                       *)
Fill(first, count) ==
  /\ cleared' = cleared \cup BitsOfPages(first, 1)
  /\ \E stale \in SUBSET BitsOfPages(first + 1, count - 1) :
       bitmap' = bitmap \cup BitsOfPages(first, 1) \cup stale

FillBacking ==
  /\ pc = "fill"
  /\ Fill(bitmapPages - pagesNeeded, newPages.count)
  /\ pagesNeeded' = pagesNeeded - newPages.count
  /\ pc' = "back"
  /\ UNCHANGED <<bootVars, initializationStatus, lowestFreePage, pageAllocator,
                 newPages, currentPage, endPage, backing>>

(* The loop over the free ranges (145-172): the next range, or the end. *)
NextRange ==
  /\ \/ pc = "back" /\ pagesNeeded = 0
     \/ pc = "enumerate"
  /\ move_next
  /\ IF answer' = "True"
     THEN /\ currentPage' = current'.address
          /\ endPage' = current'.address + current'.count
          /\ lowestFreePage' = Min({lowestFreePage, current'.address})
          /\ pc' = "firstByte"
          /\ UNCHANGED initializationStatus
     ELSE /\ initializationStatus' = "Ok"
          /\ pc' = "complete"
          /\ UNCHANGED <<currentPage, endPage, lowestFreePage>>
  /\ UNCHANGED <<bitmap, pageAllocator, pagesNeeded, newPages, backing, cleared>>

(* makeUnsetBitsMask: the bits from currentPage to the end of its byte, or to
   endPage if that is sooner.                                             *)
RestOfByte ==
  {p \in currentPage .. (endPage - 1) : p \div ByteBits = currentPage \div ByteBits}

ClearBits(bits) ==
  /\ bitmap' = bitmap \ bits
  /\ currentPage' = currentPage + Cardinality(bits)
  /\ UNCHANGED <<bootVars, initializationStatus, lowestFreePage, pageAllocator,
                 pagesNeeded, newPages, endPage, backing, cleared>>

FirstByte ==
  /\ pc = "firstByte"
  /\ ClearBits(IF currentPage % ByteBits # 0 THEN RestOfByte ELSE {})
  /\ pc' = "wholeBytes"

(* The loop clears a byte that the range only begins. *)
MutantWholeByteOverruns ==
  /\ pc = "wholeBytes"
  /\ currentPage < endPage
  /\ ClearBits(currentPage .. (currentPage + ByteBits - 1))
  /\ UNCHANGED pc

(* The loop clears a byte and forgets to move on. *)
MutantWholeByteStays ==
  /\ pc = "wholeBytes"
  /\ currentPage + ByteBits <= endPage
  /\ bitmap' = bitmap \ (currentPage .. (currentPage + ByteBits - 1))
  /\ UNCHANGED <<bootVars, initializationStatus, lowestFreePage, pageAllocator,
                 pc, pagesNeeded, newPages, currentPage, endPage, backing, cleared>>

WholeByte ==
  /\ pc = "wholeBytes"
  /\ currentPage + ByteBits <= endPage
  /\ ClearBits(currentPage .. (currentPage + ByteBits - 1))
  /\ UNCHANGED pc

LastByte ==
  /\ pc = "wholeBytes"
  /\ currentPage + ByteBits > endPage
  /\ ClearBits(RestOfByte)
  /\ pc' = "enumerate"

(* The constructor goes on, whatever init's outcome. *)
SwitchAllocator ==
  /\ pc \in {"complete", "failed"}
  /\ pageAllocator = "bootstrap"
  /\ pageAllocator' = "default"
  /\ UNCHANGED <<bootVars, initializationStatus, bitmap, lowestFreePage, pc,
                 pagesNeeded, newPages, currentPage, endPage, backing, cleared>>

(* kernel_boot_uefi leaves the scope of the bootstrapper. *)
DestroyBootstrapper ==
  /\ pageAllocator = "default"
  /\ alive
  /\ destroy
  /\ UNCHANGED initVars

Next ==
  \/ Reserve \/ AllocateBacking \/ MapBacking \/ FillBacking
  \/ NextRange \/ FirstByte \/ WholeByte \/ LastByte
  \/ SwitchAllocator \/ DestroyBootstrapper

Spec == Init /\ [][Next]_vars

(* One CPU runs the boot code straight through. *)
FairSpec == Spec /\ WF_vars(Next)

-----------------------------------------------------------------------------
InitTypeOK ==
  /\ initializationStatus \in {"Uninitialized", "Ok", "OutOfMemory",
                               "InitializationError"}
  /\ bitmap \subseteq Frames /\ cleared \subseteq Frames
  /\ lowestFreePage \in 0 .. bitmapBits \cup {UINTPTR_MAX}
  /\ pageAllocator \in {"bootstrap", "default"}
  /\ pc \in {"reserve", "back", "map", "fill", "enumerate", "firstByte",
             "wholeBytes", "complete", "failed"}
  /\ pagesNeeded \in 0 .. bitmapPages
  /\ currentPage <= endPage /\ endPage <= bitmapBits

(* The free ranges init was given. *)
Reported == FramesHandedOut \ backing

(* What FrameAllocator starts from.  When init completes, the bits of the
   ranges reported free are clear, those of the frames that back the bitmap
   included in what stays set, and no other bit of a page that was filled is
   touched by the three loops over a range's bytes.                       *)
BitmapMarksRanges ==
  pc = "complete" => /\ Reported \subseteq Frames
                     /\ Reported \cap bitmap = {}
                     /\ cleared \ Reported \subseteq bitmap

(* ... and the hint is the lowest of the frames reported, in whatever order
   the firmware lists them.                                               *)
HintIsLowest ==
  pc = "complete" =>
    IF Reported = {} THEN lowestFreePage = UINTPTR_MAX
    ELSE lowestFreePage = Min(Reported)

(* What FrameAllocator starts from: bitmap and hint agree with the ranges the
   firmware reported, in whatever order and alignment they come (init,
   paging.cpp:97-174).                                                    *)
AllocatorStart == BitmapMarksRanges /\ HintIsLowest

(* An init that returned early may leave the status Ok of an earlier map
   behind.  The allocator still grants nothing: it refuses, or its hint lies
   past the end of a bitmap of which only a part is mapped.               *)
FailedInitGrantsNothing ==
  pc = "failed" => initializationStatus # "Ok" \/ lowestFreePage >= bitmapBits

(* Boot ends: init returns and the bootstrapper is destroyed. *)
BootEnds == <>(pc \in {"complete", "failed"} /\ ~alive)

(* Every frame that was not reported free is marked used ("all 1's for
   "used" by default", paging.cpp:135).                                   *)
UsedByDefault == pc = "complete" => Frames \ Reported \subseteq bitmap
=============================================================================
