---------------------------- MODULE FrameAllocator ----------------------------
(***************************************************************************)
(* k::DefaultPhysicalMemoryAllocator after init: one bit per page frame,   *)
(* a cached lowestFreePage_, and allocatePages, whose search loop is taken *)
(* one iteration at a time.  The kernel runs on one CPU with interrupts    *)
(* off and nothing frees a page, so a call is entered only when the one    *)
(* before it has returned.                                                 *)
(*                                                                         *)
(* A page frame number stands for the physical address divided by          *)
(* kPageSize.  A set bit ("used") is membership in bitmap.                 *)
(***************************************************************************)
EXTENDS Integers, FiniteSets, Sequences, PartialSums

CONSTANTS
  ByteBits,     \* UINT8_WIDTH, the pages one byte of the bitmap covers
  LongBits,     \* UINT64_WIDTH, the pages one chunk covers
  BitmapLongs,  \* 64-bit words in the bitmap: bitmapSize_ / sizeof(uint64_t)
  UINTPTR_MAX,  \* what lowestFreePage_ holds until a free range is seen
  MemoryMaps,   \* the sets of frames init may find free
  Counts,       \* the page counts callers ask for
  MaxGrants     \* bound: no page is asked for after this many were granted

ASSUME WidthAssumption ==
  /\ ByteBits \in Nat \ {0}
  /\ LongBits \in Nat \ {0}
  /\ BitmapLongs \in Nat \ {0}

bitmapPages == BitmapLongs * LongBits
Frames == 0 .. (bitmapPages - 1)

ASSUME InputAssumption ==
  /\ UINTPTR_MAX \in Nat /\ UINTPTR_MAX > bitmapPages
  /\ MemoryMaps \subseteq SUBSET Frames
  /\ Counts \subseteq Nat /\ 1 \in Counts
  /\ MaxGrants \in Nat

VARIABLES
  initializationStatus,
  bitmap,           \* the frames whose bit is set
  lowestFreePage,
  pc,               \* "idle", in the "loop", or past it ("done")
  count,            \* the argument of the call in progress
  startPage,        \* its locals
  page,
  pagesAllocated,
  reply,            \* the status the last call returned
  usable,           \* history: the frames init found free
  before,           \* history: the bitmap when the call in progress began
  grants            \* history: the PageSets returned so far

locals == <<count, startPage, page, pagesAllocated, before>>
vars == <<initializationStatus, bitmap, lowestFreePage, pc, locals, reply,
          usable, grants>>

-----------------------------------------------------------------------------
(* The state init leaves behind (AllocatorInit).  If it completed, the bits
   of the free ranges are clear, all others set, and lowestFreePage_ is the
   lowest range start it saw.  If it gave up, no bit is ever looked at.    *)
FailedStatus == {"Uninitialized", "InitializationError", "OutOfMemory"}

IsLowest(f, S) == f \in S /\ \A g \in S : f <= g

Init ==
  /\ \/ initializationStatus = "Ok" /\ usable \in MemoryMaps
     \/ initializationStatus \in FailedStatus /\ usable = {}
  /\ bitmap = Frames \ usable
  /\ \/ usable = {} /\ lowestFreePage = UINTPTR_MAX
     \/ IsLowest(lowestFreePage, usable)
  /\ pc = "idle"
  /\ count = 0 /\ startPage = 0 /\ page = 0 /\ pagesAllocated = 0
  /\ reply = "None"
  /\ before = bitmap
  /\ grants = <<>>

(* The uint64_t the pointer cast reaches for pageNo: ptr[pageNo / 64].  It
   starts at pageNo only if pageNo is a multiple of 64.                   *)
Chunk(pageNo) ==
  LET i == pageNo \div LongBits IN (i * LongBits) .. (i * LongBits + LongBits - 1)

(* The switch on align = bit % 64 reaches its case 0 for every byte-aligned
   page; its other labels are multiples of UINT8_WIDTH and bit is below it,
   so they are never taken.                                               *)
ChunkCase == ((page % ByteBits) % LongBits) = 0

(* alignedFreeCheckAdvanceAndMark<uint64_t> returns true. *)
ChunkIsFree ==
  /\ ChunkCase
  /\ page + LongBits <= bitmapPages
  /\ count - pagesAllocated >= LongBits
  /\ Chunk(page) \cap bitmap = {}

-----------------------------------------------------------------------------
(* Entry of allocatePages(n): the two early returns, or the loop. *)
Refuse(n) ==
  /\ reply' = IF initializationStatus # "Ok" THEN "InitializationError"
              ELSE "OutOfRange"
  /\ UNCHANGED <<bitmap, lowestFreePage, pc, locals, grants>>

Enter(n) ==
  /\ count' = n
  /\ startPage' = lowestFreePage
  /\ page' = lowestFreePage
  /\ pagesAllocated' = 0
  /\ before' = bitmap
  /\ pc' = "loop"
  /\ UNCHANGED <<bitmap, lowestFreePage, reply, grants>>

allocatePages(n) ==
  /\ pc = "idle"
  /\ n > 0 => Len(grants) < MaxGrants
  /\ IF initializationStatus # "Ok" \/ n = 0 THEN Refuse(n) ELSE Enter(n)
  /\ UNCHANGED <<initializationStatus, usable>>

(* One iteration of the loop, at a page the bitmap covers. *)
AtPage ==
  /\ pc = "loop"
  /\ page < bitmapPages
  /\ UNCHANGED <<initializationStatus, usable, count, startPage, before,
                 reply, grants>>

(* The for loop's page++ is not accounted for. *)
MutantTakeChunkOffByOne ==
  /\ AtPage
  /\ ChunkIsFree
  /\ bitmap' = bitmap \cup Chunk(page)
  /\ page' = page + LongBits + 1
  /\ pagesAllocated' = pagesAllocated + LongBits
  /\ UNCHANGED <<lowestFreePage, pc>>

(* The chunk is counted as the bits of one byte. *)
MutantTakeChunkCountsByte ==
  /\ AtPage
  /\ ChunkIsFree
  /\ bitmap' = bitmap \cup Chunk(page)
  /\ page' = page + LongBits
  /\ pagesAllocated' = pagesAllocated + ByteBits
  /\ UNCHANGED <<lowestFreePage, pc>>

(* Fast way: mark a whole free chunk, and let the loop's page++ finish the
   advance over it.                                                       *)
TakeChunk ==
  /\ AtPage
  /\ ChunkIsFree
  /\ bitmap' = bitmap \cup Chunk(page)
  /\ page' = page + (LongBits - 1) + 1
  /\ pagesAllocated' = pagesAllocated + LongBits
  /\ UNCHANGED <<lowestFreePage, pc>>

(* The search resumes after a used page even when a run was begun. *)
MutantSkipUsedMidRun ==
  /\ AtPage
  /\ ~ChunkIsFree
  /\ page \in bitmap
  /\ page' = page + 1
  /\ UNCHANGED <<bitmap, lowestFreePage, pc, pagesAllocated>>

(* The search retries a used page without moving on. *)
MutantSkipUsedStays ==
  /\ AtPage
  /\ ~ChunkIsFree
  /\ page \in bitmap
  /\ pagesAllocated = 0
  /\ UNCHANGED <<bitmap, lowestFreePage, pc, page, pagesAllocated>>

(* Slow way, page in use: nothing taken yet, try the next page. *)
SkipUsed ==
  /\ AtPage
  /\ ~ChunkIsFree
  /\ page \in bitmap
  /\ pagesAllocated = 0
  /\ page' = page + 1
  /\ UNCHANGED <<bitmap, lowestFreePage, pc, pagesAllocated>>

(* Slow way, page in use: continuity is broken, leave the loop. *)
BreakRun ==
  /\ AtPage
  /\ ~ChunkIsFree
  /\ page \in bitmap
  /\ pagesAllocated # 0
  /\ pc' = "done"
  /\ UNCHANGED <<bitmap, lowestFreePage, page, pagesAllocated>>

(* The hint is set one page past the free page. *)
MutantFindHintPast ==
  /\ AtPage
  /\ ~ChunkIsFree
  /\ page \notin bitmap
  /\ count - pagesAllocated = 0
  /\ lowestFreePage' = page + 1
  /\ pc' = "done"
  /\ UNCHANGED <<bitmap, page, pagesAllocated>>

(* The courtesy update of the hint is left out. *)
MutantFindHintNone ==
  /\ AtPage
  /\ ~ChunkIsFree
  /\ page \notin bitmap
  /\ count - pagesAllocated = 0
  /\ pc' = "done"
  /\ UNCHANGED <<bitmap, lowestFreePage, page, pagesAllocated>>

(* Slow way, page free and enough pages already: keep it as the hint. *)
FindHint ==
  /\ AtPage
  /\ ~ChunkIsFree
  /\ page \notin bitmap
  /\ count - pagesAllocated = 0
  /\ lowestFreePage' = page
  /\ pc' = "done"
  /\ UNCHANGED <<bitmap, page, pagesAllocated>>

(* Slow way, page free and wanted: mark its bit. *)
TakePage ==
  /\ AtPage
  /\ ~ChunkIsFree
  /\ page \notin bitmap
  /\ count - pagesAllocated # 0
  /\ bitmap' = bitmap \cup {page}
  /\ pagesAllocated' = pagesAllocated + 1
  /\ page' = page + 1
  /\ UNCHANGED <<lowestFreePage, pc>>

(* The loop condition fails. *)
LeaveLoop ==
  /\ pc = "loop"
  /\ page >= bitmapPages
  /\ pc' = "done"
  /\ UNCHANGED <<initializationStatus, bitmap, lowestFreePage, locals, reply,
                 usable, grants>>

(* A request that is met only in part is answered with OutOfMemory. *)
MutantReturnOutOfMemoryWhenShort ==
  /\ pc = "done"
  /\ pagesAllocated < count
  /\ lowestFreePage' = bitmapPages
  /\ reply' = "OutOfMemory"
  /\ pc' = "idle"
  /\ UNCHANGED <<initializationStatus, bitmap, locals, usable, grants>>

(* After the loop: out of memory, or a PageSet whose address is computed
   from startPage.                                                        *)
ReturnOutOfMemory ==
  /\ pc = "done"
  /\ pagesAllocated = 0
  /\ lowestFreePage' = bitmapPages
  /\ reply' = "OutOfMemory"
  /\ pc' = "idle"
  /\ UNCHANGED <<initializationStatus, bitmap, locals, usable, grants>>

ReturnPages ==
  /\ pc = "done"
  /\ pagesAllocated # 0
  /\ grants' = Append(grants, [address |-> startPage, count |-> pagesAllocated])
  /\ reply' = "Ok"
  /\ pc' = "idle"
  /\ UNCHANGED <<initializationStatus, bitmap, lowestFreePage, locals, usable>>

(* allocatePage is allocatePages(1), of whose PageSet it keeps the address. *)
allocatePage == allocatePages(1)

Step == \/ TakeChunk \/ SkipUsed \/ BreakRun \/ FindHint \/ TakePage
        \/ LeaveLoop \/ ReturnOutOfMemory \/ ReturnPages

Next == (\E n \in Counts : allocatePages(n)) \/ allocatePage \/ Step

Spec == Init /\ [][Next]_vars

(* A call that was entered runs to its return: nothing can preempt it. *)
FairSpec == Spec /\ WF_vars(Step)

-----------------------------------------------------------------------------
PageNumbers == 0 .. bitmapPages \cup {UINTPTR_MAX}
PageSets == [address : Frames, count : 1 .. bitmapPages]

(* Every variable has its type: page never steps past the end of the bitmap
   (allocatePages, 228-286), so no bit outside bitmap_ is read or set.     *)
TypeOK ==
  /\ initializationStatus \in {"Ok"} \cup FailedStatus
  /\ bitmap \in SUBSET Frames /\ before \in SUBSET Frames
  /\ usable \in SUBSET Frames
  /\ lowestFreePage \in PageNumbers
  /\ startPage \in PageNumbers /\ page \in PageNumbers
  /\ pc \in {"idle", "loop", "done"}
  /\ count \in Counts \cup {0} /\ pagesAllocated \in Nat
  /\ reply \in {"None", "Ok", "OutOfMemory", "OutOfRange",
                "InitializationError"}
  /\ grants \in Seq(PageSets)

AllUsedBelow(p) == \A f \in Frames : f < p => f \in bitmap

(* No free frame is ever below the cached lowestFreePage_, whatever the
   calls, the memory map and the moment inside a call: a search that starts
   at the hint (line 223) misses nothing.                                 *)
HintSound == AllUsedBelow(lowestFreePage)

(* A word taken as a whole begins at page, although line 233 computes the
   alignment from page % 8: a word that begins before page, of a page that is
   only byte-aligned, is never seen free.                                 *)
ChunkAligned ==
  pc = "loop" /\ page < bitmapPages /\ ChunkIsFree => page % LongBits = 0

Run == (page - pagesAllocated) .. (page - 1)

(* The frames marked since the call's entry are the run, and were free. *)
RunTaken ==
  pc # "idle" => /\ bitmap = before \cup Run
                 /\ Run \cap before = {}

(* count - pagesAllocated (lines 196 and 230) does not wrap around. *)
NoOverAllocation == pc # "idle" => pagesAllocated <= count

(* A call marks one gapless run of frames that were free, just before page:
   no page is counted twice or left out by the word and page paths, the run
   never exceeds the count asked, and no frame below page is marked with a
   word (allocatePages 228-286).                                          *)
RunIsExact == RunTaken /\ NoOverAllocation /\ ChunkAligned

(* A call that answers OutOfMemory (288-291) leaves no free frame behind. *)
OutOfMemoryIsHonest ==
  pc = "idle" /\ reply = "OutOfMemory" => Frames \subseteq bitmap

CountsOf(sets) == [i \in DOMAIN sets |-> sets[i].count]
SumOfCounts == SumTo(CountsOf(grants), Len(grants))

(* Between calls the pages granted are as many as the frames taken out of
   the free ranges: no frame is lost to a call and none is granted for
   nothing.                                                               *)
Conservation ==
  pc = "idle" => SumOfCounts = Cardinality(usable \cap bitmap)

(* A call that was entered returns (the loop always makes progress). *)
CallReturns == pc # "idle" ~> pc = "idle"

-----------------------------------------------------------------------------
(* What holds while free memory was one region, and is lost with two. *)
IsRegion(S) == \A f, g \in S : f .. g \subseteq S
OneRegion == IsRegion(usable)

FramesOf(set) == set.address .. (set.address + set.count - 1)

(* The PageSet about to be returned names the frames the loop marked: the
   address, computed from startPage (line 293), is where the run begins.  *)
AddressIsRun ==
  pc = "done" /\ pagesAllocated # 0 => startPage = page - pagesAllocated

AddressIsRunInRegion == OneRegion => AddressIsRun

(* No frame is granted twice, and none that init did not find free. *)
NoDoubleGrant ==
  /\ \A i \in DOMAIN grants : FramesOf(grants[i]) \subseteq usable
  /\ \A i, j \in DOMAIN grants :
       i # j => FramesOf(grants[i]) \cap FramesOf(grants[j]) = {}

(* With one free region, a sequence of grants, each at an address computed
   from the hint the one before it left, never overlaps (277-295).        *)
NoDoubleGrantInRegion == OneRegion => NoDoubleGrant

(* The frames whose fate callers know: a call's effect is seen when it
   returns.                                                               *)
committed == IF pc = "idle" THEN bitmap ELSE before

Pool == INSTANCE FramePool WITH free <- Frames \ committed

PoolSpec == Pool!Spec

(* With one free region allocatePages implements the pool of FramePool: its
   search takes effect at once, and a short run or OutOfMemory tells the
   caller the truth about what is free (215-295).                         *)
PoolInRegion ==
  /\ OneRegion => Pool!Init
  /\ [][OneRegion => [Pool!Next]_(Pool!poolVars)]_vars
=============================================================================
