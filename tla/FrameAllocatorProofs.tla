------------------------- MODULE FrameAllocatorProofs -------------------------
(***************************************************************************)
(* Proofs about FrameAllocator, for every width, bitmap size, memory map   *)
(* and request.  The first part holds of every memory map; the second part *)
(* needs a map of one region.                                              *)
(***************************************************************************)
EXTENDS FrameAllocator, NaturalLemmas, FiniteSetTheorems, TLAPS

-----------------------------------------------------------------------------
(* Facts about constants and operators. *)

(* The division of alignedFreeCheckAdvanceAndMark: the word that holds page
   p begins at or below p and ends above it.                              *)
LEMMA ChunkStart ==
  ASSUME NEW p \in Nat
  PROVE  /\ p \div LongBits \in Nat
         /\ (p \div LongBits) * LongBits \in Nat
         /\ (p \div LongBits) * LongBits <= p
         /\ p < (p \div LongBits) * LongBits + LongBits
         /\ p % LongBits = p - (p \div LongBits) * LongBits
  BY WidthAssumption

LEMMA BitmapPagesNat == bitmapPages \in Nat
  BY WidthAssumption DEF bitmapPages

LEMMA IntervalsJoin ==
  ASSUME NEW a \in Int, NEW b \in Int, NEW c \in Int, a <= b, b <= c + 1
  PROVE  a .. c = a .. (b - 1) \cup b .. c
  OBVIOUS

(* A chunk that is seen free although its page has no free frame below it is
   the chunk that begins at the page.                                     *)
LEMMA FreeChunkIsAligned ==
  ASSUME page \in Nat, page < bitmapPages, AllUsedBelow(page), ChunkIsFree
  PROVE  /\ page % LongBits = 0
         /\ Chunk(page) = page .. (page + LongBits - 1)
  <1> DEFINE s == (page \div LongBits) * LongBits
  <1>1. s \in Nat /\ s <= page /\ page < s + LongBits /\ page % LongBits = page - s
    BY ChunkStart
  <1>2. Chunk(page) = s .. (s + LongBits - 1)
    BY DEF Chunk
  <1>3. s = page
    <2>1. SUFFICES ASSUME s < page PROVE FALSE
      BY <1>1
    <2>2. s \in Frames
      BY <1>1, <2>1, BitmapPagesNat DEF Frames
    <2>3. s \in bitmap
      BY <2>1, <2>2 DEF AllUsedBelow
    <2>4. s \in Chunk(page)
      BY <1>1, <1>2, WidthAssumption
    <2> QED
      BY <2>3, <2>4 DEF ChunkIsFree
  <1> HIDE DEF s
  <1> QED
    BY <1>1, <1>2, <1>3

-----------------------------------------------------------------------------
(* What a call in progress has done, on any memory map. *)
CallInv ==
  pc # "idle" =>
    /\ count > 0
    /\ startPage <= page - pagesAllocated
    /\ pagesAllocated # 0 => page <= bitmapPages
    /\ AllUsedBelow(page)

(* A call that found nothing has seen every frame in use. *)
NothingFound == pc = "done" /\ pagesAllocated = 0 => Frames \subseteq bitmap

IInv ==
  /\ TypeOK
  /\ HintSound
  /\ CallInv
  /\ RunTaken
  /\ NoOverAllocation
  /\ NothingFound
  /\ OutOfMemoryIsHonest

LEMMA InitIInv == Init => IInv
  <1> SUFFICES ASSUME Init PROVE IInv
    OBVIOUS
  <1> USE InputAssumption, BitmapPagesNat
  <1>1. usable \in SUBSET Frames /\ bitmap = Frames \ usable
    BY DEF Init
  <1>2. lowestFreePage \in PageNumbers /\ HintSound
    <2>1. CASE usable = {} /\ lowestFreePage = UINTPTR_MAX
      BY <1>1, <2>1 DEF PageNumbers, HintSound, AllUsedBelow
    <2>2. CASE IsLowest(lowestFreePage, usable)
      BY <1>1, <2>2 DEF PageNumbers, HintSound, AllUsedBelow, IsLowest, Frames
    <2> QED
      BY <2>1, <2>2 DEF Init
  <1>3. TypeOK
    BY <1>1, <1>2 DEF Init, TypeOK, PageNumbers
  <1> QED
    BY <1>2, <1>3 DEF Init, IInv, CallInv, RunTaken, NoOverAllocation,
       NothingFound, OutOfMemoryIsHonest

(* One lemma per step of the loop that marks frames; the others are short
   enough for the step lemma.                                             *)
LEMMA TakeChunkIInv == IInv /\ TakeChunk => IInv'
  <1> SUFFICES ASSUME IInv, TakeChunk PROVE IInv'
    OBVIOUS
  <1> DEFINE taken == page .. (page + LongBits - 1)
  <1>1. /\ pc = "loop" /\ pc' = "loop" /\ page < bitmapPages /\ ChunkIsFree
        /\ page' = page + LongBits /\ pagesAllocated' = pagesAllocated + LongBits
        /\ bitmap' = bitmap \cup Chunk(page)
        /\ UNCHANGED <<initializationStatus, usable, count, startPage, before,
                       reply, grants, lowestFreePage>>
    BY WidthAssumption DEF TakeChunk, AtPage, IInv, TypeOK, PageNumbers
  <1>2. /\ page \in Nat /\ pagesAllocated \in Nat /\ count \in Nat
        /\ lowestFreePage \in Nat /\ startPage \in Nat
    BY InputAssumption, BitmapPagesNat DEF IInv, TypeOK, PageNumbers
  <1>3. page + LongBits <= bitmapPages /\ pagesAllocated + LongBits <= count
    BY <1>1, <1>2, WidthAssumption DEF ChunkIsFree
  <1>4. AllUsedBelow(page) /\ startPage <= page - pagesAllocated
    BY <1>1 DEF IInv, CallInv
  <1>5. Chunk(page) = taken /\ taken \cap bitmap = {} /\ taken \subseteq Frames
    BY <1>1, <1>2, <1>3, <1>4, FreeChunkIsAligned, BitmapPagesNat,
       WidthAssumption DEF ChunkIsFree, Frames
  <1>6. bitmap' = bitmap \cup taken
    BY <1>1, <1>5
  <1>7. TypeOK'
    BY <1>1, <1>2, <1>3, <1>5, <1>6, WidthAssumption, BitmapPagesNat
       DEF IInv, TypeOK, PageNumbers
  <1>8. HintSound'
    BY <1>1, <1>6 DEF IInv, HintSound, AllUsedBelow
  <1>9. CallInv'
    <2>1. AllUsedBelow(page)'
      BY <1>1, <1>2, <1>4, <1>6, WidthAssumption DEF AllUsedBelow, Frames
    <2> QED
      BY <2>1, <1>1, <1>2, <1>3, <1>4, WidthAssumption, BitmapPagesNat
         DEF IInv, CallInv
  <1>10. RunTaken'
    <2>1. bitmap = before \cup Run /\ Run \cap before = {}
      BY <1>1 DEF IInv, RunTaken
    <2>2. Run' = (page - pagesAllocated) .. (page + LongBits - 1)
      BY <1>1, <1>2, WidthAssumption DEF Run
    <2>3. Run' = Run \cup taken
      <3> DEFINE first == page - pagesAllocated
                 last == page + LongBits - 1
      <3>1. /\ first \in Int /\ page \in Int /\ last \in Int
            /\ first <= page /\ page <= last + 1
        BY <1>2, WidthAssumption
      <3> HIDE DEF first, last
      <3>2. first .. last = first .. (page - 1) \cup page .. last
        BY <3>1, IntervalsJoin
      <3> QED
        BY <2>2, <3>2 DEF first, last, Run
    <2> QED
      BY <2>1, <2>3, <1>1, <1>5, <1>6 DEF RunTaken
  <1>11. NoOverAllocation' /\ NothingFound' /\ OutOfMemoryIsHonest'
    BY <1>1, <1>3 DEF NoOverAllocation, NothingFound, OutOfMemoryIsHonest
  <1> QED
    BY <1>7, <1>8, <1>9, <1>10, <1>11 DEF IInv

LEMMA TakePageIInv == IInv /\ TakePage => IInv'
  <1> SUFFICES ASSUME IInv, TakePage PROVE IInv'
    OBVIOUS
  <1>1. /\ pc = "loop" /\ pc' = "loop" /\ page < bitmapPages
        /\ page \notin bitmap /\ count - pagesAllocated # 0
        /\ page' = page + 1 /\ pagesAllocated' = pagesAllocated + 1
        /\ bitmap' = bitmap \cup {page}
        /\ UNCHANGED <<initializationStatus, usable, count, startPage, before,
                       reply, grants, lowestFreePage>>
    BY DEF TakePage, AtPage
  <1>2. /\ page \in Nat /\ pagesAllocated \in Nat /\ count \in Nat
        /\ lowestFreePage \in Nat /\ startPage \in Nat
    BY InputAssumption, BitmapPagesNat DEF IInv, TypeOK, PageNumbers
  <1>3. /\ AllUsedBelow(page) /\ startPage <= page - pagesAllocated
        /\ pagesAllocated <= count
    BY <1>1 DEF IInv, CallInv, NoOverAllocation
  <1>4. page \in Frames
    BY <1>1, <1>2, BitmapPagesNat DEF Frames
  <1>5. TypeOK'
    BY <1>1, <1>2, <1>4, BitmapPagesNat DEF IInv, TypeOK, PageNumbers
  <1>6. HintSound'
    BY <1>1 DEF IInv, HintSound, AllUsedBelow
  <1>7. CallInv'
    <2>1. AllUsedBelow(page)'
      BY <1>1, <1>2, <1>3 DEF AllUsedBelow, Frames
    <2> QED
      BY <2>1, <1>1, <1>2, <1>3, BitmapPagesNat DEF IInv, CallInv
  <1>8. RunTaken'
    <2>1. bitmap = before \cup Run /\ Run \cap before = {}
      BY <1>1 DEF IInv, RunTaken
    <2>2. Run' = Run \cup {page}
      BY <1>1, <1>2, <1>3 DEF Run
    <2> QED
      BY <2>1, <2>2, <1>1 DEF RunTaken
  <1>9. NoOverAllocation' /\ NothingFound' /\ OutOfMemoryIsHonest'
    BY <1>1, <1>2, <1>3 DEF NoOverAllocation, NothingFound, OutOfMemoryIsHonest
  <1> QED
    BY <1>5, <1>6, <1>7, <1>8, <1>9 DEF IInv

LEMMA NextIInv == IInv /\ [Next]_vars => IInv'
  <1> SUFFICES ASSUME IInv, [Next]_vars PROVE IInv'
    OBVIOUS
  <1> USE DEF IInv
  <1>1. /\ page \in Nat /\ pagesAllocated \in Nat /\ count \in Nat
        /\ lowestFreePage \in Nat /\ startPage \in Nat /\ bitmapPages \in Nat
    BY InputAssumption, BitmapPagesNat DEF TypeOK, PageNumbers
  <1>2. ASSUME NEW n \in Counts, allocatePages(n) PROVE IInv'
    <2>1. CASE Refuse(n)
      BY <1>2, <2>1 DEF allocatePages, Refuse, locals, TypeOK, HintSound,
         AllUsedBelow, CallInv, RunTaken, NoOverAllocation, NothingFound,
         OutOfMemoryIsHonest
    <2>2. CASE n # 0 /\ Enter(n)
      <3>1. TypeOK'
        BY <1>1, <1>2, <2>2 DEF allocatePages, Enter, TypeOK
      <3>2. HintSound' /\ NothingFound' /\ OutOfMemoryIsHonest' /\ NoOverAllocation'
        BY InputAssumption, <1>2, <2>2 DEF allocatePages, Enter, HintSound, AllUsedBelow,
           NothingFound, OutOfMemoryIsHonest, NoOverAllocation
      <3>3. CallInv'
        BY InputAssumption, <1>1, <1>2, <2>2 DEF allocatePages, Enter, CallInv, HintSound,
           AllUsedBelow
      <3>4. RunTaken'
        BY <1>1, <2>2 DEF Enter, RunTaken, Run
      <3> QED
        BY <3>1, <3>2, <3>3, <3>4
    <2> QED
      BY <1>2, <2>1, <2>2 DEF allocatePages
  <1>3. CASE TakeChunk
    BY <1>3, TakeChunkIInv
  <1>4. CASE SkipUsed
    <2>1. /\ pc = "loop" /\ page < bitmapPages /\ page \in bitmap
          /\ pagesAllocated = 0 /\ page' = page + 1
          /\ UNCHANGED <<initializationStatus, usable, count, startPage, before,
                 reply, grants, bitmap, lowestFreePage, pc, pagesAllocated>>
      BY <1>4 DEF SkipUsed, AtPage
    <2>2. TypeOK'
      BY <1>1, <2>1 DEF TypeOK, PageNumbers
    <2>3. CallInv'
      BY <1>1, <2>1 DEF CallInv, AllUsedBelow, Frames
    <2>4. RunTaken'
      BY <1>1, <2>1 DEF RunTaken, Run
    <2> QED
      BY <2>1, <2>2, <2>3, <2>4 DEF HintSound, AllUsedBelow, NoOverAllocation,
         NothingFound, OutOfMemoryIsHonest
  <1>5. CASE BreakRun
    BY <1>5 DEF BreakRun, AtPage, TypeOK, HintSound, AllUsedBelow, CallInv,
       RunTaken, Run, NoOverAllocation, NothingFound, OutOfMemoryIsHonest
  <1>6. CASE FindHint
    <2>1. /\ pc = "loop" /\ page < bitmapPages /\ pagesAllocated # 0
          /\ lowestFreePage' = page /\ pc' = "done"
          /\ UNCHANGED <<initializationStatus, usable, count, startPage, before,
                 reply, grants, bitmap, page, pagesAllocated>>
      BY <1>1, <1>6 DEF FindHint, AtPage, CallInv
    <2> QED
      BY <2>1 DEF TypeOK, HintSound, AllUsedBelow, CallInv, RunTaken, Run,
         NoOverAllocation, NothingFound, OutOfMemoryIsHonest
  <1>7. CASE TakePage
    BY <1>7, TakePageIInv
  <1>8. CASE LeaveLoop
    <2>1. /\ pc = "loop" /\ page >= bitmapPages /\ pc' = "done"
          /\ UNCHANGED <<initializationStatus, bitmap, lowestFreePage, locals,
                         reply, usable, grants>>
      BY <1>8 DEF LeaveLoop
    <2>2. Frames \subseteq bitmap
      BY <1>1, <2>1 DEF CallInv, AllUsedBelow, Frames
    <2> QED
      BY <2>1, <2>2 DEF locals, TypeOK, HintSound, AllUsedBelow, CallInv,
         RunTaken, Run, NoOverAllocation, NothingFound, OutOfMemoryIsHonest
  <1>9. CASE ReturnOutOfMemory
    BY <1>1, <1>9 DEF ReturnOutOfMemory, locals, TypeOK, PageNumbers, HintSound,
       AllUsedBelow, CallInv, RunTaken, NoOverAllocation, NothingFound,
       OutOfMemoryIsHonest
  <1>10. CASE ReturnPages
    <2>1. /\ pc = "done" /\ pagesAllocated # 0 /\ pc' = "idle" /\ reply' = "Ok"
          /\ grants' = Append(grants, [address |-> startPage,
                                       count |-> pagesAllocated])
          /\ UNCHANGED <<initializationStatus, bitmap, lowestFreePage, locals,
                         usable>>
      BY <1>10 DEF ReturnPages
    <2>2. startPage \in Frames /\ pagesAllocated \in 1 .. bitmapPages
      BY <1>1, <2>1 DEF CallInv, Frames
    <2>3. grants' \in Seq(PageSets)
      BY <2>1, <2>2 DEF TypeOK, PageSets
    <2> QED
      BY <2>1, <2>3 DEF locals, TypeOK, HintSound, AllUsedBelow, CallInv,
         RunTaken, NoOverAllocation, NothingFound, OutOfMemoryIsHonest
  <1>11. CASE UNCHANGED vars
    BY <1>11 DEF vars, locals, TypeOK, HintSound, AllUsedBelow, CallInv,
       RunTaken, Run, NoOverAllocation, NothingFound, OutOfMemoryIsHonest
  <1> QED
    BY <1>2, <1>3, <1>4, <1>5, <1>6, <1>7, <1>8, <1>9, <1>10, <1>11,
       InputAssumption DEF Next, Step, allocatePage

(* The conjunction above is an invariant of every behaviour. *)
THEOREM Invariance == Spec => []IInv
  BY InitIInv, NextIInv, PTL DEF Spec

(* Type correctness: no page number, count or PageSet leaves its range, so
   allocatePages never touches a bit outside the bitmap.                   *)
THEOREM TypeCorrect == Spec => []TypeOK
  BY Invariance, PTL DEF IInv

(* The hint never hides a free frame, on any memory map. *)
THEOREM HintIsSound == Spec => []HintSound
  BY Invariance, PTL DEF IInv

(* The missing word-alignment test of line 233 is harmless: a word that is
   marked as a whole begins at the page being searched.                    *)
THEOREM ChunksAreAligned == Spec => []ChunkAligned
  <1>1. IInv => ChunkAligned
    <2> SUFFICES ASSUME IInv, pc = "loop", page < bitmapPages, ChunkIsFree
                 PROVE  page % LongBits = 0
      BY DEF ChunkAligned
    <2>1. page \in Nat /\ AllUsedBelow(page)
      BY InputAssumption, BitmapPagesNat DEF IInv, TypeOK, PageNumbers, CallInv
    <2> QED
      BY <2>1, FreeChunkIsAligned
  <1> QED
    BY <1>1, Invariance, PTL

(* A call marks one gapless run of frames that were free, the frames just
   before page.                                                           *)
THEOREM RunIsTaken == Spec => []RunTaken
  BY Invariance, PTL DEF IInv

(* No call marks more pages than it was asked for. *)
THEOREM NeverOverAllocates == Spec => []NoOverAllocation
  BY Invariance, PTL DEF IInv

(* A call marks exactly a gapless run of free frames, no more than asked. *)
THEOREM RunIsExactRun == Spec => []RunIsExact
  BY RunIsTaken, NeverOverAllocates, ChunksAreAligned, PTL DEF RunIsExact

(* OutOfMemory is answered only when no frame is free. *)
THEOREM OutOfMemoryHonest == Spec => []OutOfMemoryIsHonest
  BY Invariance, PTL DEF IInv

-----------------------------------------------------------------------------
FreeLeft == \E f \in Frames : f \notin bitmap

(* What the hint and the run are when free memory is one region. *)
RegionInv ==
  /\ Frames \ committed \subseteq usable
  /\ IsRegion(Frames \ committed)
  /\ pc \in {"idle", "done"} /\ FreeLeft => lowestFreePage \in Frames \ bitmap
  /\ pc = "loop" =>
       \/ Frames \subseteq before
       \/ startPage \in Frames \ before /\ startPage = page - pagesAllocated
  /\ pc = "done" /\ pagesAllocated # 0 =>
       /\ startPage = page - pagesAllocated
       /\ pagesAllocated < count => page \notin Frames \ before

LEMMA InitRegionInv == Init /\ OneRegion => RegionInv
  <1> SUFFICES ASSUME Init, OneRegion PROVE RegionInv
    OBVIOUS
  <1>1. /\ usable \in SUBSET Frames /\ IsRegion(usable)
        /\ pc = "idle" /\ committed = bitmap /\ Frames \ bitmap = usable
    BY InputAssumption DEF Init, OneRegion, committed, IsRegion
  <1>2. FreeLeft => lowestFreePage \in Frames \ bitmap
    BY <1>1 DEF Init, FreeLeft, IsLowest
  <1> QED
    BY <1>1, <1>2 DEF RegionInv

LEMMA NextRegionInv == IInv /\ RegionInv /\ [Next]_vars => RegionInv'
  <1> SUFFICES ASSUME IInv, RegionInv, [Next]_vars PROVE RegionInv'
    OBVIOUS
  <1>1. /\ page \in Nat /\ pagesAllocated \in Nat /\ count \in Nat
        /\ lowestFreePage \in Nat /\ startPage \in Nat /\ bitmapPages \in Nat
    BY InputAssumption, BitmapPagesNat DEF IInv, TypeOK, PageNumbers
  <1>2. ASSUME NEW n \in Counts, allocatePages(n) PROVE RegionInv'
    <2>1. CASE Refuse(n)
      BY <1>2, <2>1 DEF allocatePages, Refuse, locals, RegionInv, FreeLeft,
         committed
    <2>2. CASE Enter(n)
      BY <1>1, <1>2, <2>2 DEF allocatePages, Enter, RegionInv, FreeLeft,
         committed
    <2> QED
      BY <1>2, <2>1, <2>2 DEF allocatePages
  <1>3. CASE TakeChunk
    <2>1. page + LongBits - (pagesAllocated + LongBits) = page - pagesAllocated
      BY <1>1, WidthAssumption
    <2> QED
      BY <1>1, <1>3, <2>1, WidthAssumption DEF TakeChunk, AtPage, RegionInv,
         FreeLeft, committed
  <1>4. CASE SkipUsed
    <2>1. /\ pc = "loop" /\ pc' = "loop" /\ pagesAllocated = 0
          /\ page \in bitmap /\ UNCHANGED <<usable, before>>
      BY <1>4 DEF SkipUsed, AtPage
    <2>2. page \in before
      BY <1>1, <2>1 DEF IInv, RunTaken, Run
    <2>3. Frames \subseteq before
      BY <1>1, <2>1, <2>2 DEF RegionInv
    <2> QED
      BY <2>1, <2>3 DEF RegionInv, committed
  <1>5. CASE BreakRun
    <2>1. /\ pc = "loop" /\ pc' = "done" /\ page < bitmapPages
          /\ page \in bitmap /\ pagesAllocated # 0
          /\ UNCHANGED <<usable, bitmap, before, count, page, startPage,
                         pagesAllocated, lowestFreePage>>
      BY <1>5 DEF BreakRun, AtPage
    <2>2. /\ startPage <= page - pagesAllocated /\ AllUsedBelow(page)
          /\ bitmap = before \cup Run /\ Run \cap before = {}
      BY <2>1 DEF IInv, CallInv, RunTaken
    <2>3. page \in before /\ page - 1 \in Frames \ before
      BY <1>1, <2>1, <2>2 DEF Run, Frames
    <2>4. ~FreeLeft
      <3>1. SUFFICES ASSUME NEW f \in Frames, f \notin bitmap PROVE FALSE
        BY DEF FreeLeft
      <3>2. f > page
        BY <1>1, <2>1, <2>2, <3>1 DEF AllUsedBelow, Frames
      <3>3. page \in (page - 1) .. f
        BY <1>1, <3>2 DEF Frames
      <3>4. (page - 1) .. f \subseteq Frames \ before
        BY <2>1, <2>2, <2>3, <3>1 DEF RegionInv, IsRegion, committed
      <3> QED
        BY <2>3, <3>3, <3>4
    <2> QED
      BY <2>1, <2>3, <2>4 DEF RegionInv, FreeLeft, committed
  <1>6. CASE FindHint
    <2>1. /\ pc = "loop" /\ pc' = "done" /\ page < bitmapPages
          /\ page \notin bitmap /\ count - pagesAllocated = 0
          /\ lowestFreePage' = page
          /\ UNCHANGED <<usable, bitmap, before, count, page, startPage,
                         pagesAllocated>>
      BY <1>6 DEF FindHint, AtPage
    <2>2. page \in Frames \ before
      BY <1>1, <2>1 DEF IInv, RunTaken, Frames
    <2> QED
      BY <1>1, <2>1, <2>2 DEF RegionInv, FreeLeft, committed
  <1>7. CASE TakePage
    <2>1. page + 1 - (pagesAllocated + 1) = page - pagesAllocated
      BY <1>1
    <2> QED
      BY <1>1, <1>7, <2>1 DEF TakePage, AtPage, RegionInv, FreeLeft, committed
  <1>8. CASE LeaveLoop
    <2>1. /\ pc = "loop" /\ pc' = "done" /\ page >= bitmapPages
          /\ UNCHANGED <<usable, bitmap, before, count, page, startPage,
                         pagesAllocated, lowestFreePage>>
      BY <1>8 DEF LeaveLoop, locals
    <2>2. ~FreeLeft /\ page \notin Frames
      BY <1>1, <2>1 DEF IInv, CallInv, AllUsedBelow, Frames, FreeLeft
    <2>3. pagesAllocated # 0 => ~(Frames \subseteq before)
      <3>1. SUFFICES ASSUME pagesAllocated # 0 PROVE page - 1 \in Frames \ before
        OBVIOUS
      <3>2. /\ startPage <= page - pagesAllocated /\ page <= bitmapPages
            /\ Run \cap before = {}
        BY <2>1, <3>1 DEF IInv, CallInv, RunTaken
      <3> QED
        BY <1>1, <3>1, <3>2 DEF Run, Frames
    <2> QED
      BY <2>1, <2>2, <2>3 DEF RegionInv, FreeLeft, committed
  <1>9. CASE ReturnOutOfMemory
    <2>1. /\ pc = "done" /\ pc' = "idle" /\ pagesAllocated = 0
          /\ UNCHANGED <<usable, bitmap>>
      BY <1>9 DEF ReturnOutOfMemory
    <2>2. Frames \ bitmap = {}
      BY <2>1 DEF IInv, NothingFound
    <2> QED
      BY <2>1, <2>2 DEF RegionInv, IsRegion, FreeLeft, committed
  <1>10. CASE ReturnPages
    <2>1. /\ pc = "done" /\ pc' = "idle" /\ pagesAllocated # 0
          /\ UNCHANGED <<usable, bitmap, lowestFreePage>>
      BY <1>10 DEF ReturnPages
    <2>2. bitmap = before \cup Run /\ AllUsedBelow(page)
      BY <2>1 DEF IInv, RunTaken, CallInv
    <2>3. ASSUME NEW f \in Frames \ bitmap, NEW g \in Frames \ bitmap
          PROVE  f .. g \subseteq Frames \ bitmap
      <3>1. f .. g \subseteq Frames \ before
        BY <2>1, <2>2 DEF RegionInv, IsRegion, committed
      <3>2. f >= page
        BY <1>1, <2>2 DEF AllUsedBelow, Frames
      <3>3. (f .. g) \cap Run = {}
        BY <1>1, <3>2 DEF Run, Frames
      <3> QED
        BY <2>2, <3>1, <3>3
    <2> QED
      BY <2>1, <2>2, <2>3 DEF RegionInv, IsRegion, FreeLeft, committed
  <1>11. CASE UNCHANGED vars
    BY <1>11 DEF vars, locals, RegionInv, FreeLeft, committed
  <1> QED
    BY <1>2, <1>3, <1>4, <1>5, <1>6, <1>7, <1>8, <1>9, <1>10, <1>11,
       InputAssumption DEF Next, Step, allocatePage

(* The memory map does not change. *)
LEMMA UsableStays == [Next]_vars => usable' = usable
  <1> SUFFICES ASSUME [Next]_vars PROVE usable' = usable
    OBVIOUS
  <1> QED
    BY DEF Next, Step, allocatePage, allocatePages, TakeChunk, SkipUsed, BreakRun,
           FindHint, TakePage, AtPage, LeaveLoop, ReturnOutOfMemory, ReturnPages,
           vars, locals

LEMMA OneRegionStays == [Next]_vars /\ OneRegion' => OneRegion
  BY UsableStays DEF OneRegion, IsRegion

LEMMA OneRegionKept == [Next]_vars /\ OneRegion => OneRegion'
  BY UsableStays DEF OneRegion, IsRegion

LEMMA RegionInvariance == Spec => [](IInv /\ (OneRegion => RegionInv))
  <1>1. Init => (OneRegion => RegionInv)
    BY InitRegionInv
  <1>2. IInv /\ (OneRegion => RegionInv) /\ [Next]_vars => (OneRegion => RegionInv)'
    BY NextRegionInv, OneRegionStays
  <1> QED
    BY <1>1, <1>2, InitIInv, NextIInv, PTL DEF Spec

(* While free memory is one region the address returned is where the run
   begins.                                                                *)
THEOREM AddressOfRun == Spec => []AddressIsRunInRegion
  <1>1. (OneRegion => RegionInv) => AddressIsRunInRegion
    BY DEF RegionInv, AddressIsRun, AddressIsRunInRegion
  <1> QED
    BY <1>1, RegionInvariance, PTL

LEMMA NothingTaken ==
  ASSUME IInv, pc # "idle", pagesAllocated = 0
  PROVE  bitmap = before
  <1>1. page \in Nat
    BY InputAssumption, BitmapPagesNat DEF IInv, TypeOK, PageNumbers
  <1>2. Run = {}
    BY <1>1 DEF Run
  <1> QED
    BY <1>2 DEF IInv, RunTaken

(* What has been granted is in use, was free memory, and is granted once. *)
GrantsInv ==
  /\ \A i \in DOMAIN grants : FramesOf(grants[i]) \subseteq usable \cap committed
  /\ \A i, j \in DOMAIN grants :
       i # j => FramesOf(grants[i]) \cap FramesOf(grants[j]) = {}

LEMMA NextGrantsInv ==
  IInv /\ RegionInv /\ GrantsInv /\ [Next]_vars => GrantsInv'
  <1> SUFFICES ASSUME IInv, RegionInv, GrantsInv, [Next]_vars PROVE GrantsInv'
    OBVIOUS
  <1>1. CASE UNCHANGED <<grants, usable, committed>>
    BY <1>1 DEF GrantsInv, FramesOf
  <1>2. CASE ReturnOutOfMemory
    <2>1. bitmap = before /\ UNCHANGED <<grants, usable, bitmap>>
      BY <1>2, NothingTaken DEF ReturnOutOfMemory
    <2>2. UNCHANGED committed
      BY <1>2, <2>1 DEF ReturnOutOfMemory, committed
    <2> QED
      BY <1>1, <2>1, <2>2
  <1>3. CASE ReturnPages
    <2> DEFINE set == [address |-> startPage, count |-> pagesAllocated]
    <2>1. /\ pc = "done" /\ pc' = "idle" /\ pagesAllocated # 0
          /\ grants' = Append(grants, set) /\ UNCHANGED <<usable, bitmap>>
      BY <1>3 DEF ReturnPages
    <2>2. /\ page \in Nat /\ pagesAllocated \in Nat /\ startPage \in Nat
          /\ bitmapPages \in Nat /\ grants \in Seq(PageSets)
      BY InputAssumption, BitmapPagesNat DEF IInv, TypeOK, PageNumbers
    <2>3. /\ startPage = page - pagesAllocated /\ page <= bitmapPages
          /\ bitmap = before \cup Run /\ Run \cap before = {}
      BY <2>1 DEF IInv, CallInv, RunTaken, RegionInv
    <2>4. FramesOf(set) = Run /\ Run \subseteq Frames \ before
      BY <2>2, <2>3 DEF FramesOf, Run, Frames
    <2>5. Frames \ before \subseteq usable /\ committed = before /\ committed' = bitmap
      BY <2>1 DEF RegionInv, committed
    <2>6. /\ DOMAIN grants = 1 .. Len(grants)
          /\ DOMAIN grants' = 1 .. (Len(grants) + 1) /\ Len(grants) \in Nat
          /\ grants'[Len(grants) + 1] = set
          /\ \A i \in DOMAIN grants : grants'[i] = grants[i]
      BY <2>1, <2>2
    <2> HIDE DEF set
    <2>7. ASSUME NEW i \in DOMAIN grants'
          PROVE  i \in DOMAIN grants \/ i = Len(grants) + 1
      BY <2>6
    <2>8. \A i \in DOMAIN grants' : FramesOf(grants'[i]) \subseteq usable \cap bitmap
      BY <2>3, <2>4, <2>5, <2>6, <2>7 DEF GrantsInv
    <2>9. ASSUME NEW i \in DOMAIN grants', NEW j \in DOMAIN grants', i # j
          PROVE  FramesOf(grants'[i]) \cap FramesOf(grants'[j]) = {}
      <3>1. \A k \in DOMAIN grants : FramesOf(grants[k]) \cap Run = {}
        BY <2>4, <2>5 DEF GrantsInv
      <3> QED
        BY <2>4, <2>6, <2>7, <2>9, <3>1 DEF GrantsInv
    <2> QED
      BY <2>1, <2>5, <2>8, <2>9 DEF GrantsInv, FramesOf
  <1>4. ASSUME NEW n \in Counts, allocatePages(n)
        PROVE  UNCHANGED <<grants, usable, committed>>
    BY <1>4 DEF allocatePages, Refuse, Enter, committed, locals
  <1>5. CASE TakeChunk \/ SkipUsed \/ BreakRun \/ FindHint \/ TakePage
    BY <1>1, <1>5 DEF TakeChunk, SkipUsed, BreakRun, FindHint, TakePage, AtPage,
       committed
  <1>6. CASE LeaveLoop
    BY <1>1, <1>6 DEF LeaveLoop, committed, locals
  <1>7. CASE UNCHANGED vars
    BY <1>1, <1>7 DEF vars, committed, locals
  <1> QED
    BY <1>1, <1>2, <1>3, <1>4, <1>5, <1>6, <1>7, InputAssumption
    DEF Next, Step, allocatePage

(* While free memory is one region no frame is granted twice, and only frames
   that init found free are granted.                                       *)
THEOREM GrantedOnce == Spec => []NoDoubleGrantInRegion
  <1>1. Init => (OneRegion => GrantsInv)
    BY DEF Init, GrantsInv
  <1>2. (OneRegion => GrantsInv) => NoDoubleGrantInRegion
    BY DEF GrantsInv, NoDoubleGrant, NoDoubleGrantInRegion
  <1>3. IInv /\ (OneRegion => RegionInv) /\ (OneRegion => GrantsInv) /\ [Next]_vars
          => (OneRegion => GrantsInv)'
    BY NextGrantsInv, OneRegionStays
  <1>4. Spec => [](OneRegion => GrantsInv)
    BY <1>1, <1>3, RegionInvariance, PTL DEF Spec
  <1> QED
    BY <1>2, <1>4, PTL

-----------------------------------------------------------------------------
(* Conservation, on any memory map.  What was not usable stays marked, so a
   run, which was free, is of usable frames; while a call is in progress the
   frames granted so far are those marked when it began.                   *)
ConservationInv ==
  /\ Frames \ usable \subseteq before /\ Frames \ usable \subseteq bitmap
  /\ SumOfCounts = Cardinality(usable \cap committed)

LEMMA GrantAddsItsCount ==
  ASSUME grants \in Seq(PageSets), NEW set, set.count \in Nat, grants' = Append(grants, set)
  PROVE  SumOfCounts' = SumOfCounts + set.count /\ SumOfCounts \in Nat
  <1> DEFINE g == CountsOf(grants)
             h == CountsOf(grants')
             n == Len(grants)
  <1>1. /\ n \in Nat /\ Len(grants') = n + 1 /\ grants'[n + 1] = set
        /\ \A i \in 1 .. n : grants'[i] = grants[i]
    OBVIOUS
  <1>2. DOMAIN grants = 1 .. n /\ DOMAIN grants' = 1 .. (n + 1)
    BY <1>1
  <1>3. h[n + 1] = set.count /\ \A i \in 1 .. n : g[i] = h[i]
    BY <1>1, <1>2 DEF CountsOf
  <1>4. \A i \in 1 .. n : g[i] \in Nat
    <2> SUFFICES ASSUME NEW i \in 1 .. n PROVE g[i] \in Nat
      OBVIOUS
    <2>1. grants[i] \in PageSets /\ i \in DOMAIN grants
      BY <1>2
    <2>2. grants[i].count \in 1 .. bitmapPages
      BY <2>1 DEF PageSets
    <2>3. g[i] = grants[i].count
      BY <2>1 DEF CountsOf
    <2> QED
      BY <2>2, <2>3
  <1> HIDE DEF g, h
  <1>5. SumTo(h, n + 1) = SumTo(g, n) + h[n + 1]
    BY <1>1, <1>3, SumOfMore
  <1>6. SumTo(g, n) \in Nat
    BY <1>1, <1>4, SumIsNatural
  <1>7. SumOfCounts = SumTo(g, n) /\ SumOfCounts' = SumTo(h, n + 1)
    BY <1>1 DEF SumOfCounts, g, h
  <1> QED
    BY <1>3, <1>5, <1>6, <1>7

LEMMA FramesFinite == \A S \in SUBSET Frames : IsFiniteSet(S) /\ Cardinality(S) \in Nat
  <1>1. 0 \in Int /\ bitmapPages - 1 \in Int
    BY BitmapPagesNat
  <1>2. IsFiniteSet(Frames)
    BY <1>1, FS_Interval DEF Frames
  <1> QED
    BY <1>2, FS_Subset, FS_CardinalityType

LEMMA InitConservationInv == Init => ConservationInv
  <1> SUFFICES ASSUME Init PROVE ConservationInv
    OBVIOUS
  <1>1. usable \cap committed = {}
    BY DEF Init, committed
  <1>2. SumOfCounts = 0
    BY SumOfNone DEF Init, SumOfCounts
  <1>3. Cardinality({}) = 0
    BY FS_EmptySet
  <1> QED
    BY <1>1, <1>2, <1>3 DEF Init, ConservationInv

LEMMA NextConservationInv ==
  IInv /\ ConservationInv /\ [Next]_vars => ConservationInv'
  <1> SUFFICES ASSUME IInv, ConservationInv, [Next]_vars PROVE ConservationInv'
    OBVIOUS
  <1>1. usable' = usable
    BY UsableStays
  <1>2. Frames \ usable \subseteq before' /\ Frames \ usable \subseteq bitmap'
    BY DEF ConservationInv, Next, Step, allocatePages, allocatePage, Refuse, Enter, TakeChunk,
           SkipUsed, BreakRun, FindHint, TakePage, AtPage, LeaveLoop, ReturnOutOfMemory,
           ReturnPages, locals, vars
  <1>3. CASE ReturnPages
    <2> DEFINE set == [address |-> startPage, count |-> pagesAllocated]
    <2>1. /\ pc = "done" /\ pc' = "idle" /\ bitmap' = bitmap
          /\ grants' = Append(grants, set)
      BY <1>3 DEF ReturnPages
    <2>2. /\ page \in Nat /\ pagesAllocated \in Nat /\ startPage \in Nat
          /\ startPage <= page - pagesAllocated
          /\ bitmap \subseteq Frames /\ bitmap = before \cup Run /\ Run \cap before = {}
      BY <2>1, InputAssumption, BitmapPagesNat
      DEF IInv, TypeOK, PageNumbers, CallInv, RunTaken
    <2>3. Run \subseteq usable
      BY <2>2 DEF ConservationInv
    <2>4. Cardinality(Run) = pagesAllocated /\ IsFiniteSet(Run)
      <3> DEFINE a == page - pagesAllocated
                 b == page - 1
      <3>1. a \in Int /\ b \in Int /\ (a > b <=> pagesAllocated = 0) /\ b - a + 1 = pagesAllocated
        BY <2>2
      <3> HIDE DEF a, b
      <3>2. IsFiniteSet(a .. b) /\ Cardinality(a .. b) = IF a > b THEN 0 ELSE b - a + 1
        BY <3>1, FS_Interval
      <3>3. Run = a .. b
        BY DEF Run, a, b
      <3> QED
        BY <3>1, <3>2, <3>3
    <2>5. usable \cap bitmap = (usable \cap before) \cup Run
          /\ (usable \cap before) \cap Run = {}
      BY <2>2, <2>3
    <2>6. IsFiniteSet(usable \cap before) /\ Cardinality(usable \cap before) \in Nat
      BY FramesFinite DEF IInv, TypeOK
    <2>7. Cardinality(usable \cap bitmap) = Cardinality(usable \cap before) + pagesAllocated
      <3>1. Cardinality({}) = 0
        BY FS_EmptySet
      <3>2. Cardinality((usable \cap before) \cup Run)
              = Cardinality(usable \cap before) + Cardinality(Run)
                  - Cardinality((usable \cap before) \cap Run)
        BY <2>4, <2>6, FS_Union
      <3> QED
        <4> DEFINE kept == Cardinality(usable \cap before)
        <4>1. Cardinality(usable \cap bitmap) = kept + pagesAllocated - 0
          BY <2>4, <2>5, <3>1, <3>2
        <4> HIDE DEF kept
        <4>2. kept \in Nat /\ pagesAllocated \in Nat
          BY <2>2, <2>6 DEF kept
        <4>3. kept + pagesAllocated - 0 = kept + pagesAllocated
          BY <4>2
        <4> QED
          BY <4>1, <4>3 DEF kept
    <2>8. SumOfCounts' = SumOfCounts + pagesAllocated
      <3>1. set.count = pagesAllocated /\ set.count \in Nat /\ grants \in Seq(PageSets)
        BY <2>2 DEF IInv, TypeOK
      <3> HIDE DEF set
      <3> QED
        BY <2>1, <3>1, GrantAddsItsCount
    <2>9. committed = before /\ committed' = bitmap
      BY <2>1 DEF committed
    <2> QED
      BY <1>1, <1>2, <2>7, <2>8, <2>9 DEF ConservationInv
  <1>4. CASE ReturnOutOfMemory
    <2>1. bitmap = before /\ UNCHANGED <<grants, bitmap>> /\ pc = "done" /\ pc' = "idle"
      BY <1>4, NothingTaken DEF ReturnOutOfMemory
    <2>2. committed' = committed /\ SumOfCounts' = SumOfCounts
      BY <2>1 DEF committed, SumOfCounts
    <2> QED
      BY <1>1, <1>2, <2>2 DEF ConservationInv
  <1>5. CASE ~ReturnPages /\ ~ReturnOutOfMemory
    <2>1. UNCHANGED <<grants, committed>>
      BY <1>5 DEF Next, Step, allocatePages, allocatePage, Refuse, Enter, TakeChunk,
           SkipUsed, BreakRun, FindHint, TakePage, AtPage, LeaveLoop, locals, vars, committed
    <2>2. SumOfCounts' = SumOfCounts
      BY <2>1 DEF SumOfCounts
    <2> QED
      BY <1>1, <1>2, <2>1, <2>2 DEF ConservationInv
  <1> QED
    BY <1>3, <1>4, <1>5

(* On every memory map, also where the address returned is wrong: between
   calls as many pages are granted as frames were taken from the usable ones,
   so no call loses a frame or grants one for nothing (215-295).           *)
THEOREM FramesConserved == Spec => []Conservation
  <1>1. ConservationInv => Conservation
    BY DEF ConservationInv, Conservation, committed
  <1> QED
    BY InitConservationInv, NextConservationInv, Invariance, <1>1, PTL DEF Spec

-----------------------------------------------------------------------------
(* Refinement: a call of allocatePages is one step of the abstract pool. *)
LEMMA StepRefines ==
  IInv /\ RegionInv /\ [Next]_vars => [Pool!Next]_(Pool!poolVars)
  <1> SUFFICES ASSUME IInv, RegionInv, [Next]_vars
               PROVE  [Pool!Next]_(Pool!poolVars)
    OBVIOUS
  <1>1. CASE UNCHANGED <<bitmap, committed, grants, reply>>
    BY <1>1 DEF Pool!poolVars
  <1>2. CASE ReturnOutOfMemory
    <2>1. /\ Frames \ committed = {} /\ UNCHANGED committed
          /\ reply' = "OutOfMemory" /\ UNCHANGED grants
      BY <1>2, NothingTaken DEF ReturnOutOfMemory, IInv, NothingFound, committed
    <2> QED
      BY <2>1 DEF Pool!Next, Pool!Exhausted
  <1>3. CASE ReturnPages
    <2> DEFINE set == [address |-> startPage, count |-> pagesAllocated]
    <2>1. /\ pc = "done" /\ pc' = "idle" /\ pagesAllocated # 0
          /\ grants' = Append(grants, set) /\ reply' = "Ok"
          /\ UNCHANGED bitmap
      BY <1>3 DEF ReturnPages
    <2>2. /\ page \in Nat /\ pagesAllocated \in Nat /\ startPage \in Nat
          /\ bitmapPages \in Nat /\ count \in Nat /\ count \in Counts
      BY <2>1, InputAssumption, BitmapPagesNat
      DEF IInv, TypeOK, PageNumbers, CallInv
    <2>3. /\ startPage = page - pagesAllocated /\ page <= bitmapPages
          /\ bitmap = before \cup Run /\ Run \cap before = {}
          /\ pagesAllocated <= count
          /\ pagesAllocated < count => page \notin Frames \ before
          /\ committed = before /\ committed' = bitmap
      BY <2>1 DEF IInv, CallInv, RunTaken, NoOverAllocation, RegionInv, committed
    <2>4. Pool!FramesOf(set) = Run
      BY <2>2, <2>3 DEF Pool!FramesOf, Run
    <2>5. Run \subseteq Frames \ before /\ startPage \in Run
      BY <2>1, <2>2, <2>3 DEF Run, Frames
    <2>6. startPage + pagesAllocated = page /\ pagesAllocated \in 1 .. count
      BY <2>1, <2>2, <2>3
    <2>7. Pool!Grant(count)
      BY <2>1, <2>3, <2>4, <2>5, <2>6 DEF Pool!Grant
    <2> QED
      BY <2>2, <2>7 DEF Pool!Next
  <1>4. ASSUME NEW n \in Counts, allocatePages(n)
        PROVE  [Pool!Next]_(Pool!poolVars)
    <2>1. UNCHANGED <<grants, committed>>
      BY <1>4 DEF allocatePages, Refuse, Enter, committed, locals
    <2>2. CASE Refuse(n)
      BY <2>1, <2>2 DEF Refuse, Pool!Next, Pool!Reject
    <2>3. CASE Enter(n)
      BY <2>1, <2>3, <1>1 DEF Enter
    <2> QED
      BY <1>4, <2>2, <2>3 DEF allocatePages
  <1>5. CASE TakeChunk \/ SkipUsed \/ BreakRun \/ FindHint \/ TakePage
    BY <1>5 DEF TakeChunk, SkipUsed, BreakRun, FindHint, TakePage, AtPage,
       committed, Pool!poolVars
  <1>6. CASE LeaveLoop
    BY <1>6 DEF LeaveLoop, committed, locals, Pool!poolVars
  <1>7. CASE UNCHANGED vars
    BY <1>7 DEF vars, committed, locals, Pool!poolVars
  <1> QED
    BY <1>2, <1>3, <1>4, <1>5, <1>6, <1>7, InputAssumption
    DEF Next, Step, allocatePage

(* While free memory is one region allocatePages implements the pool of
   FramePool.                                                             *)
THEOREM ImplementsPool == Spec => PoolInRegion
  <1>1. Init => Pool!Init
    BY DEF Init, Pool!Init, committed
  <1>2. IInv /\ (OneRegion => RegionInv) /\ [Next]_vars
          => (OneRegion => [Pool!Next]_(Pool!poolVars))
    BY StepRefines
  <1> QED
    BY <1>1, <1>2, RegionInvariance, PTL DEF Spec, PoolInRegion

(* So it implements the pool's whole specification when every memory map the
   machine may have is one region.                                        *)
THEOREM ImplementsPoolSpec ==
  ASSUME \A m \in MemoryMaps : IsRegion(m) PROVE Spec => PoolSpec
  <1>1. Init => Pool!Init /\ OneRegion
    BY DEF Init, Pool!Init, committed, OneRegion, IsRegion
  <1>2. OneRegion /\ [Next]_vars => OneRegion'
    BY OneRegionKept
  <1>3. OneRegion /\ IInv /\ (OneRegion => RegionInv) /\ [Next]_vars
          => [Pool!Next]_(Pool!poolVars)
    BY StepRefines
  <1> QED
    BY <1>1, <1>2, <1>3, RegionInvariance, PTL DEF Spec, PoolSpec, Pool!Spec
===============================================================================
