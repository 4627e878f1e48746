-------------------------- MODULE AllocatorInitProofs --------------------------
(***************************************************************************)
(* Proofs about UefiBootstrap and AllocatorInit, for every memory map      *)
(* whose descriptors lie apart, every page count asked, every order of the *)
(* operations and every size of a bitmap page.                             *)
(*                                                                         *)
(* The argument for the bootstrapper: an operation that hands out pages    *)
(* takes exactly them off one free descriptor (Taken), so frames handed    *)
(* out and frames left stay a partition of the frames free at boot; and    *)
(* whatever lies before the index both users share has no pages left.      *)
(*                                                                         *)
(* For the bitmap and the hint: until ranges are enumerated everything     *)
(* handed out backs the bitmap, so nothing is Reported; a range enumerated *)
(* is new to what was handed out before, so its bits are cleared without   *)
(* touching another's, and what of it is still to be cleared is the        *)
(* Pending interval, which the three loops over bytes use up.              *)
(***************************************************************************)
EXTENDS MCAllocatorInit, NaturalLemmas, FiniteSetTheorems, TLAPS

-----------------------------------------------------------------------------
(* Frames that are left, descriptor by descriptor. *)
FreeAt(m, k) == k \in DOMAIN m /\ isFreeMem(m[k].Type)

LEMMA FrameOfMap ==
  ASSUME NEW m, NEW f
  PROVE  f \in MapFrames(m, isFreeMem) <=> \E k : FreeAt(m, k) /\ f \in FramesIn(m[k])
  BY DEF MapFrames, FreeAt

PageRanges == [address : Nat, count : Nat]
FramesOfSet(set) == FramesOf(set.address, set.count)

LEMMA FrameHandedOut ==
  ASSUME NEW f
  PROVE  f \in FramesHandedOut <=> \E i \in DOMAIN handedOut : f \in FramesOfSet(handedOut[i])
  BY DEF FramesHandedOut, FramesOfSet

LEMMA DescriptorFields ==
  ASSUME memoryMap \in Seq(Descriptors), NEW i \in Indices
  PROVE  /\ i \in Nat /\ descriptor(i) \in Descriptors
         /\ descriptor(i).Type \in STRING
         /\ descriptor(i).PhysicalStart \in Nat /\ descriptor(i).NumberOfPages \in Nat
  <1>1. i \in Nat /\ i + 1 \in 1 .. Len(memoryMap)
    BY DEF Indices, descriptorCount
  <1>2. descriptor(i) \in Descriptors
    BY <1>1 DEF descriptor
  <1> QED
    BY <1>1, <1>2 DEF Descriptors

(* Nothing that both users have passed can still be handed out. *)
PassedEmpty == \A i \in Indices : i < descriptorIndex => ~HasFreePages(descriptor(i))

BInv ==
  /\ memoryMap \in Seq(Descriptors) /\ RegionsApart(memoryMap)
  /\ handedOut \in Seq(PageRanges)
  /\ descriptorIndex \in Nat
  /\ memSize \in Nat /\ \A f \in freeAtBoot : f < memSize
  /\ HandedOutOnce /\ NothingLost
  /\ PassedEmpty
  /\ IterationComplete

-----------------------------------------------------------------------------
(* The bitmap is sized from the end of the last free region. *)
LEMMA MemSizeCovers ==
  ASSUME NEW m \in Seq(Descriptors)
  PROVE  calcMemSize(m) \in Nat /\ \A f \in MapFrames(m, isFreeMem) : f < calcMemSize(m)
  <1> DEFINE end(k) == m[k].PhysicalStart + m[k].NumberOfPages
  <1> DEFINE F == {j \in DOMAIN m : isFreeMem(m[j].Type)}
  <1> DEFINE S == {0} \cup {end(k) : k \in F}
  <1>1. Len(m) \in Nat /\ DOMAIN m = 1 .. Len(m)
    OBVIOUS
  <1>2. \A k \in DOMAIN m : end(k) \in Nat
    <2> TAKE k \in DOMAIN m
    <2>1. m[k] \in Descriptors
      BY <1>1
    <2> QED
      BY <2>1 DEF Descriptors
  <1> DEFINE g == [k \in 1 .. Len(m) |-> end(k)]
  <1>3. \A k \in 1 .. Len(m) : g[k] \in Nat
    BY <1>1, <1>2
  <1>4. PICK b \in Nat : \A k \in 1 .. Len(m) : g[k] <= b
    <2> HIDE DEF g
    <2> QED
      BY <1>1, <1>3, BoundExists
  <1>5. S \in SUBSET Nat /\ S # {} /\ \A x \in S : x <= b
    BY <1>1, <1>2, <1>4
  <1>6. Max(S) \in S /\ \A x \in S : x <= Max(S)
    <2> HIDE DEF S
    <2> QED
      BY <1>5, MaxIsGreatest
  <1>7. calcMemSize(m) = Max(S)
    BY DEF calcMemSize
  <1>8. ASSUME NEW f \in MapFrames(m, isFreeMem) PROVE f < Max(S)
    <2>1. PICK k : FreeAt(m, k) /\ f \in FramesIn(m[k])
      BY <1>8, FrameOfMap
    <2>2. k \in F /\ end(k) \in S /\ end(k) <= Max(S)
      BY <1>6, <2>1 DEF FreeAt
    <2>3. m[k] \in Descriptors
      BY <2>1 DEF FreeAt
    <2>4. f \in Int /\ f < end(k)
      BY <2>1, <2>3 DEF FramesIn, FramesOf, Descriptors
    <2>5. end(k) \in Nat /\ Max(S) \in Nat
      BY <1>5, <1>6, <2>2
    <2> HIDE DEF S, end
    <2> QED
      BY <2>2, <2>4, <2>5
  <1> QED
    BY <1>5, <1>6, <1>7, <1>8

LEMMA ConstructBInv == Construct => BInv
  <1> SUFFICES ASSUME Construct PROVE BInv
    OBVIOUS
  <1>1. memoryMap \in Seq(Descriptors) /\ RegionsApart(memoryMap)
    BY MapAssumption DEF Construct
  <1>2. memSize \in Nat /\ \A f \in freeAtBoot : f < memSize
    BY <1>1, MemSizeCovers DEF Construct
  <1>3. handedOut = <<>> /\ FramesHandedOut = {}
    BY DEF Construct, FramesHandedOut
  <1>4. HandedOutOnce /\ NothingLost
    BY <1>3 DEF Construct, HandedOutOnce, Apart, NothingLost, FramesLeft
  <1>5. descriptorIndex = 0 /\ answer = "None"
    BY DEF Construct
  <1>6. PassedEmpty /\ IterationComplete
    BY <1>5 DEF PassedEmpty, IterationComplete, Indices
  <1>7. handedOut \in Seq(PageRanges)
    BY <1>3
  <1> QED
    BY <1>1, <1>2, <1>4, <1>5, <1>6, <1>7 DEF BInv
-----------------------------------------------------------------------------
(* Pages [set] leave descriptor i + 1, which keeps the rest of its pages. *)
Leaves(i, set, rest) ==
  /\ i \in Indices /\ HasFreePages(descriptor(i))
  /\ set \in PageRanges /\ rest \in Descriptors /\ rest.Type = descriptor(i).Type
  /\ FramesIn(descriptor(i)) = FramesOfSet(set) \cup FramesIn(rest)
  /\ FramesOfSet(set) \cap FramesIn(rest) = {}
  /\ memoryMap' = [memoryMap EXCEPT ![i + 1] = rest]
  /\ handedOut' = Append(handedOut, set)
  /\ UNCHANGED freeAtBoot

LEMMA Taken ==
  ASSUME memoryMap \in Seq(Descriptors), RegionsApart(memoryMap),
         handedOut \in Seq(PageRanges), HandedOutOnce, NothingLost,
         NEW i, NEW set, NEW rest, Leaves(i, set, rest)
  PROVE  /\ memoryMap' \in Seq(Descriptors) /\ RegionsApart(memoryMap)'
         /\ handedOut' \in Seq(PageRanges)
         /\ HandedOutOnce' /\ NothingLost'
  <1> DEFINE j == i + 1
  <1> DEFINE out == FramesOfSet(set)
  <1>1. /\ j \in DOMAIN memoryMap /\ memoryMap[j] \in Descriptors
        /\ isFreeMem(memoryMap[j].Type)
        /\ FramesIn(memoryMap[j]) = out \cup FramesIn(rest) /\ out \cap FramesIn(rest) = {}
    BY DEF Leaves, Indices, descriptorCount, descriptor, HasFreePages
  <1>2. /\ memoryMap' \in Seq(Descriptors) /\ DOMAIN memoryMap' = DOMAIN memoryMap
        /\ memoryMap'[j] = rest /\ rest.Type = memoryMap[j].Type
        /\ \A k \in DOMAIN memoryMap : k # j => memoryMap'[k] = memoryMap[k]
    BY <1>1 DEF Leaves, descriptor
  <1>3. \A k \in DOMAIN memoryMap : FramesIn(memoryMap'[k]) \subseteq FramesIn(memoryMap[k])
    BY <1>1, <1>2
  <1>4. RegionsApart(memoryMap)'
    BY <1>2, <1>3 DEF RegionsApart
  <1>5. \A k : FreeAt(memoryMap', k) <=> FreeAt(memoryMap, k)
    BY <1>2 DEF FreeAt
  <1>6. FramesLeft' = FramesLeft \ out
    <2>1. ASSUME NEW f \in FramesLeft' PROVE f \in FramesLeft \ out
      <3>1. PICK k : FreeAt(memoryMap', k) /\ f \in FramesIn(memoryMap'[k])
        BY <2>1, FrameOfMap DEF FramesLeft
      <3>2. FreeAt(memoryMap, k) /\ k \in DOMAIN memoryMap /\ f \in FramesIn(memoryMap[k])
        BY <1>2, <1>3, <1>5, <3>1 DEF FreeAt
      <3>3. f \notin out
        <4>1. CASE k = j
          BY <1>1, <1>2, <3>1, <4>1
        <4>2. CASE k # j
          BY <1>1, <3>2, <4>2 DEF RegionsApart
        <4> QED
          BY <4>1, <4>2
      <3> QED
        BY <3>2, <3>3, FrameOfMap DEF FramesLeft
    <2>2. ASSUME NEW f \in FramesLeft \ out PROVE f \in FramesLeft'
      <3>1. PICK k : FreeAt(memoryMap, k) /\ f \in FramesIn(memoryMap[k])
        BY <2>2, FrameOfMap DEF FramesLeft
      <3>2. f \in FramesIn(memoryMap'[k])
        BY <1>1, <1>2, <2>2, <3>1 DEF FreeAt
      <3> QED
        BY <1>5, <3>1, <3>2, FrameOfMap DEF FramesLeft
    <2> QED
      BY <2>1, <2>2
  <1>7. out \subseteq FramesLeft
    <2> SUFFICES ASSUME NEW f \in out PROVE f \in FramesLeft
      OBVIOUS
    <2>1. FreeAt(memoryMap, j) /\ f \in FramesIn(memoryMap[j])
      BY <1>1 DEF FreeAt
    <2> QED
      BY <2>1, FrameOfMap DEF FramesLeft
  <1>8. /\ handedOut' \in Seq(PageRanges) /\ Len(handedOut') = Len(handedOut) + 1
        /\ handedOut'[Len(handedOut) + 1] = set
        /\ \A k \in DOMAIN handedOut : handedOut'[k] = handedOut[k]
        /\ DOMAIN handedOut' = DOMAIN handedOut \cup {Len(handedOut) + 1}
    BY DEF Leaves
  <1>9. FramesHandedOut' = FramesHandedOut \cup out
    <2>1. ASSUME NEW f PROVE f \in FramesHandedOut' <=> f \in FramesHandedOut \cup out
      <3>1. f \in FramesHandedOut' <=> \E k \in DOMAIN handedOut' : f \in FramesOfSet(handedOut'[k])
        BY DEF FramesHandedOut, FramesOfSet
      <3>2. f \in FramesHandedOut <=> \E k \in DOMAIN handedOut : f \in FramesOfSet(handedOut[k])
        BY FrameHandedOut
      <3> HIDE DEF FramesHandedOut
      <3> QED
        BY <1>8, <3>1, <3>2
    <2> QED
      BY <2>1
  <1>10. \A k \in DOMAIN handedOut : FramesOfSet(handedOut[k]) \cap out = {}
    <2> SUFFICES ASSUME NEW k \in DOMAIN handedOut, NEW f \in FramesOfSet(handedOut[k])
                 PROVE  f \notin out
      OBVIOUS
    <2>1. f \in FramesHandedOut
      BY FrameHandedOut
    <2> QED
      BY <1>7, <2>1 DEF HandedOutOnce
  <1>11. Apart(handedOut)'
    <2> DEFINE n == Len(handedOut) + 1
    <2>1. n \notin DOMAIN handedOut
      OBVIOUS
    <2>2. \A k, l \in DOMAIN handedOut :
            k # l => FramesOfSet(handedOut[k]) \cap FramesOfSet(handedOut[l]) = {}
      BY DEF HandedOutOnce, Apart, FramesOfSet
    <2> HIDE DEF n, out
    <2> SUFFICES ASSUME NEW k \in DOMAIN handedOut', NEW l \in DOMAIN handedOut', k # l
                 PROVE  FramesOfSet(handedOut'[k]) \cap FramesOfSet(handedOut'[l]) = {}
      BY DEF Apart, FramesOfSet
    <2>3. CASE k \in DOMAIN handedOut /\ l \in DOMAIN handedOut
      BY <1>8, <2>2, <2>3
    <2>4. CASE k = n /\ l \in DOMAIN handedOut
      BY <1>8, <1>10, <2>4 DEF n, out
    <2>5. CASE l = n /\ k \in DOMAIN handedOut
      BY <1>8, <1>10, <2>5 DEF n, out
    <2> QED
      BY <1>8, <2>3, <2>4, <2>5 DEF n
  <1>12. HandedOutOnce'
    BY <1>6, <1>9, <1>11 DEF HandedOutOnce
  <1>13. NothingLost'
    BY <1>6, <1>7, <1>9 DEF NothingLost, Leaves
  <1> QED
    BY <1>2, <1>4, <1>8, <1>12, <1>13

-----------------------------------------------------------------------------
(* Each operation keeps the invariant, whatever page count it is given. *)

(* The part of the invariant that reads only the map and what left it. *)
Partition ==
  /\ memoryMap \in Seq(Descriptors) /\ RegionsApart(memoryMap)
  /\ handedOut \in Seq(PageRanges)
  /\ memSize \in Nat /\ \A f \in freeAtBoot : f < memSize
  /\ HandedOutOnce /\ NothingLost

LEMMA PartitionStays ==
  Partition /\ UNCHANGED <<memoryMap, handedOut, memSize, freeAtBoot>> => Partition'
  BY DEF Partition, HandedOutOnce, NothingLost, FramesHandedOut, FramesLeft

LEMMA LeavesPartition ==
  ASSUME Partition, UNCHANGED memSize, NEW i, NEW set, NEW rest, Leaves(i, set, rest)
  PROVE  Partition'
  <1>1. /\ memoryMap' \in Seq(Descriptors) /\ RegionsApart(memoryMap)'
        /\ handedOut' \in Seq(PageRanges) /\ HandedOutOnce' /\ NothingLost'
    BY Taken DEF Partition
  <1> QED
    BY <1>1 DEF Partition, Leaves

LEMMA ReserveBInv ==
  ASSUME BInv, NEW n, reserveVirtualMemory(n)
  PROVE  BInv'
  <1>1. UNCHANGED <<memoryMap, handedOut, memSize, freeAtBoot, descriptorIndex>>
    BY DEF reserveVirtualMemory
  <1>2. Partition'
    BY <1>1, PartitionStays DEF BInv, Partition
  <1>3. PassedEmpty' /\ answer' # "False"
    BY <1>1 DEF BInv, PassedEmpty, Indices, descriptor, descriptorCount, reserveVirtualMemory
  <1> QED
    BY <1>1, <1>2, <1>3 DEF BInv, Partition, IterationComplete

LEMMA BootstrapAllocateBInv ==
  ASSUME BInv, NEW n \in Nat, bootstrapAllocatePages(n)
  PROVE  BInv'
  <1>0. /\ UNCHANGED <<descriptorIndex, memSize, freeAtBoot>>
        /\ answer' # "False" /\ Partition
    BY DEF bootstrapAllocatePages, BInv, Partition
  <1>1. CASE Candidates = {}
    <2>1. UNCHANGED <<memoryMap, handedOut>>
      BY <1>1 DEF bootstrapAllocatePages
    <2>2. Partition' /\ PassedEmpty'
      BY <1>0, <2>1, PartitionStays
         DEF BInv, PassedEmpty, Indices, descriptor, descriptorCount
    <2> QED
      BY <1>0, <2>2 DEF BInv, Partition, IterationComplete
  <1>2. CASE Candidates # {}
    <2> DEFINE i == Min(Candidates)
    <2> DEFINE d == descriptor(i)
    <2> DEFINE k == Min({n, d.NumberOfPages})
    <2> DEFINE set == [address |-> d.PhysicalStart, count |-> k]
    <2> DEFINE rest == [Type |-> d.Type, PhysicalStart |-> d.PhysicalStart + k,
                        NumberOfPages |-> d.NumberOfPages - k]
    <2>1. i \in Candidates
      <3>1. Candidates \in SUBSET Nat
        BY DEF Candidates, Indices, descriptorCount, BInv
      <3> QED
        BY <1>2, <3>1, MinIsLeast
    <2>2. /\ i \in Indices /\ i > descriptorIndex /\ HasFreePages(d)
          /\ d \in Descriptors /\ d.NumberOfPages \in Nat /\ d.PhysicalStart \in Nat
          /\ d.Type \in STRING
      <3> HIDE DEF i
      <3>1. i \in Indices /\ i > descriptorIndex /\ HasFreePages(d)
        BY <2>1 DEF Candidates
      <3> QED
        BY <3>1, DescriptorFields DEF BInv
    <2>3. Cut(i, n)
      BY <1>2 DEF bootstrapAllocatePages
    <2>4. /\ memoryMap' = [memoryMap EXCEPT ![i + 1] = rest]
          /\ handedOut' = Append(handedOut, set)
      BY <2>3 DEF Cut, HandOut, descriptor
    <2> HIDE DEF i, d
    <2>5. k \in Nat /\ k <= d.NumberOfPages
      BY <2>2, MinIsLeast
    <2> HIDE DEF k
    <2>6. rest \in Descriptors /\ rest.Type = d.Type /\ set \in PageRanges
          /\ rest.PhysicalStart = d.PhysicalStart + k
          /\ rest.NumberOfPages = d.NumberOfPages - k
      BY <2>2, <2>5 DEF Descriptors, PageRanges
    <2>7. /\ FramesIn(d) = FramesOfSet(set) \cup FramesIn(rest)
          /\ FramesOfSet(set) \cap FramesIn(rest) = {}
      <3> HIDE DEF rest
      <3> QED
        BY <2>2, <2>5, <2>6 DEF FramesIn, FramesOf, FramesOfSet
    <2>8. Leaves(i, set, rest)
      BY <1>0, <2>2, <2>4, <2>6, <2>7 DEF Leaves, d
    <2>9. Partition'
      BY <1>0, <2>8, LeavesPartition
    <2>10. PassedEmpty'
      <3>1. /\ descriptorCount' = descriptorCount
            /\ \A l \in Indices : l < i => descriptor(l)' = descriptor(l)
        <4> HIDE DEF rest
        <4> QED
          BY <2>2, <2>4 DEF BInv, descriptorCount, descriptor, Indices
      <3> QED
        BY <1>0, <2>2, <3>1 DEF BInv, PassedEmpty, Indices, descriptorCount
    <2> QED
      BY <1>0, <2>9, <2>10 DEF BInv, Partition, IterationComplete
  <1> QED
    BY <1>1, <1>2

LEMMA MoveNextBInv == BInv /\ move_next => BInv'
  <1> SUFFICES ASSUME BInv, move_next PROVE BInv'
    OBVIOUS
  <1>0. UNCHANGED <<memSize, freeAtBoot>> /\ Partition
    BY DEF move_next, BInv, Partition
  <1>1. CASE Unreported = {}
    <2>1. /\ UNCHANGED <<memoryMap, handedOut>>
          /\ descriptorIndex' = Max({descriptorIndex, descriptorCount})
      BY <1>1 DEF move_next
    <2>2. Partition'
      BY <1>0, <2>1, PartitionStays
    <2>3. descriptorCount \in Nat /\ descriptorIndex \in Nat
      BY DEF BInv, descriptorCount
    <2>4. descriptorIndex' \in Nat
      BY <2>1, <2>3, MaxOfTwo
    <2>5. \A i \in Indices : ~HasFreePages(descriptor(i))
      <3> TAKE i \in Indices
      <3>1. i \in Nat
        BY DescriptorFields DEF BInv
      <3>2. CASE i < descriptorIndex
        BY <3>2 DEF BInv, PassedEmpty
      <3>3. CASE i >= descriptorIndex
        BY <1>1, <3>3 DEF Unreported
      <3> QED
        BY <2>3, <3>1, <3>2, <3>3
    <2>6. PassedEmpty'
      BY <2>1, <2>5 DEF PassedEmpty, Indices, descriptorCount, descriptor
    <2>7. FramesLeft = {}
      <3> SUFFICES ASSUME NEW f \in FramesLeft PROVE FALSE
        OBVIOUS
      <3>1. PICK k : FreeAt(memoryMap, k) /\ f \in FramesIn(memoryMap[k])
        BY FrameOfMap DEF FramesLeft
      <3>2. k \in 1 .. Len(memoryMap) /\ k - 1 \in Indices /\ (k - 1) + 1 = k
        BY <3>1 DEF FreeAt, Indices, descriptorCount, BInv
      <3>3. descriptor(k - 1) = memoryMap[k]
        BY <3>2 DEF descriptor
      <3>4. memoryMap[k].NumberOfPages \in Nat /\ memoryMap[k].PhysicalStart \in Nat
        BY <3>2, <3>3, DescriptorFields DEF BInv
      <3>5. memoryMap[k].NumberOfPages > 0
        BY <3>1, <3>4 DEF FramesIn, FramesOf
      <3> QED
        BY <2>5, <3>1, <3>2, <3>3, <3>5 DEF HasFreePages, FreeAt
    <2>8. FramesLeft' = {}
      BY <2>1, <2>7 DEF FramesLeft
    <2> QED
      BY <2>2, <2>4, <2>6, <2>8 DEF BInv, Partition, IterationComplete
  <1>2. CASE Unreported # {}
    <2> DEFINE i == Min(Unreported)
    <2> DEFINE d == descriptor(i)
    <2> DEFINE set == [address |-> d.PhysicalStart, count |-> d.NumberOfPages]
    <2> DEFINE rest == [d EXCEPT !.NumberOfPages = 0]
    <2>1. i \in Unreported /\ \A j \in Unreported : i <= j
      <3>1. Unreported \in SUBSET Nat
        BY DescriptorFields DEF Unreported, BInv
      <3> QED
        BY <1>2, <3>1, MinIsLeast
    <2>2. Report(i) /\ answer' = "True"
      BY <1>2 DEF move_next
    <2> HIDE DEF i
    <2>3. /\ i \in Indices /\ i >= descriptorIndex /\ HasFreePages(d)
          /\ d \in Descriptors /\ d.NumberOfPages \in Nat /\ d.PhysicalStart \in Nat
          /\ i \in Nat /\ i + 1 \in DOMAIN memoryMap
      <3>1. i \in Indices /\ i >= descriptorIndex /\ HasFreePages(d)
        BY <2>1 DEF Unreported
      <3>2. i + 1 \in 1 .. Len(memoryMap)
        BY <3>1 DEF Indices, descriptorCount
      <3> QED
        BY <3>1, <3>2, DescriptorFields DEF BInv
    <2>4. /\ memoryMap' = [memoryMap EXCEPT ![i + 1] = rest]
          /\ handedOut' = Append(handedOut, set)
          /\ descriptorIndex' = i
      BY <2>2 DEF Report, HandOut, descriptor
    <2> HIDE DEF d
    <2>5. /\ rest \in Descriptors /\ rest.Type = d.Type /\ set \in PageRanges
          /\ rest.NumberOfPages = 0 /\ rest.PhysicalStart = d.PhysicalStart
      BY <2>3 DEF Descriptors, PageRanges
    <2> HIDE DEF rest
    <2>6. /\ FramesIn(d) = FramesOfSet(set) \cup FramesIn(rest)
          /\ FramesOfSet(set) \cap FramesIn(rest) = {}
      BY <2>3, <2>5 DEF FramesIn, FramesOf, FramesOfSet
    <2>7. Partition'
      <3>1. Leaves(i, set, rest)
        BY <1>0, <2>3, <2>4, <2>5, <2>6 DEF Leaves, d
      <3> QED
        BY <1>0, <3>1, LeavesPartition
    <2>8. PassedEmpty'
      <3>1. ASSUME NEW l \in Indices, l < i PROVE ~HasFreePages(descriptor(l))
        <4>1. l \in Nat /\ descriptorIndex \in Nat
          BY DescriptorFields DEF BInv
        <4>2. CASE l < descriptorIndex
          BY <4>2 DEF BInv, PassedEmpty
        <4>3. CASE l >= descriptorIndex
          BY <2>1, <2>3, <3>1, <4>1, <4>3 DEF Unreported
        <4> QED
          BY <4>1, <4>2, <4>3
      <3>2. /\ descriptorCount' = descriptorCount
            /\ \A l \in Indices : l < i => descriptor(l)' = descriptor(l)
        BY <2>3, <2>4 DEF BInv, descriptorCount, descriptor, Indices
      <3> QED
        BY <2>4, <3>1, <3>2 DEF PassedEmpty, Indices
    <2> QED
      BY <2>2, <2>3, <2>4, <2>7, <2>8 DEF BInv, Partition, IterationComplete
  <1> QED
    BY <1>1, <1>2

LEMMA StutterBInv == BInv /\ UNCHANGED bootVars => BInv'
  <1> SUFFICES ASSUME BInv, UNCHANGED bootVars PROVE BInv'
    OBVIOUS
  <1>1. UNCHANGED <<memoryMap, handedOut, memSize, freeAtBoot, descriptorIndex, answer>>
    BY DEF bootVars
  <1>2. Partition'
    BY <1>1, PartitionStays DEF BInv, Partition
  <1> QED
    BY <1>1, <1>2 DEF BInv, Partition, PassedEmpty, IterationComplete, FramesLeft,
       Indices, descriptor, descriptorCount

LEMMA DestroyBInv == BInv /\ destroy => BInv'
  <1> SUFFICES ASSUME BInv, destroy PROVE BInv'
    OBVIOUS
  <1>1. /\ UNCHANGED <<memoryMap, handedOut, memSize, freeAtBoot, descriptorIndex>>
        /\ answer' # "False"
    BY DEF destroy
  <1>2. Partition'
    BY <1>1, PartitionStays DEF BInv, Partition
  <1> QED
    BY <1>1, <1>2 DEF BInv, Partition, PassedEmpty, IterationComplete,
       Indices, descriptor, descriptorCount

LEMMA OperationBInv == BInv /\ [Operation]_bootVars => BInv'
  <1> SUFFICES ASSUME BInv, [Operation]_bootVars PROVE BInv'
    OBVIOUS
  <1>1. ASSUME NEW n \in ReserveCounts, reserveVirtualMemory(n) PROVE BInv'
    BY <1>1, ReserveBInv
  <1>2. ASSUME NEW n \in BootCounts, bootstrapAllocatePages(n) PROVE BInv'
    <2>1. n \in Nat
      BY BootAssumption
    <2> QED
      BY <1>2, <2>1, BootstrapAllocateBInv
  <1>3. CASE bootstrapAllocatePage
    BY <1>3, BootstrapAllocateBInv DEF bootstrapAllocatePage
  <1>4. CASE move_next
    BY <1>4, MoveNextBInv
  <1>5. CASE destroy
    BY <1>5, DestroyBInv
  <1>6. CASE UNCHANGED bootVars
    BY <1>6, StutterBInv
  <1> QED
    BY <1>1, <1>2, <1>3, <1>4, <1>5, <1>6 DEF Operation

LEMMA BInvEveryFrameOnce == BInv => EveryFrameOnce
  <1> SUFFICES ASSUME BInv PROVE EveryFrameOnce
    OBVIOUS
  <1>1. FramesHandedOut \subseteq freeAtBoot
    BY DEF BInv, NothingLost
  <1> QED
    BY <1>1 DEF BInv, EveryFrameOnce, WithinMemorySize

(* Every free frame leaves the firmware's map exactly once, allocated or
   reported, in whatever order bootstrapAllocatePages and move_next run and
   however the firmware lists its regions (uefi_shim.cpp:75-142).         *)
THEOREM EachFrameOnce == BootSpec => []EveryFrameOnce
  BY ConstructBInv, OperationBInv, BInvEveryFrameOnce, PTL DEF BootSpec

-----------------------------------------------------------------------------
(* Virtual reservations: what is reserved lies below the next free page. *)
RInv ==
  /\ reserved \in Seq(PageRanges)
  /\ nextFreeVirtualPage \in Nat
  /\ \A i \in DOMAIN reserved :
       /\ reserved[i].address + reserved[i].count <= nextFreeVirtualPage
       /\ reserved[i].address + reserved[i].count <= MemoryMapsEnd
  /\ Apart(reserved)

LEMMA ReserveRInv ==
  ASSUME RInv, NEW n \in Nat, reserveVirtualMemory(n)
  PROVE  RInv'
  <1>1. CASE UNCHANGED <<nextFreeVirtualPage, reserved>>
    BY <1>1 DEF RInv, Apart
  <1>2. CASE ~UNCHANGED <<nextFreeVirtualPage, reserved>>
    <2> DEFINE set == [address |-> nextFreeVirtualPage, count |-> n]
    <2> DEFINE last == Len(reserved) + 1
    <2>1. /\ ~(nextFreeVirtualPage + n >= MemoryMapsEnd)
          /\ nextFreeVirtualPage' = nextFreeVirtualPage + n
          /\ reserved' = Append(reserved, set)
      BY <1>2 DEF reserveVirtualMemory
    <2>2. nextFreeVirtualPage \in Nat /\ MemoryMapsEnd \in Nat
      BY BootAssumption DEF RInv
    <2>3. /\ reserved' \in Seq(PageRanges)
          /\ DOMAIN reserved' = DOMAIN reserved \cup {last}
          /\ reserved'[last] = set /\ last \notin DOMAIN reserved
          /\ \A i \in DOMAIN reserved : reserved'[i] = reserved[i]
      BY <2>1, <2>2 DEF RInv, PageRanges
    <2> HIDE DEF last
    <2>4. \A i \in DOMAIN reserved : /\ reserved[i] \in PageRanges
                                    /\ reserved[i].address \in Nat /\ reserved[i].count \in Nat
      <3> SUFFICES ASSUME NEW i \in DOMAIN reserved PROVE reserved[i] \in PageRanges
        BY DEF PageRanges
      <3> QED
        BY DEF RInv
    <2>5. \A i \in DOMAIN reserved' :
            /\ reserved'[i].address + reserved'[i].count <= nextFreeVirtualPage'
            /\ reserved'[i].address + reserved'[i].count <= MemoryMapsEnd
      BY <2>1, <2>2, <2>3, <2>4 DEF RInv
    <2>6. \A i \in DOMAIN reserved :
            FramesOf(reserved[i].address, reserved[i].count)
              \cap FramesOf(set.address, set.count) = {}
      BY <2>2, <2>4 DEF RInv, FramesOf
    <2>7. Apart(reserved)'
      <3> SUFFICES ASSUME NEW i \in DOMAIN reserved', NEW j \in DOMAIN reserved', i # j
                   PROVE  FramesOf(reserved'[i].address, reserved'[i].count)
                            \cap FramesOf(reserved'[j].address, reserved'[j].count) = {}
        BY DEF Apart
      <3>1. CASE i \in DOMAIN reserved /\ j \in DOMAIN reserved
        BY <2>3, <3>1 DEF RInv, Apart
      <3>2. CASE i = last /\ j \in DOMAIN reserved
        BY <2>3, <2>6, <3>2
      <3>3. CASE j = last /\ i \in DOMAIN reserved
        BY <2>3, <2>6, <3>3
      <3> QED
        BY <2>3, <3>1, <3>2, <3>3
    <2> QED
      BY <2>1, <2>2, <2>3, <2>5, <2>7 DEF RInv
  <1> QED
    BY <1>1, <1>2

LEMMA ConstructRInv == Construct => RInv
  BY BootAssumption DEF Construct, RInv, Apart

LEMMA OperationRInv == RInv /\ [Operation]_bootVars => RInv'
  <1> SUFFICES ASSUME RInv, [Operation]_bootVars PROVE RInv'
    OBVIOUS
  <1>1. ASSUME NEW n \in ReserveCounts, reserveVirtualMemory(n) PROVE RInv'
    <2>1. n \in Nat
      BY BootAssumption
    <2> QED
      BY <1>1, <2>1, ReserveRInv
  <1>2. CASE UNCHANGED <<nextFreeVirtualPage, reserved>>
    BY <1>2 DEF RInv, Apart
  <1> QED
    BY <1>1, <1>2 DEF Operation, bootVars, bootstrapAllocatePages, bootstrapAllocatePage,
       move_next, destroy

LEMMA RInvReservationsApart == RInv => ReservationsApart
  BY DEF RInv, ReservationsApart

(* Virtual pages are reserved once and below the page tables' area, whatever
   is asked (reserveVirtualMemory, uefi_shim.cpp:56-73).                   *)
THEOREM ReservedOnce == BootSpec => []ReservationsApart
  BY ConstructRInv, OperationRInv, RInvReservationsApart, PTL DEF BootSpec

-----------------------------------------------------------------------------
(* What the bootstrapper's operations return. *)

LEMMA AppendedRange ==
  ASSUME handedOut \in Seq(PageRanges), NEW set \in PageRanges,
         handedOut' = Append(handedOut, set), Apart(handedOut)'
  PROVE  /\ FramesHandedOut' = FramesHandedOut \cup FramesOfSet(set)
         /\ FramesHandedOut \cap FramesOfSet(set) = {}
         /\ Last(handedOut') = set
  <1> DEFINE last == Len(handedOut) + 1
  <1>1. /\ DOMAIN handedOut' = DOMAIN handedOut \cup {last} /\ last \notin DOMAIN handedOut
        /\ handedOut'[last] = set /\ Len(handedOut') = last
        /\ \A k \in DOMAIN handedOut : handedOut'[k] = handedOut[k]
    OBVIOUS
  <1> HIDE DEF last
  <1>2. ASSUME NEW f PROVE f \in FramesHandedOut' <=> f \in FramesHandedOut \cup FramesOfSet(set)
    <2>1. f \in FramesHandedOut' <=> \E k \in DOMAIN handedOut' : f \in FramesOfSet(handedOut'[k])
      BY DEF FramesHandedOut, FramesOfSet
    <2>2. f \in FramesHandedOut <=> \E k \in DOMAIN handedOut : f \in FramesOfSet(handedOut[k])
      BY FrameHandedOut
    <2> HIDE DEF FramesHandedOut
    <2> QED
      BY <1>1, <2>1, <2>2
  <1>3. ASSUME NEW k \in DOMAIN handedOut
        PROVE  FramesOfSet(handedOut[k]) \cap FramesOfSet(set) = {}
    BY <1>1 DEF Apart, FramesOfSet
  <1>4. FramesHandedOut \cap FramesOfSet(set) = {}
    BY <1>3, FrameHandedOut
  <1> QED
    BY <1>1, <1>2, <1>4 DEF Last

LEMMA HandedOutAreNat == BInv => FramesHandedOut \subseteq Nat
  <1> SUFFICES ASSUME BInv, NEW f \in FramesHandedOut PROVE f \in Nat
    OBVIOUS
  <1>1. PICK i \in DOMAIN handedOut : f \in FramesOfSet(handedOut[i])
    BY FrameHandedOut
  <1>2. handedOut[i] \in PageRanges
    BY DEF BInv
  <1> QED
    BY <1>1, <1>2 DEF PageRanges, FramesOfSet, FramesOf

LEMMA BootstrapAllocates ==
  ASSUME BInv, NEW n \in Nat, bootstrapAllocatePages(n), answer' = "Ok"
  PROVE  \E set \in PageRanges : handedOut' = Append(handedOut, set) /\ set.count <= n
  <1> DEFINE i == Min(Candidates)
  <1> DEFINE d == descriptor(i)
  <1> DEFINE k == Min({n, d.NumberOfPages})
  <1>1. Candidates # {} /\ Cut(i, n)
    BY DEF bootstrapAllocatePages
  <1>2. i \in Indices
    <2>1. Candidates \in SUBSET Nat
      BY DEF Candidates, Indices, descriptorCount, BInv
    <2>2. Min(Candidates) \in Candidates
      BY <1>1, <2>1, MinIsLeast
    <2> QED
      BY <2>2 DEF Candidates
  <1>3. handedOut' = Append(handedOut, [address |-> d.PhysicalStart, count |-> k])
    BY <1>1 DEF Cut, HandOut
  <1> HIDE DEF i
  <1>4. d.PhysicalStart \in Nat /\ d.NumberOfPages \in Nat
    BY <1>2, DescriptorFields DEF BInv
  <1> HIDE DEF d
  <1>5. k \in Nat /\ k <= n
    BY <1>4, MinIsLeast
  <1> HIDE DEF k
  <1> QED
    BY <1>3, <1>4, <1>5 DEF PageRanges

LEMMA MoveNextReports ==
  ASSUME BInv, move_next, answer' = "True"
  PROVE  /\ handedOut' = Append(handedOut, current')
         /\ current' \in PageRanges /\ current'.count > 0
  <1> DEFINE i == Min(Unreported)
  <1> DEFINE d == descriptor(i)
  <1>1. Unreported # {} /\ Report(i)
    BY DEF move_next
  <1>2. i \in Indices /\ HasFreePages(d)
    <2>1. Unreported \in SUBSET Nat
      BY DescriptorFields DEF Unreported, BInv
    <2>2. Min(Unreported) \in Unreported
      BY <1>1, <2>1, MinIsLeast
    <2> QED
      BY <2>2 DEF Unreported
  <1>3. /\ current' = [address |-> d.PhysicalStart, count |-> d.NumberOfPages]
        /\ handedOut' = Append(handedOut, current')
    BY <1>1 DEF Report, HandOut
  <1> HIDE DEF i
  <1>4. d.PhysicalStart \in Nat /\ d.NumberOfPages \in Nat /\ d.NumberOfPages > 0
    BY <1>2, DescriptorFields DEF BInv, HasFreePages
  <1> QED
    BY <1>3, <1>4 DEF PageRanges

-----------------------------------------------------------------------------
(* Bits and bytes. *)

LEMMA ByteOf ==
  ASSUME NEW p \in Nat
  PROVE  /\ p \div ByteBits \in Nat /\ (p \div ByteBits) * ByteBits \in Nat
         /\ (p \div ByteBits) * ByteBits <= p
         /\ p < (p \div ByteBits) * ByteBits + ByteBits
         /\ p % ByteBits = p - (p \div ByteBits) * ByteBits
  BY BitmapAssumption

LEMMA InByte ==
  ASSUME NEW q \in Nat, NEW p \in Nat
  PROVE  p \div ByteBits = q <=> q * ByteBits <= p /\ p < q * ByteBits + ByteBits
  <1> DEFINE r == p \div ByteBits
  <1>1. r \in Nat /\ r * ByteBits <= p /\ p < r * ByteBits + ByteBits
    BY ByteOf
  <1>2. ByteBits \in Nat /\ ByteBits > 0
    BY BitmapAssumption
  <1> HIDE DEF r
  <1>3. ASSUME q * ByteBits <= p, p < q * ByteBits + ByteBits PROVE r = q
    <2>1. CASE r < q
      <3>1. (r + 1) * ByteBits <= q * ByteBits
        BY <1>1, <1>2, <2>1
      <3> QED
        BY <1>1, <1>2, <1>3, <3>1
    <2>2. CASE q < r
      <3>1. (q + 1) * ByteBits <= r * ByteBits
        BY <1>1, <1>2, <2>2
      <3> QED
        BY <1>1, <1>2, <1>3, <3>1
    <2> QED
      BY <1>1, <2>1, <2>2
  <1> QED
    BY <1>1, <1>3 DEF r

(* RestOfByte reaches to the end of the range or of the byte. *)
LEMMA RestIsInterval ==
  ASSUME currentPage \in Nat, endPage \in Nat, currentPage <= endPage
  PROVE  \E e \in currentPage .. endPage :
           /\ RestOfByte = currentPage .. (e - 1)
           /\ Cardinality(RestOfByte) = e - currentPage
           /\ e = endPage \/ e % ByteBits = 0
           /\ currentPage % ByteBits = 0 /\ currentPage + ByteBits > endPage => e = endPage
  <1> DEFINE q == currentPage \div ByteBits
  <1> DEFINE next == q * ByteBits + ByteBits
  <1>1. /\ q \in Nat /\ q * ByteBits \in Nat /\ q * ByteBits <= currentPage
        /\ currentPage < next
        /\ currentPage % ByteBits = currentPage - q * ByteBits
    BY ByteOf
  <1>2. ByteBits \in Nat /\ ByteBits > 0 /\ next \in Nat
    BY <1>1, BitmapAssumption
  <1>3. next % ByteBits = 0
    <2>1. next \div ByteBits = q + 1
      <3>1. (q + 1) * ByteBits = next
        BY <1>1, <1>2
      <3> QED
        BY <1>1, <1>2, <3>1, InByte
    <2>2. (next \div ByteBits) * ByteBits = next
      BY <1>1, <1>2, <2>1
    <2> QED
      BY <1>2, <2>2, ByteOf
  <1> DEFINE e == IF next <= endPage THEN next ELSE endPage
  <1>4. e \in currentPage .. endPage /\ (e = endPage \/ e % ByteBits = 0)
    BY <1>1, <1>2, <1>3
  <1>5. currentPage % ByteBits = 0 /\ currentPage + ByteBits > endPage => e = endPage
    BY <1>1, <1>2
  <1>6. RestOfByte = currentPage .. (e - 1)
    <2>1. ASSUME NEW p \in currentPage .. (endPage - 1)
          PROVE  p \div ByteBits = q <=> p < next
      <3>1. p \in Nat /\ p >= currentPage
        OBVIOUS
      <3>2. p \div ByteBits = q <=> q * ByteBits <= p /\ p < next
        BY <1>1, <3>1, InByte
      <3> QED
        BY <1>1, <1>2, <3>1, <3>2
    <2>2. RestOfByte = {p \in currentPage .. (endPage - 1) : p < next}
      BY <2>1 DEF RestOfByte
    <2> HIDE DEF next
    <2> QED
      BY <1>2, <2>2
  <1>7. Cardinality(currentPage .. (e - 1)) = e - currentPage
    <2> HIDE DEF e
    <2>1. e \in Int /\ e - 1 \in Int /\ currentPage \in Int /\ currentPage <= e
      BY <1>4
    <2>2. Cardinality(currentPage .. (e - 1))
            = IF currentPage > e - 1 THEN 0 ELSE (e - 1) - currentPage + 1
      BY <2>1, FS_Interval
    <2> QED
      BY <2>1, <2>2
  <1> HIDE DEF e
  <1> QED
    BY <1>4, <1>5, <1>6, <1>7

(* The bitmap is large enough for all the memory. *)
LEMMA BitmapCovers ==
  ASSUME memSize \in Nat
  PROVE  bitmapBits \in Nat /\ memSize <= bitmapBits /\ bitmapBits < memSize + BitsPerPage
  <1> DEFINE n == memSize + BitsPerPage - 1
  <1>1. n \in Nat /\ BitsPerPage \in Nat /\ BitsPerPage > 0
    BY BitmapAssumption
  <1> HIDE DEF n
  <1>2. /\ n \div BitsPerPage \in Nat /\ (n \div BitsPerPage) * BitsPerPage \in Nat
        /\ (n \div BitsPerPage) * BitsPerPage <= n
        /\ n < (n \div BitsPerPage) * BitsPerPage + BitsPerPage
    BY <1>1
  <1>3. bitmapBits = (n \div BitsPerPage) * BitsPerPage
    BY DEF bitmapBits, bitmapPages, n
  <1> QED
    BY <1>1, <1>2, <1>3 DEF n

-----------------------------------------------------------------------------
(* The invariant. *)
Backing == {"reserve", "back", "map", "fill"}
InBytes == {"firstByte", "wholeBytes"}

(* What is still to be cleared of the range reported last. *)
Pending == IF pc \in InBytes THEN currentPage .. (endPage - 1) ELSE {}

(* While the bitmap is being backed, nothing was reported. *)
BackedOnly ==
  /\ pc \in Backing => FramesHandedOut = backing /\ lowestFreePage = UINTPTR_MAX
  /\ pc = "reserve" => initializationStatus # "Ok"
  /\ pc \in {"map", "fill"} => newPages \in PageRanges /\ newPages.count <= pagesNeeded

BitsAgree ==
  pc # "failed" =>
    /\ Pending \subseteq Reported
    /\ (Reported \ Pending) \cap bitmap = {}
    /\ cleared \ Reported \subseteq bitmap

LowestKept ==
  pc # "failed" =>
    \/ Reported = {} /\ lowestFreePage = UINTPTR_MAX
    \/ lowestFreePage \in Reported /\ \A f \in Reported : lowestFreePage <= f

ByteLoops ==
  /\ currentPage \in Nat /\ endPage \in Nat
  /\ pc \in InBytes => currentPage <= endPage
  /\ pc = "wholeBytes" => currentPage % ByteBits = 0 \/ currentPage = endPage

AInv ==
  /\ BInv
  /\ memSize + BitsPerPage <= UINTPTR_MAX
  /\ pagesNeeded \in Nat
  /\ backing \subseteq FramesHandedOut
  /\ BackedOnly /\ BitsAgree /\ LowestKept /\ ByteLoops
  /\ FailedInitGrantsNothing

LEMMA InitAInv == Init => AInv
  <1> SUFFICES ASSUME Init PROVE AInv
    OBVIOUS
  <1>1. BInv /\ FramesHandedOut = {}
    BY ConstructBInv DEF Init, Construct, FramesHandedOut
  <1>2. memSize + BitsPerPage <= UINTPTR_MAX
    BY BitmapAssumption DEF Init, Construct
  <1>3. pagesNeeded \in Nat
    <2>1. memSize \in Nat /\ BitsPerPage \in Nat /\ BitsPerPage > 0
      BY <1>1, BitmapAssumption DEF BInv
    <2>2. (memSize + BitsPerPage - 1) \div BitsPerPage \in Nat
      BY <2>1
    <2> QED
      BY <2>2 DEF Init, bitmapPages
  <1> QED
    BY <1>1, <1>2, <1>3 DEF Init, AInv, BackedOnly, BitsAgree, LowestKept, ByteLoops, Pending,
       Reported, FailedInitGrantsNothing, Backing, InBytes

(* The bitmap's size stays once the bootstrapper was made. *)
LEMMA SizesStay == UNCHANGED memSize => UNCHANGED <<bitmapPages, bitmapBits>>
  BY DEF bitmapPages, bitmapBits

LEMMA HintPastEnd ==
  ASSUME AInv PROVE UINTPTR_MAX >= bitmapBits /\ bitmapBits \in Nat
  <1>1. /\ memSize \in Nat /\ UINTPTR_MAX \in Nat /\ BitsPerPage \in Nat
        /\ memSize + BitsPerPage <= UINTPTR_MAX
    BY BitmapAssumption DEF AInv, BInv
  <1> QED
    BY <1>1, BitmapCovers

LEMMA ReserveAInv == AInv /\ Reserve => AInv'
  <1> SUFFICES ASSUME AInv, Reserve PROVE AInv'
    OBVIOUS
  <1>1. reserveVirtualMemory(pagesNeeded) /\ UNCHANGED <<memSize, handedOut>>
    BY DEF Reserve, reserveVirtualMemory
  <1>2. BInv'
    BY <1>1, ReserveBInv DEF AInv
  <1>3. FramesHandedOut' = FramesHandedOut /\ Reported' = Reported
    BY <1>1 DEF FramesHandedOut, Reported, Reserve
  <1>4. pc = "reserve" /\ pc' \in {"back", "failed"} /\ Pending = {} /\ Pending' = {}
    BY DEF Reserve, Pending, InBytes
  <1> QED
    BY <1>1, <1>2, <1>3, <1>4 DEF Reserve, AInv, BackedOnly, BitsAgree, LowestKept, ByteLoops,
       FailedInitGrantsNothing, Backing, InBytes

LEMMA AllocateBackingAInv == AInv /\ AllocateBacking => AInv'
  <1> SUFFICES ASSUME AInv, AllocateBacking PROVE AInv'
    OBVIOUS
  <1>1. /\ bootstrapAllocatePages(pagesNeeded) /\ UNCHANGED memSize
        /\ pc = "back" /\ pagesNeeded \in Nat /\ BInv
        /\ UNCHANGED <<initializationStatus, bitmap, lowestFreePage, pagesNeeded,
                       currentPage, endPage, cleared>>
    BY DEF AllocateBacking, bootstrapAllocatePages, AInv
  <1>2. BInv'
    BY <1>1, BootstrapAllocateBInv
  <1>3. CASE answer' = "Ok"
    <2>1. PICK set \in PageRanges : handedOut' = Append(handedOut, set) /\ set.count <= pagesNeeded
      BY <1>1, <1>3, BootstrapAllocates
    <2>2. /\ FramesHandedOut' = FramesHandedOut \cup FramesOfSet(set)
          /\ Last(handedOut') = set
      BY <1>1, <1>2, <2>1, AppendedRange DEF BInv, HandedOutOnce
    <2>3. /\ newPages' = set /\ pc' = "map"
          /\ backing' = backing \cup FramesOfSet(set)
      BY <1>3, <2>2 DEF AllocateBacking, FramesOfSet
    <2>4. FramesHandedOut = backing /\ FramesHandedOut' = backing'
      BY <1>1, <2>2, <2>3 DEF AInv, BackedOnly, Backing
    <2>5. Reported = {} /\ Reported' = {} /\ Pending' = {}
      BY <2>3, <2>4 DEF Reported, Pending, InBytes
    <2>6. BitsAgree' /\ LowestKept' /\ ByteLoops' /\ FailedInitGrantsNothing'
      BY <1>1, <2>3, <2>5 DEF AInv, BitsAgree, BackedOnly, LowestKept, ByteLoops, Backing,
         InBytes, FailedInitGrantsNothing
    <2> QED
      BY <1>1, <1>2, <2>1, <2>3, <2>4, <2>6 DEF AInv, BackedOnly, Backing
  <1>4. CASE answer' # "Ok"
    <2>1. /\ UNCHANGED <<handedOut, newPages, backing>> /\ pc' = "failed"
      BY <1>4 DEF AllocateBacking, bootstrapAllocatePages
    <2>2. FramesHandedOut' = FramesHandedOut
      BY <2>1 DEF FramesHandedOut
    <2>3. FailedInitGrantsNothing'
      BY <1>1, HintPastEnd, SizesStay
         DEF AInv, BackedOnly, Backing, FailedInitGrantsNothing
    <2> QED
      BY <1>1, <1>2, <2>1, <2>2, <2>3
         DEF AInv, BackedOnly, BitsAgree, LowestKept, ByteLoops, Backing, InBytes
  <1> QED
    BY <1>3, <1>4

LEMMA MapBackingAInv == AInv /\ MapBacking => AInv'
  <1> SUFFICES ASSUME AInv, MapBacking PROVE AInv'
    OBVIOUS
  <1>1. /\ UNCHANGED <<bootVars, bitmap, pagesNeeded, newPages, currentPage, endPage,
                       backing, cleared>>
        /\ UNCHANGED <<handedOut, memSize>>
        /\ pc = "map"
    BY DEF MapBacking, bootVars
  <1>2. BInv' /\ FramesHandedOut' = FramesHandedOut /\ Reported' = Reported
    BY <1>1, StutterBInv DEF AInv, FramesHandedOut, Reported
  <1>3. Pending = {} /\ Reported = {}
    BY <1>1 DEF Pending, InBytes, AInv, BackedOnly, Backing, Reported
  <1>4. CASE MapSucceeds
    BY <1>1, <1>2, <1>3, <1>4 DEF MapSucceeds, AInv, BackedOnly, BitsAgree, LowestKept, ByteLoops,
       Pending, FailedInitGrantsNothing, Backing, InBytes
  <1>5. CASE MapFails
    BY <1>1, <1>2, <1>3, <1>5 DEF MapFails, AInv, BackedOnly, BitsAgree, LowestKept, ByteLoops,
       FailedInitGrantsNothing, Backing, InBytes
  <1> QED
    BY <1>4, <1>5 DEF MapBacking

LEMMA FillBackingAInv == AInv /\ FillBacking => AInv'
  <1> SUFFICES ASSUME AInv, FillBacking PROVE AInv'
    OBVIOUS
  <1>1. /\ UNCHANGED <<bootVars, initializationStatus, lowestFreePage, newPages, currentPage,
                       endPage, backing>>
        /\ UNCHANGED <<handedOut, memSize>>
        /\ pc = "fill" /\ pc' = "back" /\ pagesNeeded' = pagesNeeded - newPages.count
    BY DEF FillBacking, bootVars
  <1>2. BInv' /\ FramesHandedOut' = FramesHandedOut /\ Reported' = Reported
    BY <1>1, StutterBInv DEF AInv, FramesHandedOut, Reported
  <1>3. Pending' = {} /\ Reported = {}
    BY <1>1 DEF Pending, InBytes, AInv, BackedOnly, Backing, Reported
  <1>4. pagesNeeded' \in Nat
    BY <1>1 DEF AInv, BackedOnly, PageRanges
  <1>5. cleared' \subseteq bitmap'
    <2>1. cleared \subseteq bitmap
      BY <1>1, <1>3 DEF AInv, BitsAgree
    <2> QED
      BY <2>1 DEF FillBacking, Fill
  <1> QED
    BY <1>1, <1>2, <1>3, <1>4, <1>5 DEF AInv, BackedOnly, BitsAgree, LowestKept, ByteLoops,
       FailedInitGrantsNothing, Backing, InBytes

LEMMA NextRangeAInv == AInv /\ NextRange => AInv'
  <1> SUFFICES ASSUME AInv, NextRange PROVE AInv'
    OBVIOUS
  <1>1. /\ move_next /\ UNCHANGED memSize /\ BInv
        /\ pc \in {"back", "enumerate"} /\ Pending = {}
        /\ UNCHANGED <<bitmap, pagesNeeded, newPages, backing, cleared>>
    BY DEF NextRange, move_next, AInv, Pending, InBytes
  <1>2. BInv'
    BY <1>1, MoveNextBInv
  <1>3. /\ pc # "failed" /\ Reported \cap bitmap = {} /\ cleared \ Reported \subseteq bitmap
    BY <1>1 DEF AInv, BitsAgree
  <1>4. CASE answer' = "True"
    <2>1. /\ handedOut' = Append(handedOut, current')
          /\ current' \in PageRanges /\ current'.count > 0
      BY <1>1, <1>4, MoveNextReports
    <2> DEFINE new == FramesOfSet(current')
    <2>2. FramesHandedOut' = FramesHandedOut \cup new /\ FramesHandedOut \cap new = {}
      BY <1>1, <1>2, <2>1, AppendedRange DEF BInv, HandedOutOnce
    <2>3. /\ currentPage' = current'.address /\ endPage' = current'.address + current'.count
          /\ lowestFreePage' = Min({lowestFreePage, current'.address})
          /\ pc' = "firstByte" /\ UNCHANGED initializationStatus
      BY <1>4 DEF NextRange
    <2>4. current'.address \in Nat /\ current'.count \in Nat
      BY <2>1 DEF PageRanges
    <2>5. Pending' = new
      <3>1. Pending' = currentPage' .. (endPage' - 1)
        BY <2>3 DEF Pending, InBytes
      <3>2. new = current'.address .. (current'.address + current'.count - 1)
        BY Zenon DEF FramesOfSet, FramesOf
      <3> HIDE DEF new
      <3>3. endPage' - 1 = current'.address + current'.count - 1
        BY <2>3, <2>4
      <3>4. Pending' = current'.address .. (current'.address + current'.count - 1)
        BY <2>3, <3>1, <3>3, Zenon
      <3> QED
        BY <3>2, <3>4, Zenon
    <2>6. Reported' = Reported \cup new /\ new \cap Reported = {}
      BY <1>1, <2>2 DEF Reported, AInv
    <2>7. BitsAgree'
      BY <1>1, <1>3, <2>5, <2>6 DEF BitsAgree
    <2>8. LowestKept'
      <3> DEFINE a == current'.address
      <3>1. a \in new /\ \A f \in new : f \in Nat /\ a <= f
        BY <2>1, <2>4 DEF FramesOfSet, FramesOf
      <3>2. \A f \in Reported : f \in Nat /\ f < memSize
        BY <1>1, BInvEveryFrameOnce, HandedOutAreNat DEF Reported, EveryFrameOnce, WithinMemorySize
      <3>3. a < memSize
        <4>1. a \in FramesHandedOut'
          BY <2>2, <3>1
        <4> QED
          BY <1>1, <1>2, <4>1 DEF BInv, NothingLost
      <3>4. memSize \in Nat /\ UINTPTR_MAX \in Nat /\ memSize <= UINTPTR_MAX
        BY <1>1, BitmapAssumption DEF AInv, BInv
      <3>5. lowestFreePage \in Nat
        BY <1>3, <3>2, <3>4 DEF AInv, LowestKept
      <3> DEFINE low == Min({lowestFreePage, a})
      <3>6. low \in {lowestFreePage, a} /\ low <= lowestFreePage /\ low <= a
        BY <2>4, <3>5, MinIsLeast
      <3> HIDE DEF low, a, new
      <3>7. low \in Reported'
        BY <1>3, <2>6, <3>1, <3>3, <3>4, <3>6 DEF AInv, LowestKept
      <3>8. \A f \in Reported' : low <= f
        <4> SUFFICES ASSUME NEW f \in Reported' PROVE low <= f
          OBVIOUS
        <4>1. CASE f \in new
          BY <2>4, <3>1, <3>5, <3>6, <4>1 DEF a
        <4>2. CASE f \in Reported
          BY <1>3, <2>4, <3>2, <3>5, <3>6, <4>2 DEF a, AInv, LowestKept
        <4> QED
          BY <2>6, <4>1, <4>2
      <3> QED
        BY <2>3, <3>7, <3>8 DEF LowestKept, low, a
    <2>9. ByteLoops'
      BY <2>3, <2>4 DEF ByteLoops, InBytes
    <2> QED
      BY <1>1, <1>2, <2>2, <2>3, <2>7, <2>8, <2>9 DEF AInv, BackedOnly, Backing,
         FailedInitGrantsNothing
  <1>5. CASE answer' # "True"
    <2>1. /\ UNCHANGED <<handedOut, currentPage, endPage, lowestFreePage>> /\ pc' = "complete"
      BY <1>1, <1>5 DEF NextRange, move_next
    <2>2. FramesHandedOut' = FramesHandedOut /\ Reported' = Reported /\ Pending' = {}
      BY <1>1, <2>1 DEF FramesHandedOut, Reported, Pending, InBytes
    <2> QED
      BY <1>1, <1>2, <1>3, <2>1, <2>2 DEF AInv, BackedOnly, BitsAgree, LowestKept, ByteLoops,
         FailedInitGrantsNothing, Backing, InBytes
  <1> QED
    BY <1>4, <1>5

(* One of the loops clears the bits from currentPage to just below e. *)
LEMMA ClearedUpTo ==
  ASSUME AInv, pc \in InBytes, NEW bits, NEW e \in currentPage .. endPage, ClearBits(bits),
         bits = currentPage .. (e - 1), Cardinality(bits) = e - currentPage,
         \/ pc' = "wholeBytes" /\ (e % ByteBits = 0 \/ e = endPage)
         \/ pc' = "enumerate" /\ e = endPage
  PROVE  AInv'
  <1>1. /\ UNCHANGED <<bootVars, initializationStatus, lowestFreePage, pagesNeeded, newPages,
                       endPage, backing, cleared>>
        /\ UNCHANGED <<handedOut, memSize>>
        /\ bitmap' = bitmap \ bits
    BY DEF ClearBits, bootVars
  <1>2. currentPage \in Nat /\ endPage \in Nat /\ e \in Nat /\ currentPage' = e
    BY DEF AInv, ByteLoops, ClearBits
  <1>3. BInv' /\ FramesHandedOut' = FramesHandedOut /\ Reported' = Reported
    BY <1>1, StutterBInv DEF AInv, FramesHandedOut, Reported
  <1>4. /\ Pending = currentPage .. (endPage - 1) /\ pc # "failed"
        /\ Pending' \subseteq Pending /\ Pending \ Pending' \subseteq bits /\ bits \subseteq Pending
    BY <1>1, <1>2 DEF Pending, InBytes
  <1>5. BitsAgree'
    <2>1. /\ Pending \subseteq Reported /\ (Reported \ Pending) \cap bitmap = {}
          /\ cleared \ Reported \subseteq bitmap
      BY <1>4 DEF AInv, BitsAgree
    <2> QED
      BY <1>1, <1>3, <1>4, <2>1 DEF BitsAgree
  <1>6. ByteLoops'
    BY <1>1, <1>2 DEF ByteLoops, InBytes
  <1> QED
    BY <1>1, <1>3, <1>4, <1>5, <1>6 DEF AInv, BackedOnly, LowestKept, FailedInitGrantsNothing,
       Backing, InBytes

LEMMA ByteLoopsAInv == AInv /\ (FirstByte \/ WholeByte \/ LastByte) => AInv'
  <1> SUFFICES ASSUME AInv, FirstByte \/ WholeByte \/ LastByte PROVE AInv'
    OBVIOUS
  <1>1. /\ pc \in InBytes /\ currentPage \in Nat /\ endPage \in Nat /\ currentPage <= endPage
        /\ ByteBits \in Nat /\ ByteBits > 0
    BY BitmapAssumption DEF FirstByte, WholeByte, LastByte, InBytes, AInv, ByteLoops
  <1>2. PICK e \in currentPage .. endPage :
          /\ RestOfByte = currentPage .. (e - 1)
          /\ Cardinality(RestOfByte) = e - currentPage
          /\ e = endPage \/ e % ByteBits = 0
          /\ currentPage % ByteBits = 0 /\ currentPage + ByteBits > endPage => e = endPage
    BY <1>1, RestIsInterval
  <1>3. CASE FirstByte
    <2>1. CASE currentPage % ByteBits # 0
      BY <1>1, <1>2, <1>3, <2>1, ClearedUpTo DEF FirstByte
    <2>2. CASE currentPage % ByteBits = 0
      <3>1. /\ ClearBits({}) /\ pc' = "wholeBytes"
            /\ {} = currentPage .. (currentPage - 1)
        BY <1>1, <1>3, <2>2 DEF FirstByte
      <3>2. Cardinality({}) = currentPage - currentPage
        BY <1>1, FS_EmptySet
      <3> QED
        BY <1>1, <2>2, <3>1, <3>2, ClearedUpTo
    <2> QED
      BY <2>1, <2>2
  <1>4. CASE WholeByte
    <2> DEFINE next == currentPage + ByteBits
    <2> DEFINE byte == currentPage .. (next - 1)
    <2>1. pc = "wholeBytes" /\ pc' = "wholeBytes" /\ next <= endPage
      BY <1>4 DEF WholeByte
    <2>5. ClearBits(byte)
      <3>1. byte = currentPage .. (currentPage + ByteBits - 1)
        BY <1>1
      <3> HIDE DEF byte
      <3> QED
        BY <1>4, <3>1 DEF WholeByte
    <2>2. Cardinality(byte) = next - currentPage
      BY <1>1, FS_Interval
    <2>3. next % ByteBits = 0
      <3> DEFINE q == currentPage \div ByteBits
      <3>1. currentPage % ByteBits = 0
        BY <1>1, <2>1 DEF AInv, ByteLoops
      <3>2. q \in Nat /\ currentPage = q * ByteBits
        BY <1>1, <3>1, ByteOf
      <3> HIDE DEF q
      <3>3. next = (q + 1) * ByteBits
        BY <1>1, <3>2
      <3>4. next \in Nat /\ next \div ByteBits = q + 1
        BY <1>1, <3>2, <3>3, InByte
      <3> QED
        BY <1>1, <3>3, <3>4, ByteOf
    <2>4. next \in currentPage .. endPage
      BY <1>1, <2>1
    <2> HIDE DEF next
    <2> QED
      BY <1>1, <2>1, <2>2, <2>3, <2>4, <2>5, ClearedUpTo
  <1>5. CASE LastByte
    <2>1. /\ pc = "wholeBytes" /\ pc' = "enumerate" /\ currentPage + ByteBits > endPage
          /\ ClearBits(RestOfByte)
      BY <1>5 DEF LastByte
    <2>2. e = endPage
      BY <1>1, <1>2, <2>1 DEF AInv, ByteLoops
    <2> QED
      BY <1>1, <1>2, <2>1, <2>2, ClearedUpTo
  <1> QED
    BY <1>3, <1>4, <1>5

(* Steps that leave all the invariant reads alone. *)
LEMMA QuietAInv ==
  ASSUME AInv, BInv', UNCHANGED <<handedOut, memSize, initVars>> \/
               (UNCHANGED <<handedOut, memSize>> /\ SwitchAllocator)
  PROVE  AInv'
  <1>1. UNCHANGED <<handedOut, memSize, initializationStatus, bitmap, lowestFreePage, pc,
                    pagesNeeded, newPages, currentPage, endPage, backing, cleared>>
    BY DEF initVars, SwitchAllocator
  <1>2. FramesHandedOut' = FramesHandedOut /\ Reported' = Reported /\ Pending' = Pending
    BY <1>1 DEF FramesHandedOut, Reported, Pending
  <1>3. bitmapBits' = bitmapBits
    BY <1>1, SizesStay
  <1> QED
    BY <1>1, <1>2, <1>3 DEF AInv, BackedOnly, BitsAgree, LowestKept, ByteLoops,
       FailedInitGrantsNothing

LEMMA NextAInv == AInv /\ [Next]_vars => AInv'
  <1> SUFFICES ASSUME AInv, [Next]_vars PROVE AInv'
    OBVIOUS
  <1>1. CASE Reserve
    BY <1>1, ReserveAInv
  <1>2. CASE AllocateBacking
    BY <1>2, AllocateBackingAInv
  <1>3. CASE MapBacking
    BY <1>3, MapBackingAInv
  <1>4. CASE FillBacking
    BY <1>4, FillBackingAInv
  <1>5. CASE NextRange
    BY <1>5, NextRangeAInv
  <1>6. CASE FirstByte \/ WholeByte \/ LastByte
    BY <1>6, ByteLoopsAInv
  <1>7. CASE SwitchAllocator
    <2>1. UNCHANGED bootVars /\ UNCHANGED <<handedOut, memSize>>
      BY <1>7 DEF SwitchAllocator, bootVars
    <2> QED
      BY <1>7, <2>1, StutterBInv, QuietAInv DEF AInv
  <1>8. CASE DestroyBootstrapper
    <2>1. destroy /\ UNCHANGED initVars /\ UNCHANGED <<handedOut, memSize>>
      BY <1>8 DEF DestroyBootstrapper, destroy
    <2> QED
      BY <2>1, DestroyBInv, QuietAInv DEF AInv
  <1>9. CASE UNCHANGED vars
    <2>1. UNCHANGED bootVars /\ UNCHANGED <<handedOut, memSize, initVars>>
      BY <1>9 DEF vars, bootVars
    <2> QED
      BY <2>1, StutterBInv, QuietAInv DEF AInv
  <1> QED
    BY <1>1, <1>2, <1>3, <1>4, <1>5, <1>6, <1>7, <1>8, <1>9 DEF Next

LEMMA Invariance == Spec => []AInv
  BY InitAInv, NextAInv, PTL DEF Spec

-----------------------------------------------------------------------------
(* What follows from it. *)

LEMMA AInvAllocatorStart == AInv => AllocatorStart
  <1> SUFFICES ASSUME AInv, pc = "complete"
               PROVE  BitmapMarksRanges /\ HintIsLowest
    BY DEF AllocatorStart, BitmapMarksRanges, HintIsLowest
  <1>1. /\ Pending = {} /\ Reported \cap bitmap = {} /\ cleared \ Reported \subseteq bitmap
    BY DEF AInv, BitsAgree, Pending, InBytes
  <1>2. Reported \subseteq Frames
    <2> SUFFICES ASSUME NEW f \in Reported PROVE f \in Frames
      OBVIOUS
    <2>1. f \in Nat /\ f < memSize /\ memSize \in Nat
      BY HandedOutAreNat, BInvEveryFrameOnce
         DEF AInv, BInv, Reported, EveryFrameOnce, WithinMemorySize
    <2>2. memSize <= bitmapBits /\ bitmapBits \in Nat
      BY <2>1, BitmapCovers
    <2> QED
      BY <2>1, <2>2 DEF Frames
  <1>3. HintIsLowest
    <2>1. CASE Reported = {}
      BY <2>1 DEF AInv, LowestKept, HintIsLowest
    <2>2. CASE Reported # {}
      <3>1. Reported \in SUBSET Nat
        BY HandedOutAreNat DEF AInv, Reported
      <3>2. lowestFreePage \in Reported /\ \A f \in Reported : lowestFreePage <= f
        BY <2>2 DEF AInv, LowestKept
      <3>3. Min(Reported) \in Reported /\ \A f \in Reported : Min(Reported) <= f
        BY <2>2, <3>1, MinIsLeast
      <3>4. lowestFreePage = Min(Reported)
        <4> DEFINE low == Min(Reported)
        <4>1. low \in Nat /\ lowestFreePage \in Nat /\ low <= lowestFreePage /\ lowestFreePage <= low
          BY <3>1, <3>2, <3>3
        <4> HIDE DEF low
        <4>2. lowestFreePage = low
          BY <4>1
        <4> QED
          BY <4>2 DEF low
      <3> QED
        BY <2>2, <3>4 DEF HintIsLowest
    <2> QED
      BY <2>1, <2>2
  <1> QED
    BY <1>1, <1>2, <1>3 DEF BitmapMarksRanges

(* The kernel's order of operations, too, takes each free frame once:
   backing the bitmap and enumerating ranges never see the same frame
   (DefaultPhysicalMemoryAllocator::init, paging.cpp:97-174).             *)
THEOREM BootTakesFramesOnce == Spec => []EveryFrameOnce
  <1>1. AInv => EveryFrameOnce
    BY BInvEveryFrameOnce DEF AInv
  <1> QED
    BY <1>1, Invariance, PTL

(* When init completes, the bits of the reported ranges are clear, no other
   bit of a filled page is, and the hint is the lowest frame reported.    *)
THEOREM StartsRight == Spec => []AllocatorStart
  BY AInvAllocatorStart, Invariance, PTL

(* An init that gave up early leaves an allocator that grants nothing.    *)
THEOREM FailureGrantsNothing == Spec => []FailedInitGrantsNothing
  <1>1. AInv => FailedInitGrantsNothing
    BY DEF AInv
  <1> QED
    BY <1>1, Invariance, PTL
-----------------------------------------------------------------------------
(* The types, of both clients of the bootstrapper. *)

LEMMA MapFields ==
  ASSUME NEW m \in Seq(Descriptors), NEW k \in DOMAIN m
  PROVE  m[k].PhysicalStart \in Nat /\ m[k].NumberOfPages \in Nat
  <1>1. m[k] \in Descriptors
    OBVIOUS
  <1> QED
    BY <1>1 DEF Descriptors

LEMMA ConstructTypes == Construct => BootTypeOK
  <1> SUFFICES ASSUME Construct PROVE BootTypeOK
    OBVIOUS
  <1>1. memoryMap \in Seq(Descriptors) /\ RegionsApart(memoryMap) /\ memSize \in Nat
    BY ConstructBInv DEF BInv
  <1>2. \A k \in DOMAIN memoryMap :
          memoryMap[k].PhysicalStart \in Nat /\ memoryMap[k].NumberOfPages \in Nat
    BY <1>1, MapFields
  <1>3. descriptorIndex \in 0 .. descriptorCount
    BY <1>1 DEF Construct, descriptorCount
  <1>4. nextFreeVirtualPage \in MemoryEnd .. MemoryMapsEnd
    BY BootAssumption DEF Construct
  <1>5. identityMapped \cap freeAtBoot = {}
    <2> SUFFICES ASSUME NEW f \in identityMapped, f \in freeAtBoot PROVE FALSE
      OBVIOUS
    <2>1. PICK j \in DOMAIN memoryMap : shouldBeUnmapped(memoryMap[j].Type)
                                       /\ f \in FramesIn(memoryMap[j])
      BY DEF Construct, MapFrames
    <2>2. PICK k \in DOMAIN memoryMap : isFreeMem(memoryMap[k].Type)
                                       /\ f \in FramesIn(memoryMap[k])
      BY DEF Construct, MapFrames
    <2>3. j # k
      BY <2>1, <2>2 DEF shouldBeUnmapped, isFreeMem
    <2> QED
      BY <1>1, <2>1, <2>2, <2>3 DEF RegionsApart
  <1> QED
    BY <1>1, <1>2, <1>3, <1>4, <1>5 DEF BootTypeOK, Construct

(* Every operation of the bootstrapper keeps them. *)
LEMMA OperationTypes ==
  ASSUME BInv, BootTypeOK,
         \/ \E n \in Nat : reserveVirtualMemory(n) \/ bootstrapAllocatePages(n)
         \/ move_next \/ destroy
  PROVE  BootTypeOK' /\ memSize' = memSize
  <1>1. BInv'
    BY ReserveBInv, BootstrapAllocateBInv, MoveNextBInv, DestroyBInv
  <1>2. \A k \in DOMAIN memoryMap' :
          memoryMap'[k].PhysicalStart \in Nat /\ memoryMap'[k].NumberOfPages \in Nat
    <2>1. memoryMap' \in Seq(Descriptors)
      BY <1>1 DEF BInv
    <2> QED
      BY <2>1, MapFields
  <1>3. UNCHANGED <<memSize, freeAtBoot>> /\ identityMapped' \subseteq identityMapped
    BY DEF reserveVirtualMemory, bootstrapAllocatePages, move_next, destroy
  <1>4. alive' \in BOOLEAN /\ answer' \in {"None", "Ok", "OutOfMemory", "True", "False"}
    BY DEF reserveVirtualMemory, bootstrapAllocatePages, move_next, destroy, BootTypeOK
  <1>5. nextFreeVirtualPage' \in MemoryEnd .. MemoryMapsEnd
    <2>1. nextFreeVirtualPage \in MemoryEnd .. MemoryMapsEnd
      BY DEF BootTypeOK
    <2>2. ASSUME NEW n \in Nat, reserveVirtualMemory(n)
          PROVE  nextFreeVirtualPage' \in MemoryEnd .. MemoryMapsEnd
      BY <2>1, <2>2, BootAssumption DEF reserveVirtualMemory
    <2>3. CASE UNCHANGED nextFreeVirtualPage
      BY <2>1, <2>3
    <2> QED
      BY <2>2, <2>3 DEF bootstrapAllocatePages, move_next, destroy
  <1>6. descriptorCount' = descriptorCount /\ descriptorCount \in Nat
    <2>1. memoryMap \in Seq(Descriptors)
      BY DEF BInv
    <2>2. \/ memoryMap' = memoryMap
          \/ \E i, d : memoryMap' = [memoryMap EXCEPT ![i] = d]
      BY DEF reserveVirtualMemory, bootstrapAllocatePages, move_next, destroy, Cut, Report
    <2>3. ASSUME NEW i, NEW d PROVE Len([memoryMap EXCEPT ![i] = d]) = Len(memoryMap)
      BY <2>1
    <2> QED
      BY <2>1, <2>2, <2>3 DEF descriptorCount
  <1>7. descriptorIndex' \in 0 .. descriptorCount
    <2>1. CASE UNCHANGED descriptorIndex
      BY <2>1 DEF BootTypeOK
    <2>2. CASE move_next
      <3>1. CASE Unreported # {}
        <4>1. Min(Unreported) \in Unreported
          BY <3>1, MinIsLeast DEF Unreported, Indices
        <4>2. Min(Unreported) \in Indices
          BY <4>1 DEF Unreported
        <4> QED
          BY <1>6, <2>2, <3>1, <4>2 DEF move_next, Report, Indices
      <3>2. CASE Unreported = {}
        <4>1. descriptorIndex' = Max({descriptorIndex, descriptorCount})
          BY <2>2, <3>2 DEF move_next
        <4>2. descriptorIndex \in 0 .. descriptorCount
          BY DEF BootTypeOK
        <4> DEFINE ends == {descriptorIndex, descriptorCount}
        <4>3. ends \in SUBSET Nat /\ ends # {} /\ \A x \in ends : x <= descriptorCount
          BY <1>6, <4>2
        <4>4. Max(ends) \in ends
          <5> HIDE DEF ends
          <5> QED
            BY <1>6, <4>3, MaxIsGreatest
        <4> QED
          BY <1>6, <4>1, <4>2, <4>4
      <3> QED
        BY <3>1, <3>2
    <2> QED
      BY <2>1, <2>2 DEF reserveVirtualMemory, bootstrapAllocatePages, destroy
  <1> QED
    BY <1>2, <1>3, <1>4, <1>5, <1>6, <1>7, <1>1 DEF BootTypeOK, BInv

(* While frames are mapped and filled, some of the bitmap is still to come. *)
FillPending == pc \in {"map", "fill"} => pagesNeeded > 0

KernelInv == AInv /\ BootTypeOK /\ InitTypeOK /\ FillPending

LEMMA PageBits ==
  ASSUME memSize \in Nat, NEW k \in Nat, NEW n \in Int, k + n <= bitmapPages
  PROVE  BitsOfPages(k, n) \subseteq Frames
  <1> SUFFICES ASSUME NEW b \in BitsOfPages(k, n) PROVE b \in Frames
    OBVIOUS
  <1>1. bitmapBits \in Nat /\ bitmapBits = bitmapPages * BitsPerPage /\ BitsPerPage \in Nat
    BY BitmapCovers, BitmapAssumption DEF bitmapBits
  <1>2. bitmapPages \in Int
    <2>1. memSize + BitsPerPage - 1 \in Int /\ BitsPerPage > 0
      BY <1>1, BitmapAssumption
    <2> QED
      BY <1>1, <2>1 DEF bitmapPages
  <1>3. (k + n) * BitsPerPage <= bitmapPages * BitsPerPage
    <2> DEFINE more == bitmapPages - (k + n)
    <2>1. more \in Nat /\ bitmapPages = (k + n) + more
      BY <1>2
    <2>2. more * BitsPerPage \in Nat
      BY <1>1, <2>1
    <2> HIDE DEF more
    <2>3. bitmapPages * BitsPerPage = (k + n) * BitsPerPage + more * BitsPerPage
      BY <1>1, <2>1
    <2> QED
      BY <1>1, <2>2, <2>3
  <1>4. k * BitsPerPage \in Nat /\ (k + n) * BitsPerPage \in Int
    BY <1>1
  <1>5. b \in Int /\ k * BitsPerPage <= b /\ b <= (k + n) * BitsPerPage - 1
    BY <1>4 DEF BitsOfPages
  <1> QED
    BY <1>1, <1>3, <1>4, <1>5 DEF Frames

LEMMA KernelBegins == Init => KernelInv
  <1> SUFFICES ASSUME Init PROVE KernelInv
    OBVIOUS
  <1>1. AInv /\ BootTypeOK
    BY InitAInv, ConstructTypes DEF Init
  <1>2. bitmapPages \in Nat /\ bitmapBits \in Nat
    <2>1. bitmapPages = pagesNeeded /\ pagesNeeded \in Nat /\ memSize \in Nat
      BY <1>1 DEF Init, AInv, BInv
    <2> QED
      BY <2>1, BitmapCovers
  <1>3. /\ bitmap \subseteq Frames /\ cleared \subseteq Frames
        /\ lowestFreePage \in 0 .. bitmapBits \cup {UINTPTR_MAX}
        /\ pagesNeeded \in 0 .. bitmapPages /\ currentPage <= endPage /\ endPage <= bitmapBits
    BY <1>2 DEF Init
  <1> QED
    BY <1>1, <1>3 DEF KernelInv, InitTypeOK, FillPending, Init

(* Each step of the boot is one of the bootstrapper's operations, or leaves   *)
(* its variables alone.                                                       *)
LEMMA KernelBootTypes ==
  ASSUME KernelInv, [Next]_vars
  PROVE  BootTypeOK' /\ memSize' = memSize
  <1>1. BInv /\ BootTypeOK /\ pagesNeeded \in Nat
    BY DEF KernelInv, AInv
  <1>2. CASE UNCHANGED bootVars
    BY <1>1, <1>2 DEF BootTypeOK, bootVars, descriptorCount
  <1>3. CASE Reserve \/ AllocateBacking \/ NextRange \/ DestroyBootstrapper
    <2>1. \/ \E n \in Nat : reserveVirtualMemory(n) \/ bootstrapAllocatePages(n)
          \/ move_next \/ destroy
      BY <1>1, <1>3 DEF Reserve, AllocateBacking, NextRange, DestroyBootstrapper
    <2> QED
      BY <1>1, <2>1, OperationTypes
  <1> QED
    BY <1>2, <1>3 DEF Next, MapBacking, FillBacking, FirstByte, WholeByte, LastByte,
                      ClearBits, SwitchAllocator, vars

(* The bits set, the bits cleared and what is still to be backed. *)
LEMMA KernelBitmapTypes ==
  ASSUME KernelInv, [Next]_vars
  PROVE  /\ bitmap' \subseteq Frames /\ cleared' \subseteq Frames
         /\ pagesNeeded' \in 0 .. bitmapPages /\ FillPending'
  <1>1. /\ bitmap \subseteq Frames /\ cleared \subseteq Frames
        /\ pagesNeeded \in 0 .. bitmapPages /\ FillPending /\ memSize \in Nat
    BY DEF KernelInv, InitTypeOK, AInv, BInv
  <1>2. CASE FillBacking
    <2> DEFINE first == bitmapPages - pagesNeeded
               n == newPages.count
    <2>1. /\ pc = "fill" /\ pc' = "back" /\ pagesNeeded' = pagesNeeded - n
          /\ cleared' = cleared \cup BitsOfPages(first, 1)
          /\ \E stale \in SUBSET BitsOfPages(first + 1, n - 1) :
               bitmap' = bitmap \cup BitsOfPages(first, 1) \cup stale
      BY <1>2 DEF FillBacking, Fill
    <2>2. n \in Nat /\ n <= pagesNeeded /\ pagesNeeded > 0
      BY <1>1, <2>1 DEF KernelInv, AInv, BackedOnly, PageRanges, FillPending
    <2>3. bitmapPages \in Int
      <3>1. memSize + BitsPerPage - 1 \in Int /\ BitsPerPage \in Nat /\ BitsPerPage > 0
        BY <1>1, BitmapAssumption
      <3> QED
        BY <3>1 DEF bitmapPages
    <2>4. /\ first \in Nat /\ first + 1 \in Nat /\ n - 1 \in Int
          /\ first + 1 <= bitmapPages /\ (first + 1) + (n - 1) <= bitmapPages
          /\ pagesNeeded' \in 0 .. bitmapPages
      BY <1>1, <2>1, <2>2, <2>3
    <2> HIDE DEF first, n
    <2>5. BitsOfPages(first, 1) \subseteq Frames /\ BitsOfPages(first + 1, n - 1) \subseteq Frames
      BY <1>1, <2>4, PageBits
    <2> QED
      BY <1>1, <2>1, <2>4, <2>5 DEF FillPending
  <1>3. CASE ~FillBacking
    <2>1. /\ cleared' = cleared /\ pagesNeeded' = pagesNeeded /\ bitmap' \subseteq bitmap
          /\ FillPending'
      BY <1>1, <1>3 DEF Next, Reserve, AllocateBacking, MapBacking, MapSucceeds, MapFails,
                        NextRange, FirstByte, WholeByte, LastByte, ClearBits,
                        SwitchAllocator, DestroyBootstrapper, initVars, vars, FillPending
    <2> QED
      BY <1>1, <2>1
  <1> QED
    BY <1>2, <1>3

(* The frames iterated over exist, before a step and after it. *)
HandedOutExist == \A f \in FramesHandedOut : f \in Nat /\ f < memSize

LEMMA HandedOutWithin == AInv => HandedOutExist
  BY HandedOutAreNat, BInvEveryFrameOnce
     DEF AInv, EveryFrameOnce, WithinMemorySize, HandedOutExist

LEMMA HandedOutWithinNext == AInv' => HandedOutExist'
  BY HandedOutWithin, PTL

(* The hint. *)
LEMMA KernelHintTypes ==
  ASSUME KernelInv, [Next]_vars, AInv'
  PROVE  lowestFreePage' \in 0 .. bitmapBits \cup {UINTPTR_MAX}
  <1>1. /\ lowestFreePage \in 0 .. bitmapBits \cup {UINTPTR_MAX}
        /\ memSize \in Nat /\ bitmapBits \in Nat /\ memSize <= bitmapBits
    BY BitmapCovers DEF KernelInv, InitTypeOK, AInv, BInv
  <1>2. CASE NextRange
    <2>1. pc' \in {"firstByte", "complete"} /\ memSize' = memSize
      BY <1>2 DEF NextRange, move_next
    <2>2. LowestKept'
      BY DEF AInv
    <2>3. \/ lowestFreePage' = UINTPTR_MAX
          \/ lowestFreePage' \in FramesHandedOut'
      BY <2>1, <2>2 DEF LowestKept, Reported
    <2>4. \A f \in FramesHandedOut' : f \in Nat /\ f < memSize
      BY <2>1, HandedOutWithinNext DEF HandedOutExist
    <2> QED
      BY <1>1, <2>3, <2>4
  <1>3. CASE MapBacking
    BY <1>1, <1>3 DEF MapBacking, MapSucceeds, MapFails
  <1>4. CASE ~NextRange /\ ~MapBacking
    <2>1. lowestFreePage' = lowestFreePage
      BY <1>4 DEF Next, Reserve, AllocateBacking, FillBacking, FirstByte, WholeByte, LastByte,
                  ClearBits, SwitchAllocator, DestroyBootstrapper, initVars, vars
    <2> QED
      BY <1>1, <2>1
  <1> QED
    BY <1>2, <1>3, <1>4

(* The part of a range whose bits are still set. *)
LEMMA KernelRangeTypes ==
  ASSUME KernelInv, [Next]_vars, AInv'
  PROVE  currentPage' <= endPage' /\ endPage' <= bitmapBits
  <1>1. /\ currentPage \in Nat /\ endPage \in Nat /\ currentPage <= endPage
        /\ endPage <= bitmapBits /\ memSize \in Nat /\ bitmapBits \in Nat
        /\ memSize <= bitmapBits
    BY BitmapCovers DEF KernelInv, InitTypeOK, AInv, ByteLoops, BInv
  <1>2. CASE NextRange
    <2>1. CASE answer' = "True"
      <3>1. /\ handedOut' = Append(handedOut, current') /\ current' \in PageRanges
            /\ current'.count > 0
        BY <1>2, <2>1, MoveNextReports DEF NextRange, KernelInv, AInv
      <3> DEFINE a == current'.address
                 n == current'.count
      <3>2. currentPage' = a /\ endPage' = a + n /\ memSize' = memSize
        BY <1>2, <2>1 DEF NextRange, move_next
      <3>3. a \in Nat /\ n \in Nat /\ n > 0
        BY <3>1 DEF PageRanges
      <3>4. handedOut \in Seq(PageRanges)
        BY DEF KernelInv, AInv, BInv
      <3>5. /\ Len(handedOut) + 1 \in DOMAIN handedOut'
            /\ handedOut'[Len(handedOut) + 1] = current'
        BY <3>1, <3>4
      <3>6. a + n - 1 \in FramesHandedOut'
        <4>1. a + n - 1 \in FramesOf(a, n)
          BY <3>3 DEF FramesOf
        <4> QED
          BY <3>5, <4>1 DEF FramesHandedOut
      <3>7. a + n - 1 < memSize
        BY <3>2, <3>6, HandedOutWithinNext DEF HandedOutExist
      <3> HIDE DEF a, n
      <3> QED
        BY <1>1, <3>2, <3>3, <3>7
    <2>2. CASE answer' # "True"
      BY <1>1, <1>2, <2>2 DEF NextRange
    <2> QED
      BY <2>1, <2>2
  <1>3. CASE FirstByte \/ WholeByte
    <2>1. pc' = "wholeBytes" /\ endPage' = endPage
      BY <1>3 DEF FirstByte, WholeByte, ClearBits
    <2> QED
      BY <1>1, <2>1 DEF AInv, ByteLoops, InBytes
  <1>4. CASE LastByte
    <2>1. currentPage' = currentPage + Cardinality(RestOfByte) /\ endPage' = endPage
      BY <1>4 DEF LastByte, ClearBits
    <2>2. PICK e \in currentPage .. endPage : Cardinality(RestOfByte) = e - currentPage
      BY <1>1, RestIsInterval
    <2> QED
      BY <1>1, <2>1, <2>2
  <1>5. CASE ~NextRange /\ ~FirstByte /\ ~WholeByte /\ ~LastByte
    <2>1. currentPage' = currentPage /\ endPage' = endPage
      BY <1>5 DEF Next, Reserve, AllocateBacking, MapBacking, FillBacking,
                  SwitchAllocator, DestroyBootstrapper, initVars, vars
    <2> QED
      BY <1>1, <2>1
  <1> QED
    BY <1>2, <1>3, <1>4, <1>5

LEMMA KernelStep == KernelInv /\ [Next]_vars => KernelInv'
  <1> SUFFICES ASSUME KernelInv, [Next]_vars PROVE KernelInv'
    OBVIOUS
  <1>1. AInv' /\ BootTypeOK' /\ memSize' = memSize
    BY NextAInv, KernelBootTypes DEF KernelInv
  <1>2. bitmapPages' = bitmapPages /\ bitmapBits' = bitmapBits /\ Frames' = Frames
    BY <1>1, SizesStay DEF Frames
  <1>3. /\ initializationStatus' \in {"Uninitialized", "Ok", "OutOfMemory",
                                      "InitializationError"}
        /\ pageAllocator' \in {"bootstrap", "default"}
        /\ pc' \in {"reserve", "back", "map", "fill", "enumerate", "firstByte",
                    "wholeBytes", "complete", "failed"}
    BY DEF KernelInv, InitTypeOK, Next, Reserve, AllocateBacking, MapBacking, MapSucceeds,
           MapFails, FillBacking, NextRange, FirstByte, WholeByte, LastByte, ClearBits,
           SwitchAllocator, DestroyBootstrapper, initVars, vars
  <1>4. InitTypeOK'
    BY <1>1, <1>2, <1>3, KernelBitmapTypes, KernelHintTypes, KernelRangeTypes DEF InitTypeOK
  <1> QED
    BY <1>1, <1>4, KernelBitmapTypes DEF KernelInv

(* The kernel's boot, or a client that calls the operations as it likes. *)
ClientInv ==
  /\ BInv /\ BootTypeOK /\ InitTypeOK
  /\ client = "kernel" => KernelInv

LEMMA ClientStep == ClientInv /\ [MCNext]_mcVars => ClientInv'
  <1> SUFFICES ASSUME ClientInv, [MCNext]_mcVars PROVE ClientInv'
    OBVIOUS
  <1>1. client' = client
    BY DEF MCNext, mcVars
  <1>2. CASE client = "kernel"
    <2>1. KernelInv /\ [Next]_vars
      BY <1>2 DEF ClientInv, MCNext, mcVars
    <2> QED
      BY <2>1, KernelStep DEF ClientInv, KernelInv, AInv
  <1>3. CASE client # "kernel"
    <2>1. [Operation]_bootVars /\ UNCHANGED initVars
      BY <1>3 DEF MCNext, mcVars, vars
    <2>2. BInv'
      BY <2>1, OperationBInv DEF ClientInv
    <2>3. BootTypeOK' /\ memSize' = memSize
      <3>1. CASE UNCHANGED bootVars
        BY <3>1 DEF ClientInv, BootTypeOK, bootVars, descriptorCount
      <3>2. CASE Operation
        <4>1. \/ \E n \in Nat : reserveVirtualMemory(n) \/ bootstrapAllocatePages(n)
              \/ move_next \/ destroy
          BY <3>2, BootAssumption DEF Operation, bootstrapAllocatePage
        <4> QED
          BY <4>1, OperationTypes DEF ClientInv
      <3> QED
        BY <2>1, <3>1, <3>2
    <2>4. InitTypeOK'
      <3>1. bitmapPages' = bitmapPages /\ bitmapBits' = bitmapBits /\ Frames' = Frames
        BY <2>3, SizesStay DEF Frames
      <3> QED
        BY <2>1, <3>1 DEF ClientInv, InitTypeOK, initVars
    <2> QED
      BY <1>1, <1>3, <2>2, <2>3, <2>4 DEF ClientInv
  <1> QED
    BY <1>2, <1>3

(* Bootstrapper and initialization keep their types, for every memory map and *)
(* size of a bitmap page: what init still has to clear ends inside the bitmap *)
(* and the hint is in it or as it was (init, paging.cpp:97-174).              *)
THEOREM BootAndInitTypesCorrect == MCSpec => []BootAndInitTypeOK
  <1>1. MCInit => ClientInv
    BY KernelBegins DEF MCInit, ClientInv, KernelInv, AInv
  <1>2. ClientInv => BootAndInitTypeOK
    BY DEF ClientInv, BootAndInitTypeOK
  <1> QED
    BY <1>1, <1>2, ClientStep, PTL DEF MCSpec
===============================================================================
