----------------------------- MODULE LoaderProofs -----------------------------
(***************************************************************************)
(* Proofs about Loader, for every machine, image and layout that meet its  *)
(* assumptions, every choice of the firmware's allocator and any number of *)
(* changes the firmware makes to its own map.                              *)
(*                                                                         *)
(* One inductive invariant per topic, each resting on the ones before it:  *)
(* the types and the room that is left (RoomInv), the frames in use        *)
(* (HeldInv), the version of the memory map (KeyInv), the identity map     *)
(* (IdentityInv), the areas of virtual memory (AreaInv) and the            *)
(* descriptors of the map (MarginInv).                                     *)
(***************************************************************************)
EXTENDS Loader, NaturalLemmas, FiniteSetTheorems, TLAPS

States == {"boot info", "boot image", "find kernel", "page tables", "image", "segments",
           "check kernel", "processors", "stacks", "frame buffer", "initrd",
           "get temporary", "identity", "final map", "get final", "exit", "entered",
           "failed"}
Early == {"boot info", "boot image", "find kernel", "page tables", "image"}
(* The initrd's address is still the physical one; the final map's buffer is there. *)
InitrdStates == {"find kernel", "page tables", "image", "segments", "check kernel",
                 "processors", "stacks", "frame buffer"}
FinalStates == {"get final", "exit", "entered"}
Handing == {"final map", "get final", "exit", "entered"}
Late == {"initrd", "get temporary", "identity"} \cup Handing

(* The pages that n processors' stacks and guards take. *)
StackRoom(n) == n * (StackPages + 1)
Behind(n) == StackRoom(n) + FramebufferPages + InitrdPages
RoomFor(n) == nextPage + n <= VirtualPages

(* Types, and what is where in the course of the loader: the pages behind
   next_page suffice for what is still to be mapped.                      *)
RoomInv ==
  /\ LoaderTypeOK
  /\ pc \in States
  /\ DOMAIN image = {"kind", "first", "entry"}
  /\ DOMAIN bi = {"initrd", "framebuffer", "end", "map"}
  /\ DOMAIN memmap = {"key", "size", "types"}
  /\ memmap.key \in Nat /\ memmap.size \in Nat /\ stackTop \in Nat
  /\ pc \in Early => {nextPage, request.count, i, loaded} = {0} /\ layout = {}
  /\ pc \notin {"boot info", "boot image", "failed"} => InitrdPages > 0
  /\ pc \in InitrdStates =>
       bi.initrd \in Frames /\ bi.initrd + InitrdPages - 1 <= MemoryPages
  /\ request.count > 0 => /\ request.frame > 0
                          /\ request.frame + request.count - 1 <= MemoryPages + FramebufferPages
                          /\ request.vaddr + request.count <= VirtualPages
  /\ pc = "segments" =>
       /\ image.kind = "elf" /\ i \in 0 .. Len(Segments)
       /\ i = 0 => nextPage = Segments[1].page /\ request.count = 0
       /\ i > 0 => /\ nextPage = Segments[i].page /\ request.vaddr = nextPage
                   /\ request.count = Segments[i].count
  /\ pc \in {"check kernel", "processors"} => RoomFor(Behind(Cpus))
  /\ pc = "stacks" => /\ i \in 0 .. Cpus
                      /\ RoomFor(Behind(Cpus - i))
  /\ pc = "frame buffer" => RoomFor(InitrdPages)
  /\ pc \in Late => nextPage <= VirtualPages
  /\ pc = "identity" => i \in 0 .. MemoryPages
  /\ pc \in {"check kernel", "processors", "get temporary", "get final", "final map",
             "exit", "entered"} => Settled
  /\ image.kind # "elf" => loaded = 0
-----------------------------------------------------------------------------
(* A frame the loader keeps for the kernel. *)
Kept(f) == type[f] = "LoaderData" /\ f \notin poolPages

HeldTables == \A k \in DOMAIN tables : Kept(tables[k])
HeldAreas ==
  \A a \in layout : a.vaddr > MemoryPages => \A f \in Span(a.frame, a.count) \cap Frames : Kept(f)
HeldInitrd == pc \in InitrdStates => \A f \in Span(bi.initrd, InitrdPages) : Kept(f)
HeldPool ==
  /\ \A f \in poolPages : type[f] = "LoaderData"
  /\ \A b \in DOMAIN pool : pool[b] \in poolPages \cup {Absent}
HeldBuffers ==
  /\ pc \notin {"boot info", "failed"} => pool["boot_info"] \in poolPages
  /\ pc \in FinalStates => pool["final"] \in poolPages

(* What the kernel will find its memory in use for is the loader's data. *)
HeldInv == HeldTables /\ HeldAreas /\ HeldInitrd /\ HeldPool /\ HeldBuffers

(* A copy of the map with the current key is the current map. *)
KeyInv ==
  /\ pc = "exit" => memmap.key <= mapKey /\ (memmap.key = mapKey => bi.map = type)
  /\ KernelSeesFinalMap
-----------------------------------------------------------------------------
OwnedType(t) == t \in {"LoaderCode", "LoaderData"}

(* The identity map reaches every page the loader had when the temporary map
   was taken, in the order of their addresses.                            *)
IdentityInv ==
  /\ pc = "identity" =>
       /\ DOMAIN memmap.types = Frames
       /\ \A f \in Frames : type[f] = "LoaderCode" => memmap.types[f] = "LoaderCode"
       /\ memmap.types[pool["boot_info"]] = "LoaderData"
       /\ ~Settled => request = [vaddr |-> i, frame |-> i, count |-> 1]
       /\ \A f \in Frames : (f < i \/ (f = i /\ Settled)) /\ OwnedType(memmap.types[f])
                              => mapping[f] = f
  /\ pc \in Handing =>
       /\ mapping[pool["boot_info"]] = pool["boot_info"]
       /\ \A f \in Frames : type[f] = "LoaderCode" => mapping[f] = f
-----------------------------------------------------------------------------
ImageBase == Segments[1].page
Top == IF pc = "segments" THEN nextPage + request.count ELSE nextPage
Guard(cpu) == stackTop - StackPages - 1 + StackRoom(cpu)
StacksMapped == IF pc = "stacks" THEN i ELSE IF pc \in {"frame buffer"} \cup Late THEN Cpus ELSE 0
SegmentsMapped == IF pc = "segments" THEN i ELSE loaded

(* Out of memory after a segment was mapped in part: the loader will fail. *)
Starved ==
  /\ \A f \in Frames : type[f] # "Conventional"
  /\ pc \in {"check kernel", "processors", "stacks"}
  /\ pc = "stacks" => i = 0 /\ Settled

IdentityArea(a) ==
  /\ a.count = 1 /\ a.frame = a.vaddr /\ a.vaddr \in Frames
  /\ pc \in {"identity"} \cup Handing /\ (pc = "identity" => a.vaddr <= i)
HighArea(a) == ImageBase <= a.vaddr /\ a.vaddr + a.count <= Top

AreasPlaced ==
  /\ ImageBase <= nextPage
  /\ \A a \in layout : IdentityArea(a) \/ HighArea(a)
  /\ request.count > 0 => IdentityArea(request) \/ HighArea(request)
  /\ request.count > 0 => \A a \in layout \ {request} :
        a.vaddr + a.count <= request.vaddr \/ request.vaddr + request.count <= a.vaddr
  /\ pc = "segments" => \A a \in layout \ {request} : a.vaddr + a.count <= nextPage
AreasMapped ==
  \A a \in layout : \A k \in 0 .. (a.count - 1) :
    a # request \/ k < done => mapping[a.vaddr + k] = a.frame + k
NothingBeyond == Starved \/ \A v \in Pages : v >= Top => mapping[v] = Absent
StacksPlaced ==
  /\ pc = "stacks" => nextPage = Guard(i)
  /\ pc \in {"frame buffer"} \cup Late => Guard(Cpus) <= nextPage
  /\ pc \in {"stacks", "frame buffer"} \cup Late => ImageBase <= Guard(0)
  /\ \A cpu \in 0 .. (StacksMapped - 1) :
       /\ mapping[Guard(cpu)] = Absent
       /\ request.count > 0 => \/ Guard(cpu) < request.vaddr
                               \/ request.vaddr + request.count <= Guard(cpu)
       /\ \E a \in layout : a.vaddr = Guard(cpu) + 1 /\ a.count = StackPages
SegmentsPlaced ==
  \A k \in 1 .. SegmentsMapped :
    \E a \in layout : /\ a.vaddr = Segments[k].page /\ a.count = Segments[k].count
                      /\ pc = "segments" /\ k < i => a # request
EndPlaced ==
  /\ pc \in Late => \E a \in layout : a.count > 0 /\ a.vaddr + a.count = nextPage /\ HighArea(a)
  /\ pc \in Handing => bi.end = nextPage

AreaParts ==
  AreasPlaced /\ AreasMapped /\ NothingBeyond /\ StacksPlaced /\ SegmentsPlaced /\ EndPlaced

(* Every area lies apart from the others, above the image's base or on the
   loader's own pages, and what is behind next_page is not mapped.        *)
AreaInv ==
  /\ pc \in Early => \A v \in Pages : mapping[v] = Absent
  /\ pc \notin Early \cup {"failed"} /\ image.kind = "elf" => AreaParts
-----------------------------------------------------------------------------
(* What the firmware's map looks like up to the frame top while the firmware
   is quiet: all the memory it had to give, and its own data behind.      *)
Shape(top) ==
  \A f \in Frames : type[f] \in IF f = 1 THEN {"LoaderCode"}
                                ELSE IF f <= top THEN {"LoaderData", "Conventional"}
                                ELSE {"BootServicesData"}

(* The first buffer, which stays, took the end of the memory from which the
   firmware allocates: what it gives next adjoins memory of the loader.   *)
QuietInv ==
  events = 0 /\ pc # "failed" =>
    \E top \in Frames :
      /\ Shape(top)
      /\ IF pc = "boot info"
         THEN poolPages = {} /\ \A f \in 2 .. top : type[f] = "Conventional"
         ELSE top > 1 /\ pool["boot_info"] = IF policy = "lowest" THEN 2 ELSE top

(* The map has grown by two descriptors per change of the firmware at most. *)
MarginInv ==
  /\ QuietInv
  /\ pc \in {"get temporary", "get final"} =>
       Descriptors(type) + MapMargin <= memmap.size + 2 * events
-----------------------------------------------------------------------------
LEMMA ConstantFacts ==
  /\ MemoryPages \in Nat \ {0} /\ EntriesPerTable \in Nat \ {0} /\ Levels \in Nat \ {0}
  /\ Cpus \in Nat \ {0} /\ StackPages \in Nat \ {0}
  /\ FramebufferPages \in Nat /\ InitrdPages \in Nat /\ MapMargin \in Nat
  /\ MaxEvents \in Nat /\ VirtualPages \in Nat /\ Absent \notin Nat
  /\ Len(Segments) \in Nat \ {0}
  /\ MemoryPages < ImageBase /\ ImageBase < VirtualPages /\ ImageBase \in Nat
  /\ \A k \in 1 .. Len(Segments) :
       /\ Segments[k].page \in Nat /\ Segments[k].count \in Nat
       /\ Segments[k].page + Segments[k].count + StackRoom(Cpus)
            + FramebufferPages + InitrdPages <= VirtualPages
  /\ \A k \in 1 .. (Len(Segments) - 1) :
       Segments[k + 1].page = Segments[k].page + Segments[k].count
  <1>1. Segments \in Seq([page : Nat, count : Nat]) /\ Segments # <<>>
    BY LoaderAssumption
  <1>2. /\ Len(Segments) \in Nat \ {0}
        /\ \A k \in 1 .. Len(Segments) : Segments[k] \in [page : Nat, count : Nat]
    <2> DEFINE T == [page : Nat, count : Nat]
    <2>1. Segments \in Seq(T)
      BY <1>1
    <2> HIDE DEF T
    <2>2. Len(Segments) \in Nat /\ \A k \in 1 .. Len(Segments) : Segments[k] \in T
      BY <2>1
    <2>3. Len(Segments) # 0
      BY <1>1, <2>1
    <2> QED
      BY <2>2, <2>3 DEF T
  <1>3. ASSUME NEW k \in 1 .. Len(Segments)
        PROVE  /\ Segments[k].page \in Nat /\ Segments[k].count \in Nat
               /\ Segments[k].page + Segments[k].count + StackRoom(Cpus)
                    + FramebufferPages + InitrdPages <= VirtualPages
    <2>1. Segments[k].page \in Nat /\ Segments[k].count \in Nat
      BY <1>2
    <2> QED
      BY <2>1, ImageAssumption DEF StackRoom
  <1>4. MemoryPages < ImageBase /\ ImageBase < VirtualPages /\ ImageBase \in Nat
    <2>1. StackRoom(Cpus) \in Nat /\ StackRoom(Cpus) > 0
      <3>1. \A c, n \in Nat \ {0} : c * (n + 1) \in Nat /\ c * (n + 1) > 0
        OBVIOUS
      <3> QED
        BY <3>1, LoaderAssumption DEF StackRoom
    <2>2. 1 \in 1 .. Len(Segments) /\ MemoryPages \in Nat /\ FramebufferPages \in Nat /\ InitrdPages \in Nat
          /\ VirtualPages \in Nat
      BY <1>2, LoaderAssumption
    <2>3. Segments[1].page \in Nat /\ Segments[1].page < VirtualPages
      BY <1>3, <2>1, <2>2
    <2> QED
      BY <2>3, ImageAssumption DEF ImageBase
  <1>5. /\ MemoryPages \in Nat \ {0} /\ EntriesPerTable \in Nat \ {0} /\ Levels \in Nat \ {0}
        /\ Cpus \in Nat \ {0} /\ StackPages \in Nat \ {0}
        /\ FramebufferPages \in Nat /\ InitrdPages \in Nat /\ MapMargin \in Nat
        /\ MaxEvents \in Nat /\ VirtualPages \in Nat /\ Absent \notin Nat
    BY LoaderAssumption
  <1> QED
    BY <1>2, <1>3, <1>4, <1>5, ImageAssumption

(* The room for stacks, one processor at a time. *)
LEMMA StackRoomFacts ==
  /\ StackRoom(0) = 0
  /\ \A n \in Nat : StackRoom(n) \in Nat /\ StackRoom(n + 1) = StackRoom(n) + StackPages + 1
  /\ \A m, n \in Nat : m < n => StackRoom(m) + StackPages + 1 <= StackRoom(n)
  <1> DEFINE k == StackPages + 1
  <1>1. k \in Nat
    BY ConstantFacts
  <1>2. \A n \in Nat : n * k \in Nat /\ (n + 1) * k = n * k + k
    BY <1>1
  <1>3. ASSUME NEW m \in Nat, NEW n \in Nat, m < n PROVE m * k + k <= n * k
    <2> HIDE DEF k
    <2>1. n - (m + 1) \in Nat
      BY <1>3
    <2>2. (n - (m + 1)) * k \in Nat
      BY <1>1, <2>1
    <2>3. (n - (m + 1)) * k + (m + 1) * k = n * k
      BY <1>1, <1>3
    <2>4. (m + 1) * k = m * k + k /\ (m + 1) * k \in Nat /\ n * k \in Nat
      BY <1>1, <1>2
    <2> QED
      BY <2>2, <2>3, <2>4
  <1> QED
    BY <1>1, <1>2, <1>3, ConstantFacts DEF StackRoom

(* What the loader does arithmetic with. *)
LEMMA ScalarFacts ==
  /\ MemoryPages \in Nat /\ FramebufferPages \in Nat /\ InitrdPages \in Nat
  /\ VirtualPages \in Nat /\ Len(Segments) \in Nat /\ Len(Segments) # 0 /\ Cpus \in Nat
  /\ MapMargin \in Nat /\ MaxEvents \in Nat /\ StackPages \in Nat /\ StackRoom(Cpus) \in Nat /\ Behind(Cpus) \in Nat
  <1>1. StackRoom(Cpus) \in Nat /\ FramebufferPages \in Nat /\ InitrdPages \in Nat
    BY ConstantFacts, StackRoomFacts
  <1>2. Behind(Cpus) \in Nat
    BY <1>1 DEF Behind
  <1> QED
    BY <1>1, <1>2, ConstantFacts

(* The address space has room for what is put behind the image. *)
LEMMA TailFits ==
  /\ 0 + Behind(Cpus) <= VirtualPages
  /\ \A k \in 1 .. Len(Segments) : Segments[k].page + Segments[k].count + Behind(Cpus) <= VirtualPages
  <1>1. ASSUME NEW k \in 1 .. Len(Segments)
        PROVE  Segments[k].page + Segments[k].count + Behind(Cpus) <= VirtualPages
    <2>1. /\ Segments[k].page \in Nat /\ Segments[k].count \in Nat
          /\ Segments[k].page + Segments[k].count + StackRoom(Cpus)
               + FramebufferPages + InitrdPages <= VirtualPages
      BY ConstantFacts
    <2> QED
      BY <2>1, ScalarFacts DEF Behind
  <1>2. 1 \in 1 .. Len(Segments) /\ Segments[1].page \in Nat /\ Segments[1].count \in Nat
    <2>1. 1 \in 1 .. Len(Segments)
      BY ScalarFacts
    <2> QED
      BY <2>1, ConstantFacts
  <1>3. Segments[1].page + Segments[1].count + Behind(Cpus) <= VirtualPages
    BY <1>1, <1>2
  <1>4. 0 + Behind(Cpus) <= VirtualPages
    BY <1>2, <1>3, ScalarFacts
  <1> QED
    BY <1>1, <1>4

LEMMA SpanInFrames ==
  ASSUME NEW b \in Frames, b + InitrdPages - 1 <= MemoryPages
  PROVE  Span(b, InitrdPages) \subseteq Frames
  BY ScalarFacts DEF Span, Frames

(* What the firmware gives is free memory, all of it RAM. *)
LEMMA PlacementIsFree ==
  ASSUME NEW n \in Nat, NEW f \in Placements(n)
  PROVE  /\ n > 0 /\ f \in Frames /\ f + n - 1 <= MemoryPages
         /\ \A g \in Span(f, n) : g \in Frames /\ type[g] = "Conventional"
  <1> DEFINE fit == {g \in Frames : /\ n > 0 /\ g + n - 1 <= MemoryPages
                                    /\ \A h \in Span(g, n) : type[h] = "Conventional"}
  <1>1. fit # {} /\ fit \in SUBSET Nat /\ (f = Min(fit) \/ f = Max(fit))
    BY ConstantFacts DEF Placements, Frames
  <1>2. \A g \in fit : g <= MemoryPages
    BY ConstantFacts DEF Frames
  <1>3. Min(fit) \in fit /\ Max(fit) \in fit
    <2> HIDE DEF fit
    <2> QED
      BY <1>1, <1>2, ConstantFacts, MinIsLeast, MaxIsGreatest
  <1>4. f \in fit
    BY <1>1, <1>3
  <1> QED
    BY <1>4, ConstantFacts DEF Span, Frames

LEMMA NoFreeFrame ==
  ASSUME NEW n \in Nat \ {0}, Placements(1) = {}
  PROVE  Placements(n) = {} /\ \A f \in Frames : type[f] # "Conventional"
  <1>1. ASSUME NEW f \in Frames PROVE type[f] # "Conventional"
    <2> SUFFICES ASSUME type[f] = "Conventional" PROVE FALSE
      OBVIOUS
    <2>1. f \in Nat /\ f + 1 - 1 <= MemoryPages /\ \A g \in Span(f, 1) : g = f
      BY ConstantFacts DEF Span, Frames
    <2>2. {g \in Frames : /\ 1 > 0 /\ g + 1 - 1 <= MemoryPages
                          /\ \A h \in Span(g, 1) : type[h] = "Conventional"} # {}
      BY <2>1
    <2> QED
      BY <2>2 DEF Placements
  <1>2. ASSUME NEW f \in Placements(n) PROVE FALSE
    <2>1. n > 0 /\ \A g \in Span(f, n) : g \in Frames /\ type[g] = "Conventional"
      BY PlacementIsFree
    <2>2. f \in Span(f, n)
      BY PlacementIsFree DEF Span, Frames
    <2> QED
      BY <1>1, <2>1, <2>2
  <1> QED
    BY <1>1, <1>2
-----------------------------------------------------------------------------
(* Types of the firmware's part. *)
FirmwareTypes ==
  /\ type \in [Frames -> {"LoaderCode", "LoaderData", "BootServicesData", "Conventional"}]
  /\ mapKey \in Nat
  /\ pool \in [{"boot_info", "temporary", "final"} -> Frames \cup {Absent}]
  /\ poolPages \subseteq Frames

LEMMA RetypeTypes ==
  ASSUME FirmwareTypes, NEW set,
         NEW t \in {"LoaderData", "BootServicesData", "Conventional"}, Retype(set, t)
  PROVE  /\ type' \in [Frames -> {"LoaderCode", "LoaderData", "BootServicesData", "Conventional"}]
         /\ mapKey' \in Nat
  BY DEF FirmwareTypes, Retype

LEMMA AllocatePoolTypes ==
  ASSUME FirmwareTypes, NEW b \in {"boot_info", "temporary", "final"}, AllocatePool(b)
  PROVE  FirmwareTypes'
  <1>1. PICK f \in poolPages \cup Placements(1) :
          /\ pool' = [pool EXCEPT ![b] = f]
          /\ poolPages' = poolPages \cup {f}
          /\ IF f \in poolPages THEN UNCHANGED <<type, mapKey>> ELSE AllocatePages(f, 1)
    BY DEF AllocatePool
  <1>2. f \in Frames
    BY <1>1, PlacementIsFree DEF FirmwareTypes
  <1>3. CASE f \in poolPages
    BY <1>1, <1>2, <1>3 DEF FirmwareTypes
  <1>4. CASE f \notin poolPages
    <2>1. Retype(Span(f, 1), "LoaderData")
      BY <1>1, <1>4 DEF AllocatePages
    <2> QED
      BY <1>1, <1>2, <2>1, RetypeTypes DEF FirmwareTypes
  <1> QED
    BY <1>3, <1>4

LEMMA RoomInit == Init => RoomInv
  <1> SUFFICES ASSUME Init PROVE RoomInv
    OBVIOUS
  <1>1. pc = "boot info" /\ poolPages = {} /\ layout = {}
    BY DEF Init
  <1>2. /\ type \in [Frames -> {"LoaderCode", "LoaderData", "BootServicesData", "Conventional"}]
        /\ pool \in [{"boot_info", "temporary", "final"} -> Frames \cup {Absent}]
        /\ mapping \in [Pages -> 1 .. (MemoryPages + FramebufferPages) \cup {Absent}]
    BY DEF Init
  <1>3. /\ DOMAIN image = {"kind", "first", "entry"}
        /\ DOMAIN bi = {"initrd", "framebuffer", "end", "map"}
        /\ DOMAIN memmap = {"key", "size", "types"}
    BY DEF Init
  <1>4. request \in Requests /\ request.count = 0
    <2>1. 0 \in Pages /\ 0 \in 0 .. (FramebufferBase + FramebufferPages) /\ 0 \in 0 .. VirtualPages
      BY ConstantFacts DEF Pages, FramebufferBase
    <2>2. request = [vaddr |-> 0, frame |-> 0, count |-> 0]
      BY DEF Init
    <2> QED
      BY <2>1, <2>2 DEF Requests
  <1>5. \A n \in {done, loaded, events, i, nextPage, mapKey} : n = 0
    <2>1. done = 0 /\ loaded = 0 /\ events = 0 /\ i = 0 /\ nextPage = 0 /\ mapKey = 0
      BY DEF Init
    <2> QED
      BY <2>1, Zenon
  <1>6. LoaderTypeOK
    <2>1. /\ loaded \in 0 .. Len(Segments) /\ events \in 0 .. MaxEvents /\ nextPage \in Nat
          /\ mapKey \in Nat /\ done \in 0 .. request.count
      BY <1>4, <1>5, ConstantFacts
    <2>2. DOMAIN tables = {}
      <3>1. tables = <<>>
        BY DEF Init
      <3> QED
        BY <3>1
    <2> QED
      BY <1>1, <1>2, <1>4, <2>1, <2>2 DEF LoaderTypeOK
  <1>7. memmap.key \in Nat /\ memmap.size \in Nat /\ stackTop \in Nat
    BY DEF Init
  <1>8. {nextPage, request.count, i, loaded} = {0}
    BY <1>4, <1>5
  <1>9. loaded = 0 /\ ~(request.count > 0)
    BY <1>4, <1>8
  <1> QED
    BY <1>1, <1>3, <1>6, <1>7, <1>8, <1>9 DEF RoomInv, States, InitrdStates, Late, Handing, Early

LEMMA RoomAllocateBootInfo == RoomInv /\ AllocateBootInfo => RoomInv'
  <1> SUFFICES ASSUME RoomInv, AllocateBootInfo PROVE RoomInv'
    OBVIOUS
  <1> USE DEF RoomInv, AllocateBootInfo, Early, States, InitrdStates, Late, Handing, Settled, RoomFor
  <1>1. CASE PoolFails
    BY <1>1 DEF GoTo, firmwareVars, mapVars, loaderVars, LoaderTypeOK
  <1>2. CASE ~PoolFails
    <2>1. FirmwareTypes'
      BY <1>2, AllocatePoolTypes DEF LoaderTypeOK, FirmwareTypes
    <2>2. LoaderTypeOK'
      BY <1>2, <2>1 DEF LoaderTypeOK, FirmwareTypes, mapVars, loaderVars
    <2> QED
      BY <1>2, <2>2 DEF mapVars, loaderVars
  <1> QED
    BY <1>1, <1>2
(* A mapping that begins. *)
LEMMA StartMappingTypes ==
  ASSUME LoaderTypeOK, NEW v \in Pages, NEW f \in 0 .. (FramebufferBase + FramebufferPages),
         NEW n \in 0 .. VirtualPages, StartMapping(v, f, n)
  PROVE  /\ request' \in Requests /\ request'.vaddr = v /\ request'.frame = f
         /\ request'.count = n /\ done' \in 0 .. request'.count /\ done' = 0
         /\ layout' \subseteq Requests /\ mapping' = mapping /\ tables' = tables
  <1>1. [vaddr |-> v, frame |-> f, count |-> n] \in Requests
    BY DEF Requests
  <1>2. request' = [vaddr |-> v, frame |-> f, count |-> n] /\ mapping' = mapping /\ tables' = tables
    BY DEF StartMapping
  <1>3. done' = 0 /\ n \in Nat
    BY ConstantFacts DEF StartMapping
  <1>4. layout' = layout \cup {[vaddr |-> v, frame |-> f, count |-> n]}
    BY DEF StartMapping
  <1>5. request'.vaddr = v /\ request'.frame = f /\ request'.count = n
    BY <1>2
  <1> QED
    BY <1>1, <1>2, <1>3, <1>4, <1>5 DEF LoaderTypeOK

LEMMA OwnedFacts ==
  ASSUME Owned # {}, i \in Nat
  PROVE  /\ Min(Owned) \in Frames /\ Min(Owned) > i /\ OwnedType(memmap.types[Min(Owned)])
         /\ \A f \in Frames : i < f /\ f < Min(Owned) => ~OwnedType(memmap.types[f])
  <1>1. Owned \in SUBSET Nat
    BY DEF Owned, Frames
  <1>2. Min(Owned) \in Owned /\ \A f \in Owned : Min(Owned) <= f
    BY <1>1, MinIsLeast
  <1> QED
    BY <1>2 DEF Owned, OwnedType, Frames

LEMMA DescriptorsNat == ASSUME NEW t PROVE Descriptors(t) \in Nat
  <1>1. IsFiniteSet(Frames)
    BY ConstantFacts, FS_Interval DEF Frames
  <1>2. IsFiniteSet({f \in Frames : f = 1 \/ t[f] # t[f - 1]})
    BY <1>1, FS_Subset
  <1> QED
    BY <1>2, FS_CardinalityType DEF Descriptors

LEMMA MapSizeNat == MapSize \in Nat
  <1>1. Descriptors(type) \in Nat
    BY DescriptorsNat
  <1>2. \A d \in Nat : d + MapMargin \in Nat
    BY ScalarFacts
  <1>3. Descriptors(type) + MapMargin \in Nat
    BY <1>1, <1>2, Zenon
  <1> QED
    BY <1>3 DEF MapSize

LEMMA RoomFailed == RoomInv /\ GoTo("failed") => RoomInv'
  BY DEF RoomInv, GoTo, Early, States, InitrdStates, Late, Handing, Settled, RoomFor, firmwareVars, mapVars, loaderVars,
         LoaderTypeOK

LEMMA RoomLoadBootImage == RoomInv /\ LoadBootImage => RoomInv'
  <1> SUFFICES ASSUME RoomInv, LoadBootImage, ~GoTo("failed") PROVE RoomInv'
    BY RoomFailed
  <1>1. PICK f \in Placements(InitrdPages) :
          /\ AllocatePages(f, InitrdPages) /\ bi' = [bi EXCEPT !.initrd = f]
          /\ pc' = "find kernel"
          /\ UNCHANGED <<pool, poolPages, policy, mapVars, nextPage, image, i, memmap,
                         stackTop, loaded, layout, events>>
    BY DEF LoadBootImage
  <1>2. f \in Frames /\ InitrdPages > 0 /\ f + InitrdPages - 1 <= MemoryPages
    BY ConstantFacts, PlacementIsFree
  <1>3. FirmwareTypes'
    BY <1>1, RetypeTypes DEF AllocatePages, RoomInv, LoaderTypeOK, FirmwareTypes
  <1>4. LoaderTypeOK'
    BY <1>1, <1>3 DEF RoomInv, LoaderTypeOK, FirmwareTypes, mapVars
  <1>5. pc = "boot image"
    BY DEF LoadBootImage
  <1>6. DOMAIN bi' = DOMAIN bi /\ bi'.initrd = f
    BY <1>1 DEF RoomInv
  <1> QED
    BY <1>1, <1>2, <1>4, <1>5, <1>6 DEF RoomInv, Early, States, InitrdStates, Late, Handing, Settled, mapVars

LEMMA RoomFindKernel == RoomInv /\ FindKernel => RoomInv'
  <1> SUFFICES ASSUME RoomInv, pc = "find kernel", GoTo("page tables") PROVE RoomInv'
    BY RoomFailed DEF FindKernel
  <1> QED
    BY DEF RoomInv, GoTo, Early, States, InitrdStates, Late, Handing, Settled, firmwareVars, mapVars, loaderVars, LoaderTypeOK

LEMMA RoomCreatePageTables == RoomInv /\ CreatePageTables => RoomInv'
  <1> SUFFICES ASSUME RoomInv, CreatePageTables, ~GoTo("failed") PROVE RoomInv'
    BY RoomFailed
  <1>1. PICK f \in Placements(1) :
          /\ AllocatePages(f, 1) /\ tables' = Linked(TableKey(0, Levels + 1), f) /\ pc' = "image"
          /\ UNCHANGED <<pool, poolPages, policy, mapping, request, done, loaderVars>>
    BY DEF CreatePageTables
  <1>2. \A k \in DOMAIN tables' : tables'[k] \in Frames
    BY <1>1, PlacementIsFree DEF Linked, RoomInv, LoaderTypeOK
  <1>3. FirmwareTypes'
    BY <1>1, RetypeTypes DEF AllocatePages, RoomInv, LoaderTypeOK, FirmwareTypes
  <1>4. LoaderTypeOK'
    BY <1>1, <1>2, <1>3 DEF RoomInv, LoaderTypeOK, FirmwareTypes, loaderVars
  <1>5. pc = "page tables"
    BY DEF CreatePageTables
  <1> QED
    BY <1>1, <1>4, <1>5 DEF RoomInv, Early, States, InitrdStates, Late, Handing, Settled, loaderVars

LEMMA RoomReadImage == RoomInv /\ ReadImage => RoomInv'
  <1> SUFFICES ASSUME RoomInv, ReadImage PROVE RoomInv'
    OBVIOUS
  <1>1. /\ UNCHANGED <<firmwareVars, mapVars, i, memmap, bi, stackTop, loaded, layout, events>>
        /\ pc = "image"
    BY DEF ReadImage
  <1>2. i = 0 /\ nextPage = 0
    BY <1>1 DEF RoomInv, Early
  <1>3. request.count = 0 /\ loaded = 0
    BY <1>1 DEF RoomInv, Early
  <1>4. done \in 0 .. 0
    BY <1>3 DEF RoomInv, LoaderTypeOK
  <1>5. Settled
    BY <1>3, <1>4 DEF Settled
  <1>6. CASE image.kind = "elf"
    <2>1. /\ pc' = "segments" /\ nextPage' = ImageBase /\ image'.kind = "elf"
          /\ DOMAIN image' = {"kind", "first", "entry"}
      BY <1>6 DEF ReadImage, RoomInv, ImageBase
    <2>2. LoaderTypeOK'
      BY <1>1, <2>1, ConstantFacts
      DEF RoomInv, LoaderTypeOK, firmwareVars, mapVars
    <2>3. i' \in 0 .. Len(Segments) /\ ~(i' > 0)
      BY <1>1, <1>2, ConstantFacts
    <2> QED
      BY <1>1, <1>3, <2>1, <2>2, <2>3 DEF RoomInv, Early, States, InitrdStates, Late, Handing, mapVars, ImageBase
  <1>7. CASE image.kind # "elf"
    <2>1. pc' = "check kernel" /\ image' = image /\ nextPage' = 0
      BY <1>2, <1>7 DEF ReadImage
    <2>2. LoaderTypeOK'
      BY <1>1, <2>1 DEF RoomInv, LoaderTypeOK, firmwareVars, mapVars
    <2>3. RoomFor(Behind(Cpus))'
      <3>1. 0 + Behind(Cpus) <= VirtualPages
        BY TailFits
      <3> QED
        BY <2>1, <3>1 DEF RoomFor
    <2> QED
      BY <1>1, <1>3, <1>5, <2>1, <2>2, <2>3 DEF RoomInv, Early, States, InitrdStates, Late, Handing, mapVars, Settled
  <1> QED
    BY <1>6, <1>7

(* Pages the firmware gave are mapped where there is room. *)
LEMMA MapNewPagesTypes ==
  ASSUME LoaderTypeOK, NEW v \in Nat, NEW n \in Nat, v + n <= VirtualPages,
         NEW f \in Placements(n), AllocatePages(f, n), StartMapping(v, f, n),
         UNCHANGED <<pool, poolPages>>
  PROVE  /\ FirmwareTypes' /\ n > 0
         /\ request' \in Requests /\ request' = [vaddr |-> v, frame |-> f, count |-> n]
         /\ request'.count = n /\ request'.vaddr = v /\ request'.frame > 0
         /\ request'.frame + request'.count - 1 <= MemoryPages + FramebufferPages
         /\ request'.vaddr + request'.count <= VirtualPages
         /\ done' \in 0 .. request'.count
         /\ layout' \subseteq Requests /\ mapping' = mapping /\ tables' = tables
  <1>1. FirmwareTypes'
    BY RetypeTypes DEF AllocatePages, LoaderTypeOK, FirmwareTypes
  <1>2. n > 0 /\ f \in Frames /\ f + n - 1 <= MemoryPages
    BY PlacementIsFree
  <1>3. /\ v \in Pages /\ n \in 0 .. VirtualPages /\ f \in 0 .. (FramebufferBase + FramebufferPages)
        /\ f > 0 /\ f + n - 1 <= MemoryPages + FramebufferPages
    BY <1>2, ScalarFacts DEF Pages, Frames, FramebufferBase
  <1>4. request' = [vaddr |-> v, frame |-> f, count |-> n]
    BY DEF StartMapping
  <1> QED
    BY <1>1, <1>2, <1>3, <1>4, StartMappingTypes

(* The segments lie one behind the other, so that the running sum over their
   sizes is the next one's address.                                       *)
LEMMA SegmentAt ==
  ASSUME RoomInv, pc = "segments", i < Len(Segments)
  PROVE  /\ SegmentBase = Segments[i + 1].page /\ i + 1 \in 1 .. Len(Segments)
         /\ SegmentBase \in Nat /\ Segments[i + 1].count \in Nat /\ i \in Nat
  <1>1. i \in 0 .. Len(Segments) /\ Len(Segments) \in Nat
    BY ConstantFacts DEF RoomInv
  <1>2. i + 1 \in 1 .. Len(Segments) /\ i \in Nat
    BY <1>1
  <1>3. Segments[i + 1].page \in Nat /\ Segments[i + 1].count \in Nat
    BY <1>2, ConstantFacts
  <1>4. CASE i = 0
    <2>1. nextPage = Segments[1].page /\ request.count = 0
      BY <1>4 DEF RoomInv
    <2>2. Segments[1].page \in Nat
      BY <1>2, <1>3, <1>4
    <2>3. Segments[i + 1].page = Segments[1].page
      BY <1>4
    <2> QED
      BY <1>2, <1>3, <2>1, <2>2, <2>3 DEF SegmentBase
  <1>5. CASE i > 0
    <2>1. nextPage = Segments[i].page /\ request.count = Segments[i].count
      BY <1>5 DEF RoomInv
    <2>2. i \in 1 .. (Len(Segments) - 1)
      BY <1>1, <1>5
    <2> QED
      BY <1>2, <1>3, <2>1, <2>2, ImageAssumption DEF SegmentBase
  <1> QED
    BY <1>1, <1>4, <1>5

LEMMA RoomMapSegment == RoomInv /\ MapSegment => RoomInv'
  <1> SUFFICES ASSUME RoomInv, MapSegment PROVE RoomInv'
    OBVIOUS
  <1> DEFINE n == Segments[i + 1].count
  <1>1. /\ pc = "segments" /\ Settled /\ i < Len(Segments) /\ nextPage' = SegmentBase
        /\ UNCHANGED <<image, memmap, bi, stackTop, events>>
    BY DEF MapSegment
  <1>2. /\ SegmentBase = Segments[i + 1].page /\ i + 1 \in 1 .. Len(Segments)
        /\ SegmentBase \in Nat /\ n \in Nat /\ i \in Nat
    BY <1>1, SegmentAt
  <1>3. SegmentBase + n + Behind(Cpus) <= VirtualPages
    <2>1. Segments[i + 1].page + Segments[i + 1].count + Behind(Cpus) <= VirtualPages
      BY <1>2, TailFits
    <2> QED
      BY <1>2, <2>1
  <1>4. image.kind = "elf"
    BY <1>1 DEF RoomInv
  <1>5. CASE Placements(n) = {}
    <2>1. /\ pc' = "check kernel" /\ loaded' = i
          /\ UNCHANGED <<firmwareVars, mapVars, layout, i>>
      BY <1>5 DEF MapSegment
    <2>2. LoaderTypeOK'
      BY <1>1, <1>2, <2>1, ConstantFacts DEF RoomInv, LoaderTypeOK, firmwareVars, mapVars
    <2>3. RoomFor(Behind(Cpus))'
      <3>1. SegmentBase + Behind(Cpus) <= VirtualPages
        <4> HIDE DEF n
        <4> QED
          BY <1>2, <1>3, ScalarFacts
      <3> QED
        BY <1>1, <3>1 DEF RoomFor
    <2> QED
      BY <1>1, <1>4, <2>1, <2>2, <2>3 DEF RoomInv, Early, States, InitrdStates, Late, Handing, Settled, mapVars
  <1>6. CASE Placements(n) # {}
    <2>1. /\ MapNewPages(SegmentBase, n) /\ i' = i + 1
          /\ UNCHANGED <<pc, pool, poolPages, policy, loaded>>
      BY <1>6 DEF MapSegment
    <2>2. PICK f \in Placements(n) : AllocatePages(f, n) /\ StartMapping(SegmentBase, f, n)
      BY <2>1 DEF MapNewPages
    <2>3. SegmentBase + n <= VirtualPages
      <3> HIDE DEF n
      <3> QED
        BY <1>2, <1>3, ScalarFacts
    <2>4. /\ FirmwareTypes' /\ n > 0 /\ request' \in Requests
          /\ request'.count = n /\ request'.vaddr = SegmentBase /\ request'.frame > 0
          /\ request'.frame + request'.count - 1 <= MemoryPages + FramebufferPages
          /\ request'.vaddr + request'.count <= VirtualPages
          /\ done' \in 0 .. request'.count
          /\ layout' \subseteq Requests /\ mapping' = mapping /\ tables' = tables
      <3> HIDE DEF n
      <3> QED
        BY <1>2, <2>1, <2>2, <2>3, MapNewPagesTypes DEF RoomInv
    <2>5. LoaderTypeOK'
      BY <1>1, <1>2, <2>1, <2>4 DEF RoomInv, LoaderTypeOK, FirmwareTypes
    <2>6. /\ pc' = "segments" /\ i' \in 0 .. Len(Segments) /\ i' # 0
          /\ nextPage' = Segments[i'].page /\ request'.vaddr = nextPage'
          /\ request'.count = Segments[i'].count
      BY <1>1, <1>2, <2>1, <2>4
    <2> QED
      BY <1>1, <1>4, <2>1, <2>4, <2>5, <2>6 DEF RoomInv, Early, States, InitrdStates, Late, Handing
  <1> QED
    BY <1>5, <1>6

LEMMA RoomFinishImage == RoomInv /\ FinishImage => RoomInv'
  <1> SUFFICES ASSUME RoomInv, FinishImage PROVE RoomInv'
    OBVIOUS
  <1>1. /\ pc = "segments" /\ Settled /\ i = Len(Segments) /\ nextPage' = nextPage + request.count
        /\ loaded' = i /\ pc' = "check kernel"
        /\ UNCHANGED <<firmwareVars, mapVars, image, i, memmap, bi, stackTop, layout, events>>
    BY DEF FinishImage
  <1>2. i \in 1 .. Len(Segments) /\ i > 0
    <2>1. i = Len(Segments)
      BY DEF FinishImage
    <2> QED
      BY <2>1, ScalarFacts
  <1>3. nextPage' = Segments[i].page + Segments[i].count /\ image.kind = "elf"
    BY <1>1, <1>2 DEF RoomInv
  <1>4. nextPage' \in Nat /\ RoomFor(Behind(Cpus))'
    <2>1. Segments[i].page + Segments[i].count + Behind(Cpus) <= VirtualPages
      BY <1>2, TailFits
    <2>2. Segments[i].page \in Nat /\ Segments[i].count \in Nat
      BY <1>2, ConstantFacts
    <2> QED
      BY <1>3, <2>1, <2>2 DEF RoomFor
  <1>5. LoaderTypeOK'
    BY <1>1, <1>2, <1>4 DEF RoomInv, LoaderTypeOK, firmwareVars, mapVars
  <1> QED
    BY <1>1, <1>3, <1>4, <1>5 DEF RoomInv, Early, States, InitrdStates, Late, Handing, Settled, mapVars

LEMMA RoomCheckKernel == RoomInv /\ CheckKernel => RoomInv'
  BY DEF RoomInv, CheckKernel, CheckThen, Early, States, InitrdStates, Late, Handing, Settled, RoomFor, firmwareVars, mapVars,
         loaderVars, LoaderTypeOK

LEMMA RoomCountProcessors == RoomInv /\ CountProcessors => RoomInv'
  <1> SUFFICES ASSUME RoomInv, CountProcessors, ~GoTo("failed") PROVE RoomInv'
    BY RoomFailed
  <1>1. /\ pc = "processors" /\ pc' = "stacks"
        /\ stackTop' = nextPage + 1 + StackPages /\ i' \in 0 .. 0
        /\ UNCHANGED <<firmwareVars, mapVars, nextPage, image, memmap, bi, loaded, layout, events>>
    BY DEF CountProcessors
  <1>2. stackTop' \in Nat /\ i' \in 0 .. Cpus
    BY <1>1, ScalarFacts DEF RoomInv, LoaderTypeOK
  <1>3. Cpus - i' = Cpus
    BY <1>1, ScalarFacts
  <1>4. RoomFor(Behind(Cpus - i))'
    <2>1. RoomFor(Behind(Cpus)) /\ nextPage' = nextPage
      BY <1>1 DEF RoomInv
    <2> QED
      BY <1>3, <2>1 DEF RoomFor
  <1>5. LoaderTypeOK'
    BY <1>1 DEF RoomInv, LoaderTypeOK, firmwareVars, mapVars
  <1> QED
    BY <1>1, <1>2, <1>4, <1>5 DEF RoomInv, Early, States, InitrdStates, Late, Handing, Settled, mapVars

(* What the next stack and its guard leave of the room. *)
LEMMA StackFits ==
  ASSUME RoomInv, pc = "stacks", i < Cpus
  PROVE  /\ i \in Nat /\ Cpus - (i + 1) \in Nat /\ StackBase \in Nat
         /\ StackBase + StackPages + Behind(Cpus - (i + 1)) <= VirtualPages
         /\ Behind(Cpus - (i + 1)) \in Nat
  <1>1. i \in 0 .. Cpus /\ nextPage \in Nat /\ nextPage + Behind(Cpus - i) <= VirtualPages
    BY DEF RoomInv, LoaderTypeOK, RoomFor
  <1>2. i \in Nat /\ Cpus - (i + 1) \in Nat /\ Cpus - i = (Cpus - (i + 1)) + 1
    BY <1>1, ScalarFacts
  <1>3. /\ StackRoom(Cpus - i) = StackRoom(Cpus - (i + 1)) + StackPages + 1
        /\ StackRoom(Cpus - (i + 1)) \in Nat
    BY <1>2, StackRoomFacts
  <1>4. /\ Behind(Cpus - i) = Behind(Cpus - (i + 1)) + StackPages + 1
        /\ Behind(Cpus - (i + 1)) \in Nat
    <2>1. FramebufferPages \in Nat /\ InitrdPages \in Nat /\ StackPages \in Nat
      BY ScalarFacts
    <2> QED
      BY <1>3, <2>1 DEF Behind
  <1> QED
    BY <1>1, <1>2, <1>4, ScalarFacts DEF StackBase

LEMMA RoomMapStack == RoomInv /\ MapStack => RoomInv'
  <1> SUFFICES ASSUME RoomInv, MapStack, ~GoTo("failed") PROVE RoomInv'
    BY RoomFailed
  <1>1. /\ pc = "stacks" /\ Settled /\ i < Cpus /\ MapNewPages(StackBase, StackPages)
        /\ nextPage' = StackBase + StackPages /\ i' = i + 1
        /\ UNCHANGED <<pc, pool, poolPages, policy, image, memmap, bi, stackTop, loaded, events>>
    BY DEF MapStack
  <1>2. /\ i \in Nat /\ Cpus - (i + 1) \in Nat /\ StackBase \in Nat
        /\ StackBase + StackPages + Behind(Cpus - (i + 1)) <= VirtualPages
        /\ Behind(Cpus - (i + 1)) \in Nat
    BY <1>1, StackFits
  <1>3. PICK f \in Placements(StackPages) :
          AllocatePages(f, StackPages) /\ StartMapping(StackBase, f, StackPages)
    BY <1>1 DEF MapNewPages
  <1>4. StackBase + StackPages <= VirtualPages
    BY <1>2, ScalarFacts
  <1>5. /\ FirmwareTypes' /\ request' \in Requests /\ request'.frame > 0
        /\ request'.frame + request'.count - 1 <= MemoryPages + FramebufferPages
        /\ request'.vaddr + request'.count <= VirtualPages
        /\ done' \in 0 .. request'.count
        /\ layout' \subseteq Requests /\ mapping' = mapping /\ tables' = tables
    BY <1>1, <1>2, <1>3, <1>4, ScalarFacts, MapNewPagesTypes DEF RoomInv
  <1>6. i' \in 0 .. Cpus /\ nextPage' \in Nat
    BY <1>1, <1>2, ScalarFacts
  <1>7. RoomFor(Behind(Cpus - i))'
    BY <1>1, <1>2 DEF RoomFor
  <1>8. LoaderTypeOK'
    BY <1>1, <1>5, <1>6 DEF RoomInv, LoaderTypeOK, FirmwareTypes
  <1>9. pc' = "stacks"
    BY <1>1
  <1> QED
    BY <1>1, <1>5, <1>6, <1>7, <1>8, <1>9 DEF RoomInv, Early, States, InitrdStates, Late, Handing

(* Frames that are there already are mapped where there is room. *)
LEMMA MapFramesTypes ==
  ASSUME LoaderTypeOK, NEW n \in Nat, nextPage + n <= VirtualPages, nextPage < VirtualPages,
         NEW f \in 1 .. FramebufferBase, n > 0 => f + n - 1 <= MemoryPages + FramebufferPages,
         StartMapping(nextPage, f, n)
  PROVE  /\ request' \in Requests /\ request' = [vaddr |-> nextPage, frame |-> f, count |-> n]
         /\ request'.count = n /\ request'.vaddr = nextPage /\ request'.frame > 0
         /\ request'.count > 0 =>
              request'.frame + request'.count - 1 <= MemoryPages + FramebufferPages
         /\ request'.vaddr + request'.count <= VirtualPages
         /\ done' \in 0 .. request'.count
         /\ layout' \subseteq Requests /\ mapping' = mapping /\ tables' = tables
  <1>1. /\ nextPage \in Pages /\ n \in 0 .. VirtualPages
        /\ f \in 0 .. (FramebufferBase + FramebufferPages) /\ f > 0
    BY ScalarFacts DEF Pages, LoaderTypeOK, FramebufferBase
  <1>2. request' = [vaddr |-> nextPage, frame |-> f, count |-> n]
    BY DEF StartMapping
  <1> QED
    BY <1>1, <1>2, StartMappingTypes

LEMMA RoomMapFramebuffer == RoomInv /\ MapFramebuffer => RoomInv'
  <1> SUFFICES ASSUME RoomInv, MapFramebuffer, ~GoTo("failed") PROVE RoomInv'
    BY RoomFailed
  <1>1. /\ pc = "stacks" /\ Settled /\ i = Cpus /\ pc' = "frame buffer"
        /\ StartMapping(nextPage, FramebufferBase, FramebufferPages)
        /\ bi' = [bi EXCEPT !.framebuffer = nextPage] /\ nextPage' = nextPage + FramebufferPages
        /\ UNCHANGED <<firmwareVars, image, i, memmap, stackTop, loaded, events>>
    BY DEF MapFramebuffer, FramebufferEnd
  <1>2. nextPage \in Nat /\ InitrdPages > 0 /\ nextPage + FramebufferPages + InitrdPages <= VirtualPages
    <2>1. Cpus - i = 0
      <3>1. i = Cpus
        BY DEF MapFramebuffer, GoTo
      <3> QED
        BY <3>1, ScalarFacts
    <2>2. nextPage + Behind(0) <= VirtualPages
      BY <1>1, <2>1 DEF RoomInv, RoomFor
    <2>3. Behind(0) = FramebufferPages + InitrdPages
      BY ScalarFacts, StackRoomFacts DEF Behind
    <2>4. nextPage \in Nat /\ InitrdPages > 0
      BY <1>1 DEF RoomInv, LoaderTypeOK
    <2> QED
      BY <2>2, <2>3, <2>4, ScalarFacts
  <1>3. /\ request' \in Requests /\ request'.frame > 0
        /\ request'.count > 0 =>
             request'.frame + request'.count - 1 <= MemoryPages + FramebufferPages
        /\ request'.vaddr + request'.count <= VirtualPages
        /\ done' \in 0 .. request'.count
        /\ layout' \subseteq Requests /\ mapping' = mapping /\ tables' = tables
    <2>1. /\ nextPage + FramebufferPages <= VirtualPages /\ nextPage < VirtualPages
          /\ FramebufferBase \in 1 .. FramebufferBase
          /\ FramebufferBase + FramebufferPages - 1 <= MemoryPages + FramebufferPages
      BY <1>2, ScalarFacts DEF FramebufferBase
    <2> QED
      BY <1>1, <2>1, ScalarFacts, MapFramesTypes DEF RoomInv
  <1>4. nextPage' \in Nat /\ RoomFor(InitrdPages)'
    <2>1. nextPage' = nextPage + FramebufferPages
      BY <1>1
    <2> QED
      BY <1>2, <2>1, ScalarFacts DEF RoomFor
  <1>5. LoaderTypeOK'
    BY <1>1, <1>3, <1>4 DEF RoomInv, LoaderTypeOK, firmwareVars
  <1>6. DOMAIN bi' = DOMAIN bi /\ bi'.initrd = bi.initrd
    BY <1>1 DEF RoomInv
  <1> QED
    BY <1>1, <1>3, <1>4, <1>5, <1>6 DEF RoomInv, Early, States, InitrdStates, Late, Handing

LEMMA RoomMapInitrd == RoomInv /\ MapInitrd => RoomInv'
  <1> SUFFICES ASSUME RoomInv, MapInitrd, ~GoTo("failed") PROVE RoomInv'
    BY RoomFailed
  <1>1. /\ pc = "frame buffer" /\ Settled /\ pc' = "initrd"
        /\ StartMapping(nextPage, bi.initrd, InitrdPages)
        /\ bi' = [bi EXCEPT !.initrd = nextPage] /\ nextPage' = nextPage + InitrdPages
        /\ UNCHANGED <<firmwareVars, image, i, memmap, stackTop, loaded, events>>
    BY DEF MapInitrd, InitrdEnd
  <1>2. /\ nextPage \in Nat /\ InitrdPages > 0 /\ nextPage + InitrdPages <= VirtualPages
        /\ bi.initrd \in Frames /\ bi.initrd + InitrdPages - 1 <= MemoryPages
    BY <1>1 DEF RoomInv, LoaderTypeOK, RoomFor, InitrdStates
  <1>3. /\ request' \in Requests /\ request'.frame > 0
        /\ request'.count > 0 =>
             request'.frame + request'.count - 1 <= MemoryPages + FramebufferPages
        /\ request'.vaddr + request'.count <= VirtualPages
        /\ done' \in 0 .. request'.count
        /\ layout' \subseteq Requests /\ mapping' = mapping /\ tables' = tables
    <2>1. /\ nextPage < VirtualPages /\ bi.initrd \in 1 .. FramebufferBase
          /\ bi.initrd + InitrdPages - 1 <= MemoryPages + FramebufferPages
      BY <1>2, ScalarFacts DEF FramebufferBase, Frames
    <2> QED
      BY <1>1, <1>2, <2>1, ScalarFacts, MapFramesTypes DEF RoomInv
  <1>4. nextPage' \in Nat
    <2>1. nextPage' = nextPage + InitrdPages
      BY <1>1
    <2> QED
      BY <1>2, <2>1, ScalarFacts
  <1>5. LoaderTypeOK'
    BY <1>1, <1>3, <1>4 DEF RoomInv, LoaderTypeOK, firmwareVars
  <1>6. DOMAIN bi' = DOMAIN bi
    BY <1>1 DEF RoomInv
  <1> QED
    BY <1>1, <1>2, <1>3, <1>4, <1>5, <1>6 DEF RoomInv, Early, States, InitrdStates, Late, Handing

LEMMA RoomSizeMap ==
  ASSUME NEW b \in {"temporary", "final"}, NEW next \in {"get temporary", "get final"},
         RoomInv, pc \in {"initrd", "final map"}, Settled, SizeMap(b, next)
  PROVE  RoomInv'
  <1> SUFFICES ASSUME ~GoTo("failed") PROVE RoomInv'
    BY RoomFailed
  <1>1. /\ AllocatePool(b) /\ memmap' = [memmap EXCEPT !.size = MapSize] /\ pc' = next
        /\ UNCHANGED <<mapVars, nextPage, image, i, bi, stackTop, loaded, layout, events>>
    BY DEF SizeMap
  <1>2. FirmwareTypes'
    BY <1>1, AllocatePoolTypes DEF RoomInv, LoaderTypeOK, FirmwareTypes
  <1>3. LoaderTypeOK'
    BY <1>1, <1>2 DEF RoomInv, LoaderTypeOK, FirmwareTypes, mapVars
  <1>4. /\ DOMAIN memmap' = DOMAIN memmap /\ memmap'.key = memmap.key
        /\ memmap'.size \in Nat
    <2>1. MapSize \in Nat
      BY MapSizeNat
    <2> QED
      BY <1>1, <2>1 DEF RoomInv
  <1> QED
    BY <1>1, <1>3, <1>4 DEF RoomInv, Early, States, InitrdStates, Late, Handing, Settled, mapVars

LEMMA RoomSizeTemporaryMap == RoomInv /\ SizeTemporaryMap => RoomInv'
  BY RoomSizeMap, RoomFailed DEF SizeTemporaryMap

LEMMA RoomSizeFinalMap == RoomInv /\ SizeFinalMap => RoomInv'
  <1> SUFFICES ASSUME RoomInv, SizeFinalMap PROVE RoomInv'
    OBVIOUS
  <1>1. pc = "final map" /\ Settled /\ SizeMap("final", "get final")
    BY DEF SizeFinalMap, RoomInv
  <1> QED
    BY <1>1, RoomSizeMap

LEMMA RoomGetTemporaryMap == RoomInv /\ GetTemporaryMap => RoomInv'
  <1> SUFFICES ASSUME RoomInv, GetTemporaryMap, ~GoTo("failed") PROVE RoomInv'
    BY RoomFailed
  <1>1. /\ pc = "get temporary" /\ memmap' = CopiedMap /\ pc' = "identity"
        /\ UNCHANGED <<firmwareVars, mapVars, nextPage, image, bi, stackTop, loaded, layout, events>>
    BY DEF GetTemporaryMap
  <1>2. i' \in 0 .. MemoryPages
    <2>1. i' = 0
      BY DEF GetTemporaryMap
    <2> QED
      BY <2>1, ScalarFacts
  <1>3. LoaderTypeOK'
    BY <1>1 DEF RoomInv, LoaderTypeOK, firmwareVars, mapVars
  <1>4. DOMAIN memmap' = DOMAIN memmap /\ memmap'.key \in Nat /\ memmap'.size \in Nat
    BY <1>1 DEF RoomInv, LoaderTypeOK, CopiedMap
  <1> QED
    BY <1>1, <1>2, <1>3, <1>4 DEF RoomInv, Early, States, InitrdStates, Late, Handing, Settled, mapVars

LEMMA RoomMapIdentity == RoomInv /\ MapIdentity => RoomInv'
  <1> SUFFICES ASSUME RoomInv, MapIdentity PROVE RoomInv'
    OBVIOUS
  <1> DEFINE f == Min(Owned)
  <1>1. /\ pc = "identity" /\ Settled /\ Owned # {} /\ StartMapping(f, f, 1) /\ i' = f
        /\ UNCHANGED <<pc, firmwareVars, nextPage, image, memmap, bi, stackTop, loaded, events>>
    BY DEF MapIdentity
  <1>2. f \in Frames /\ i \in Nat
    <2>1. i \in Nat
      BY <1>1 DEF RoomInv
    <2> QED
      BY <1>1, <2>1, OwnedFacts
  <1> HIDE DEF f
  <1>3. /\ f \in Pages /\ f + 1 <= VirtualPages /\ f > 0 /\ 1 \in 0 .. VirtualPages
        /\ f \in 0 .. (FramebufferBase + FramebufferPages)
        /\ f + 1 - 1 <= MemoryPages + FramebufferPages /\ f \in 0 .. MemoryPages
    <2>1. MemoryPages < VirtualPages
      BY ConstantFacts
    <2> QED
      BY <1>2, <2>1, ScalarFacts DEF Pages, Frames, FramebufferBase
  <1>4. /\ request' \in Requests /\ request'.vaddr = f /\ request'.frame = f
        /\ request'.count = 1 /\ done' \in 0 .. request'.count
        /\ layout' \subseteq Requests /\ mapping' = mapping /\ tables' = tables
    BY <1>1, <1>3, StartMappingTypes DEF RoomInv
  <1>5. LoaderTypeOK'
    BY <1>1, <1>4 DEF RoomInv, LoaderTypeOK, firmwareVars
  <1>6. /\ request'.frame > 0
        /\ request'.frame + request'.count - 1 <= MemoryPages + FramebufferPages
        /\ request'.vaddr + request'.count <= VirtualPages
    BY <1>3, <1>4
  <1>7. i' \in 0 .. MemoryPages /\ pc' = "identity"
    BY <1>1, <1>3
  <1> QED
    BY <1>1, <1>5, <1>6, <1>7 DEF RoomInv, Early, States, InitrdStates, Late, Handing

(* A buffer goes back to the pool, and perhaps its page to the map. *)
LEMMA FreePoolTypes ==
  ASSUME FirmwareTypes, NEW b \in {"boot_info", "temporary", "final"}, FreePool(b)
  PROVE  FirmwareTypes'
  <1>1. pool' \in [{"boot_info", "temporary", "final"} -> Frames \cup {Absent}]
    BY DEF FreePool, FirmwareTypes
  <1>2. CASE UNCHANGED <<type, mapKey, poolPages>>
    BY <1>1, <1>2 DEF FirmwareTypes
  <1>3. CASE Retype({pool[b]}, "Conventional") /\ poolPages' = poolPages \ {pool[b]}
    BY <1>1, <1>3, RetypeTypes DEF FirmwareTypes
  <1> QED
    BY <1>2, <1>3 DEF FreePool

LEMMA RoomCheckMappings == RoomInv /\ CheckMappings => RoomInv'
  <1> SUFFICES ASSUME RoomInv, CheckMappings PROVE RoomInv'
    OBVIOUS
  <1>1. /\ pc = "identity" /\ Settled /\ FreePool("temporary")
        /\ bi' = [bi EXCEPT !.end = nextPage] /\ pc' \in {"final map", "failed"}
        /\ UNCHANGED <<mapVars, nextPage, image, i, memmap, stackTop, loaded, layout, events>>
    BY DEF CheckMappings, CheckThen
  <1>2. FirmwareTypes'
    BY <1>1, FreePoolTypes DEF RoomInv, LoaderTypeOK, FirmwareTypes
  <1>3. LoaderTypeOK'
    BY <1>1, <1>2 DEF RoomInv, LoaderTypeOK, FirmwareTypes, mapVars
  <1>4. DOMAIN bi' = DOMAIN bi
    BY <1>1 DEF RoomInv
  <1> QED
    BY <1>1, <1>3, <1>4 DEF RoomInv, Early, States, InitrdStates, Late, Handing, Settled, mapVars

LEMMA RoomGetFinalMap == RoomInv /\ GetFinalMap => RoomInv'
  <1> SUFFICES ASSUME RoomInv, GetFinalMap, ~GoTo("failed") PROVE RoomInv'
    BY RoomFailed
  <1>1. /\ pc = "get final" /\ memmap' = CopiedMap /\ pc' = "exit"
        /\ bi' = [bi EXCEPT !.map = PassedMap]
        /\ UNCHANGED <<firmwareVars, mapVars, nextPage, image, i, stackTop, loaded, layout, events>>
    BY DEF GetFinalMap
  <1>2. LoaderTypeOK'
    BY <1>1 DEF RoomInv, LoaderTypeOK, firmwareVars, mapVars
  <1>3. DOMAIN memmap' = DOMAIN memmap /\ memmap'.key \in Nat /\ memmap'.size \in Nat
    BY <1>1 DEF RoomInv, LoaderTypeOK, CopiedMap
  <1>4. DOMAIN bi' = DOMAIN bi
    BY <1>1 DEF RoomInv
  <1> QED
    BY <1>1, <1>2, <1>3, <1>4 DEF RoomInv, Early, States, InitrdStates, Late, Handing, Settled, mapVars

LEMMA Roomenter_kernel == RoomInv /\ enter_kernel => RoomInv'
  BY DEF RoomInv, enter_kernel, GoTo, Early, States, InitrdStates, Late, Handing, Settled, RoomFor, firmwareVars, mapVars,
         loaderVars, LoaderTypeOK

-----------------------------------------------------------------------------
(* What map_page does in one round: an entry is written, or a table linked. *)
WritesEntry ==
  /\ mapping' = [mapping EXCEPT ![NextEntry.page] = NextEntry.frame]
  /\ done' = done + 1
  /\ UNCHANGED <<pc, request, firmwareVars, tables, loaderVars>>

LinksTable(key, f) ==
  /\ AllocatePages(f, 1) /\ tables' = Linked(key, f)
  /\ UNCHANGED <<pc, request, pool, poolPages, policy, mapping, done, loaderVars>>

MapStates == {"segments", "stacks", "frame buffer", "initrd", "identity"}

LEMMA RequestTypes ==
  ASSUME LoaderTypeOK
  PROVE  /\ request.count \in Nat /\ request.vaddr \in Nat /\ request.frame \in Nat
         /\ done \in 0 .. request.count
  <1>1. request \in Requests /\ done \in 0 .. request.count
    BY DEF LoaderTypeOK
  <1>2. request.count \in 0 .. VirtualPages /\ request.vaddr \in Pages
    BY <1>1 DEF Requests
  <1>3. request.frame \in 0 .. (FramebufferBase + FramebufferPages)
    BY <1>1 DEF Requests
  <1> QED
    BY <1>1, <1>2, <1>3, ScalarFacts DEF Pages, FramebufferBase

LEMMA MapPageSteps ==
  ASSUME RoomInv, MapPage
  PROVE  /\ pc \in MapStates /\ done < request.count /\ request.count > 0
         /\ done \in Nat /\ request.count \in Nat
         /\ NextEntry.page = request.vaddr + done /\ NextEntry.frame = request.frame + done
         /\ NextEntry.page \in Pages
         /\ NextEntry.frame \in 1 .. (MemoryPages + FramebufferPages)
         /\ \/ WritesEntry
            \/ \E f \in Placements(1) : \E key : LinksTable(key, f)
  <1>1. pc \in MapStates /\ ~Settled
    BY DEF MapPage, MapStates
  <1>2. /\ done \in 0 .. request.count /\ request.count \in Nat
        /\ request.vaddr \in Nat /\ request.frame \in Nat
    BY RequestTypes DEF RoomInv
  <1>3. done < request.count /\ request.count > 0 /\ done \in Nat
    BY <1>1, <1>2 DEF Settled
  <1>4. /\ request.frame > 0 /\ request.vaddr + request.count <= VirtualPages
        /\ request.frame + request.count - 1 <= MemoryPages + FramebufferPages
    BY <1>3 DEF RoomInv
  <1>5. NextEntry.page = request.vaddr + done /\ NextEntry.frame = request.frame + done
    BY DEF NextEntry
  <1>6. /\ NextEntry.page \in Pages
        /\ NextEntry.frame \in 1 .. (MemoryPages + FramebufferPages)
    <2>1. request.vaddr + done \in 0 .. (VirtualPages - 1)
      BY <1>2, <1>3, <1>4, ScalarFacts
    <2>2. request.frame + done \in 1 .. (MemoryPages + FramebufferPages)
      BY <1>2, <1>3, <1>4, ScalarFacts
    <2> QED
      BY <1>5, <2>1, <2>2 DEF Pages
  <1>7. WritesEntry \/ \E f \in Placements(1) : \E key : LinksTable(key, f)
    <2>1. CASE Missing(NextEntry.page) = {}
      BY <2>1 DEF MapPage, WritesEntry
    <2>2. CASE Missing(NextEntry.page) # {}
      <3>1. PICK f \in Placements(1) :
              /\ AllocatePages(f, 1)
              /\ tables' = Linked(TableKey(NextEntry.page, Max(Missing(NextEntry.page))), f)
              /\ UNCHANGED <<pool, poolPages, policy, mapping, done>>
        BY <2>2 DEF MapPage
      <3>2. LinksTable(TableKey(NextEntry.page, Max(Missing(NextEntry.page))), f)
        BY <3>1 DEF MapPage, LinksTable
      <3> QED
        BY <3>2
    <2> QED
      BY <2>1, <2>2
  <1> QED
    BY <1>1, <1>2, <1>3, <1>5, <1>6, <1>7

LEMMA RoomMapPage == RoomInv /\ MapPage => RoomInv'
  <1> SUFFICES ASSUME RoomInv, MapPage PROVE RoomInv'
    OBVIOUS
  <1>1. /\ pc \in MapStates /\ done < request.count /\ done \in Nat /\ request.count \in Nat
        /\ NextEntry.page \in Pages
        /\ NextEntry.frame \in 1 .. (MemoryPages + FramebufferPages)
    BY MapPageSteps
  <1>2. UNCHANGED <<pc, request, pool, poolPages, loaderVars>> => (LoaderTypeOK' => RoomInv')
    BY <1>1 DEF RoomInv, Early, States, InitrdStates, Late, Handing, Settled, RoomFor, loaderVars, MapStates
  <1>3. CASE WritesEntry
    <2>1. done' \in 0 .. request.count
      BY <1>1, <1>3 DEF WritesEntry
    <2>2. mapping' \in [Pages -> 1 .. (MemoryPages + FramebufferPages) \cup {Absent}]
      BY <1>1, <1>3 DEF WritesEntry, RoomInv, LoaderTypeOK
    <2>3. UNCHANGED <<pc, request, pool, poolPages, loaderVars, type, mapKey, tables>>
      BY <1>3 DEF WritesEntry, firmwareVars
    <2>4. LoaderTypeOK'
      BY <2>1, <2>2, <2>3 DEF RoomInv, LoaderTypeOK, loaderVars
    <2> QED
      BY <1>2, <2>3, <2>4
  <1>4. ASSUME NEW f \in Placements(1), NEW key, LinksTable(key, f)
        PROVE  RoomInv'
    <2>1. /\ UNCHANGED <<pc, request, pool, poolPages, loaderVars, mapping, done>>
          /\ tables' = Linked(key, f) /\ AllocatePages(f, 1)
      BY <1>4 DEF LinksTable
    <2>2. FirmwareTypes'
      BY <2>1, RetypeTypes DEF AllocatePages, RoomInv, LoaderTypeOK, FirmwareTypes
    <2>3. \A k \in DOMAIN tables' : tables'[k] \in Frames
      BY <2>1, PlacementIsFree DEF Linked, RoomInv, LoaderTypeOK
    <2>4. LoaderTypeOK'
      BY <2>1, <2>2, <2>3 DEF RoomInv, LoaderTypeOK, FirmwareTypes, loaderVars
    <2> QED
      BY <1>2, <2>1, <2>4
  <1> QED
    BY <1>3, <1>4, MapPageSteps

(* A segment that memory runs out under: what map_kernel's caller sees. *)
DropsImage ==
  /\ pc' = "check kernel" /\ loaded' = i - 1 /\ layout' = layout \ {request}
  /\ request' = [request EXCEPT !.count = 0] /\ done' \in 0 .. 0
  /\ UNCHANGED <<firmwareVars, tables, mapping, nextPage, image, i, memmap, bi, stackTop, events>>

LEMMA MapPageFailsSteps ==
  ASSUME RoomInv, MapPageFails, ~GoTo("failed")
  PROVE  /\ pc = "segments" /\ ~Settled /\ Placements(1) = {} /\ DropsImage
         /\ i \in 1 .. Len(Segments) /\ nextPage = Segments[i].page
         /\ request.vaddr = nextPage /\ request.count > 0
  <1>1. pc = "segments" /\ ~Settled /\ Placements(1) = {}
    BY DEF MapPageFails
  <1>2. DropsImage
    <2>1. done' \in 0 .. 0
      <3>1. done' = 0
        BY <1>1 DEF MapPageFails
      <3> QED
        BY <3>1
    <2>2. /\ pc' = "check kernel" /\ loaded' = i - 1 /\ layout' = layout \ {request}
          /\ request' = [request EXCEPT !.count = 0]
          /\ UNCHANGED <<firmwareVars, tables, mapping, nextPage, image, i, memmap, bi, stackTop,
                         events>>
      BY <1>1 DEF MapPageFails
    <2> QED
      BY <2>1, <2>2 DEF DropsImage
  <1>3. i \in 0 .. Len(Segments)
    BY <1>1 DEF RoomInv
  <1>4. request.count > 0 /\ request.count \in Nat
    <2>1. done \in 0 .. request.count /\ request.count \in Nat
      BY RequestTypes DEF RoomInv
    <2> QED
      BY <1>1, <2>1 DEF Settled
  <1>5. i # 0
    BY <1>1, <1>4 DEF RoomInv
  <1>6. i \in 1 .. Len(Segments) /\ i > 0
    BY <1>3, <1>5, ScalarFacts
  <1> QED
    BY <1>1, <1>2, <1>4, <1>6 DEF RoomInv

LEMMA RoomMapPageFails == RoomInv /\ MapPageFails => RoomInv'
  <1> SUFFICES ASSUME RoomInv, MapPageFails, ~GoTo("failed") PROVE RoomInv'
    BY RoomFailed
  <1>1. /\ pc = "segments" /\ DropsImage /\ i \in 1 .. Len(Segments)
        /\ nextPage = Segments[i].page
    BY MapPageFailsSteps
  <1>2. /\ pc' = "check kernel" /\ loaded' = i - 1 /\ layout' = layout \ {request}
        /\ request' = [request EXCEPT !.count = 0] /\ done' \in 0 .. 0
        /\ UNCHANGED <<firmwareVars, tables, mapping, nextPage, image, i, memmap, bi, stackTop,
                       events>>
    BY <1>1 DEF DropsImage
  <1>3. /\ request' \in Requests /\ request'.count \in 0 .. 0 /\ image.kind = "elf"
        /\ done' \in 0 .. request'.count
    <2>1. request \in Requests
      BY DEF RoomInv, LoaderTypeOK
    <2>2. 0 \in 0 .. VirtualPages
      BY ScalarFacts
    <2>3. request' \in Requests /\ request'.count = 0
      BY <1>2, <2>1, <2>2 DEF Requests
    <2>4. done' \in 0 .. 0 /\ image' = image
      BY <1>2
    <2>5. image.kind = "elf"
      BY <1>1 DEF RoomInv
    <2> QED
      BY <2>3, <2>4, <2>5
  <1>4. loaded' \in 0 .. Len(Segments) /\ layout' \subseteq Requests
    <2>1. loaded' = i - 1 /\ layout' \subseteq layout
      BY <1>2
    <2> QED
      BY <1>1, <2>1, ScalarFacts DEF RoomInv, LoaderTypeOK
  <1>5. LoaderTypeOK'
    BY <1>2, <1>3, <1>4 DEF RoomInv, LoaderTypeOK, firmwareVars
  <1>6. RoomFor(Behind(Cpus))'
    <2>1. /\ Segments[i].page \in Nat /\ Segments[i].count \in Nat
          /\ Segments[i].page + Segments[i].count + Behind(Cpus) <= VirtualPages
      BY <1>1, TailFits, ConstantFacts
    <2>2. nextPage' = Segments[i].page
      BY <1>1, <1>2
    <2> QED
      BY <2>1, <2>2, ScalarFacts DEF RoomFor
  <1>7. ~(request'.count > 0) /\ Settled'
    BY <1>3 DEF Settled
  <1> QED
    BY <1>1, <1>2, <1>3, <1>5, <1>6, <1>7 DEF RoomInv, Early, States, InitrdStates, Late, Handing

LEMMA RoomFirmwareEvent == RoomInv /\ FirmwareEvent => RoomInv'
  <1> SUFFICES ASSUME RoomInv, FirmwareEvent PROVE RoomInv'
    OBVIOUS
  <1>1. /\ pc \in {"get temporary", "get final", "exit"} /\ events < MaxEvents
        /\ events' = events + 1
        /\ UNCHANGED <<pc, pool, poolPages, policy, mapVars, nextPage, image, i, memmap, bi,
                       stackTop, loaded, layout>>
    BY DEF FirmwareEvent
  <1>2. FirmwareTypes'
    <2>1. PICK f \in Frames : Retype({f}, "BootServicesData") \/ Retype({f}, "Conventional")
      BY DEF FirmwareEvent
    <2> QED
      BY <1>1, <2>1, RetypeTypes DEF RoomInv, LoaderTypeOK, FirmwareTypes
  <1>3. events' \in 0 .. MaxEvents
    <2>1. events \in 0 .. MaxEvents
      BY DEF RoomInv, LoaderTypeOK
    <2>2. events' = events + 1 /\ events < MaxEvents
      BY <1>1
    <2> QED
      BY <2>1, <2>2, LoaderAssumption
  <1>4. LoaderTypeOK'
    BY <1>1, <1>2, <1>3 DEF RoomInv, LoaderTypeOK, FirmwareTypes, mapVars
  <1> QED
    BY <1>1, <1>4 DEF RoomInv, Early, States, InitrdStates, Late, Handing, Settled, mapVars

LEMMA RoomStutter == RoomInv /\ UNCHANGED vars => RoomInv'
  BY DEF RoomInv, vars, Early, States, InitrdStates, Late, Handing, Settled, RoomFor, firmwareVars, mapVars, loaderVars,
         LoaderTypeOK

LEMMA RoomStep == RoomInv /\ [Next]_vars => RoomInv'
  BY RoomAllocateBootInfo, RoomLoadBootImage, RoomFindKernel, RoomCreatePageTables, RoomReadImage,
     RoomMapSegment, RoomFinishImage, RoomCheckKernel, RoomCountProcessors, RoomMapStack,
     RoomMapFramebuffer, RoomMapInitrd, RoomSizeTemporaryMap, RoomGetTemporaryMap,
     RoomMapIdentity, RoomCheckMappings, RoomSizeFinalMap, RoomGetFinalMap, Roomenter_kernel,
     RoomMapPage, RoomMapPageFails, RoomFirmwareEvent, RoomStutter
  DEF Next

(* Every variable keeps its type, and what the loader still has to map fits
   behind next_page (virtual.cpp:142-355, 478-505).                       *)
THEOREM RoomIsKept == Spec => []RoomInv
  BY RoomInit, RoomStep, PTL DEF Spec

(* In particular the types: a table, an entry or a range never names a page
   outside memory, the frame buffer or the address space (virtual.cpp:454-540). *)
THEOREM LoaderTypesCorrect == Spec => []LoaderTypeOK
  <1>1. RoomInv => LoaderTypeOK
    BY DEF RoomInv
  <1> QED
    BY <1>1, RoomIsKept, PTL

-----------------------------------------------------------------------------
(* No frame that is kept is given away by a step of the firmware. *)
Keeps ==
  /\ \A f \in Frames : Kept(f) => Kept(f)'
  /\ HeldPool'

LEMMA KeepsAllocatePages ==
  ASSUME RoomInv, HeldPool, NEW n \in Nat, NEW f \in Placements(n), AllocatePages(f, n),
         UNCHANGED <<pool, poolPages>>
  PROVE  Keeps /\ \A g \in Span(f, n) : Kept(g)'
  <1>1. \A g \in Span(f, n) : g \in Frames /\ type[g] = "Conventional"
    BY PlacementIsFree
  <1>2. type' = [g \in Frames |-> IF g \in Span(f, n) THEN "LoaderData" ELSE type[g]]
    BY DEF AllocatePages, Retype
  <1>3. poolPages \subseteq Frames
    BY DEF RoomInv, LoaderTypeOK
  <1> QED
    BY <1>1, <1>2, <1>3 DEF Keeps, Kept, HeldPool

LEMMA KeepsAllocatePool ==
  ASSUME RoomInv, HeldPool, NEW b \in {"boot_info", "temporary", "final"}, AllocatePool(b)
  PROVE  /\ Keeps /\ pool'[b] \in poolPages' /\ poolPages \subseteq poolPages'
         /\ \A c \in DOMAIN pool \ {b} : pool'[c] = pool[c]
  <1>1. PICK f \in poolPages \cup Placements(1) :
          /\ pool' = [pool EXCEPT ![b] = f]
          /\ poolPages' = poolPages \cup {f}
          /\ IF f \in poolPages THEN UNCHANGED <<type, mapKey>> ELSE AllocatePages(f, 1)
    BY DEF AllocatePool
  <1>2. DOMAIN pool = {"boot_info", "temporary", "final"} /\ poolPages \subseteq Frames
    BY DEF RoomInv, LoaderTypeOK
  <1>3. pool'[b] = f /\ DOMAIN pool' = DOMAIN pool /\ \A c \in DOMAIN pool \ {b} : pool'[c] = pool[c]
    BY <1>1, <1>2
  <1>4. CASE f \in poolPages
    BY <1>1, <1>2, <1>3, <1>4 DEF Keeps, Kept, HeldPool
  <1>5. CASE f \notin poolPages
    <2>1. f \in Span(f, 1) /\ f \in Frames /\ \A g \in Span(f, 1) : type[g] = "Conventional"
      BY <1>1, <1>5, PlacementIsFree DEF Span, Frames
    <2>2. type' = [g \in Frames |-> IF g \in Span(f, 1) THEN "LoaderData" ELSE type[g]]
      BY <1>1, <1>5 DEF AllocatePages, Retype
    <2>3. type'[f] = "LoaderData" /\ type[f] = "Conventional"
      BY <2>1, <2>2
    <2>4. \A g \in Frames : type[g] = "LoaderData" => type'[g] = "LoaderData"
      BY <2>2
    <2> QED
      BY <1>1, <1>2, <1>3, <2>3, <2>4 DEF Keeps, Kept, HeldPool
  <1> QED
    BY <1>4, <1>5

LEMMA KeepsFreePool ==
  ASSUME RoomInv, HeldPool, FreePool("temporary"), pool["boot_info"] \in poolPages
  PROVE  /\ Keeps /\ pool'["boot_info"] = pool["boot_info"] /\ pool'["boot_info"] \in poolPages'
         /\ \A f \in Frames : OwnedType(type'[f]) => type'[f] = type[f]
  <1> DEFINE f == pool["temporary"]
  <1>1. DOMAIN pool = {"boot_info", "temporary", "final"} /\ poolPages \subseteq Frames
    BY DEF RoomInv, LoaderTypeOK
  <1>2. pool' = [pool EXCEPT !["temporary"] = Absent]
    BY DEF FreePool
  <1>3. /\ DOMAIN pool' = DOMAIN pool /\ pool'["temporary"] = Absent
        /\ \A c \in DOMAIN pool \ {"temporary"} : pool'[c] = pool[c]
    BY <1>1, <1>2
  <1>4. CASE UNCHANGED <<type, mapKey, poolPages>>
    BY <1>1, <1>3, <1>4 DEF Keeps, Kept, HeldPool
  <1>5. CASE /\ \A c \in DOMAIN pool \ {"temporary"} : pool[c] # f
             /\ Retype({f}, "Conventional") /\ poolPages' = poolPages \ {f}
    <2>1. type' = [g \in Frames |-> IF g \in {f} THEN "Conventional" ELSE type[g]]
      BY <1>5 DEF Retype
    <2>2. f \in poolPages \/ f \notin Frames
      <3>1. f \in poolPages \cup {Absent}
        BY <1>1 DEF HeldPool
      <3> QED
        BY <3>1, ConstantFacts DEF Frames
    <2>3. \A g \in Frames : g # f => type'[g] = type[g]
      BY <2>1
    <2>4. ASSUME NEW c \in DOMAIN pool \ {"temporary"}
          PROVE  pool'[c] \in poolPages' \cup {Absent}
      <3>1. pool[c] \in poolPages \cup {Absent} /\ pool'[c] = pool[c]
        BY <1>3 DEF HeldPool
      <3>2. pool[c] # f
        BY <1>5
      <3> QED
        BY <1>5, <3>1, <3>2
    <2>5. HeldPool'
      <3>1. \A g \in poolPages' : type'[g] = "LoaderData"
        BY <1>1, <1>5, <2>3 DEF HeldPool
      <3>2. \A c \in DOMAIN pool' : pool'[c] \in poolPages' \cup {Absent}
        BY <1>1, <1>3, <2>4
      <3> QED
        BY <3>1, <3>2 DEF HeldPool
    <2>6. \A g \in Frames : Kept(g) => Kept(g)'
      BY <1>5, <2>2, <2>3 DEF Kept
    <2>7. \A g \in Frames : OwnedType(type'[g]) => type'[g] = type[g]
      BY <2>1, <2>3 DEF OwnedType
    <2>8. pool'["boot_info"] = pool["boot_info"] /\ pool'["boot_info"] \in poolPages'
      BY <1>1, <1>3, <1>5
    <2> QED
      BY <2>5, <2>6, <2>7, <2>8 DEF Keeps
  <1> QED
    BY <1>4, <1>5 DEF FreePool

LEMMA KeepsFirmwareEvent ==
  ASSUME RoomInv, HeldPool, FirmwareEvent
  PROVE  Keeps /\ \A f \in Frames : OwnedType(type'[f]) => type'[f] = type[f]
  <1>1. PICK f \in Frames :
          \/ type[f] = "Conventional" /\ Retype({f}, "BootServicesData")
          \/ type[f] = "BootServicesData" /\ Retype({f}, "Conventional")
    BY DEF FirmwareEvent
  <1>2. UNCHANGED <<pool, poolPages>> /\ poolPages \subseteq Frames
    BY DEF FirmwareEvent, RoomInv, LoaderTypeOK
  <1>3. \A g \in Frames : \/ type'[g] = type[g]
                          \/ /\ type[g] \in {"Conventional", "BootServicesData"}
                             /\ type'[g] \in {"Conventional", "BootServicesData"}
    BY <1>1 DEF Retype
  <1>4. \A g \in Frames : type[g] = "LoaderData" => type'[g] = "LoaderData"
    BY <1>3
  <1> QED
    BY <1>2, <1>3, <1>4 DEF Keeps, Kept, HeldPool, OwnedType

LEMMA KeepsUnchanged == HeldPool /\ UNCHANGED <<type, pool, poolPages>> => Keeps
  BY DEF Keeps, Kept, HeldPool

(* What is held stays held when nothing but frames that are kept come in. *)
LEMMA HeldFrom ==
  ASSUME RoomInv, HeldInv, Keeps, HeldBuffers',
         \A k \in DOMAIN tables' :
            Kept(tables[k])' \/ (k \in DOMAIN tables /\ tables'[k] = tables[k]),
         \A a \in layout' : \/ a \in layout \/ ~(a.vaddr > MemoryPages)
                            \/ \A f \in Span(a.frame, a.count) \cap Frames : Kept(f)'
  PROVE  /\ HeldTables' /\ HeldAreas' /\ HeldPool' /\ HeldBuffers'
         /\ HeldInitrd' => HeldInv'
         /\ pc' = "failed" => HeldInv'
  <1>1. HeldTables'
    <2>1. \A k \in DOMAIN tables : tables[k] \in Frames /\ Kept(tables[k])
      BY DEF RoomInv, LoaderTypeOK, HeldInv, HeldTables
    <2>2. ASSUME NEW k \in DOMAIN tables' PROVE Kept(tables[k])'
      <3>1. CASE k \in DOMAIN tables /\ tables'[k] = tables[k]
        <4>1. tables[k] \in Frames /\ Kept(tables[k])
          BY <2>1, <3>1
        <4>2. type'[tables[k]] = "LoaderData" /\ tables[k] \notin poolPages'
          BY <4>1 DEF Keeps, Kept
        <4> QED
          BY <3>1, <4>2 DEF Kept
      <3> QED
        BY <3>1
    <2> QED
      BY <2>2 DEF HeldTables
  <1>2. HeldAreas'
    <2>1. SUFFICES ASSUME NEW a \in layout', a.vaddr > MemoryPages,
                          NEW f \in Span(a.frame, a.count) \cap Frames
                   PROVE  Kept(f)'
      BY DEF HeldAreas, Kept
    <2>2. CASE a \in layout
      BY <2>1, <2>2 DEF HeldInv, HeldAreas, Keeps
    <2> QED
      BY <2>1, <2>2
  <1>3. HeldPool'
    BY DEF Keeps
  <1>4. pc' = "failed" => HeldInitrd'
    BY DEF HeldInitrd, InitrdStates
  <1> QED
    BY <1>1, <1>2, <1>3, <1>4 DEF HeldInv

(* The steps whose other effects on what is held are plain. *)
LEMMA HeldStep ==
  ASSUME RoomInv, HeldInv, Keeps, UNCHANGED <<pool, poolPages>>,
         \A k \in DOMAIN tables' :
            Kept(tables[k])' \/ (k \in DOMAIN tables /\ tables'[k] = tables[k]),
         \A a \in layout' : \/ a \in layout \/ ~(a.vaddr > MemoryPages)
                            \/ \A f \in Span(a.frame, a.count) \cap Frames : Kept(f)',
         pc' \in InitrdStates => pc \in InitrdStates /\ bi'.initrd = bi.initrd,
         pc' \notin {"boot info", "failed"} => pc \notin {"boot info", "failed"},
         pc' \in FinalStates => pc \in FinalStates
  PROVE  HeldInv'
  <1>1. HeldBuffers'
    BY DEF HeldInv, HeldBuffers
  <1>2. HeldInitrd'
    <2>1. ASSUME pc' \in InitrdStates, NEW f \in Span(bi.initrd, InitrdPages)
          PROVE  type'[f] = "LoaderData" /\ f \notin poolPages'
      <3>1. Kept(f) /\ pc \in InitrdStates
        BY <2>1 DEF HeldInv, HeldInitrd
      <3>2. bi.initrd \in Frames /\ bi.initrd + InitrdPages - 1 <= MemoryPages
        BY <3>1 DEF RoomInv
      <3>3. f \in Frames
        BY <2>1, <3>2, SpanInFrames
      <3> QED
        BY <3>1, <3>3 DEF Keeps, Kept
    <2> QED
      BY <2>1 DEF HeldInitrd, Kept
  <1> QED
    BY <1>1, <1>2, HeldFrom

LEMMA AreaAdded ==
  ASSUME NEW v, NEW f, NEW n, StartMapping(v, f, n),
         ~(v > MemoryPages) \/ \A g \in Span(f, n) \cap Frames : Kept(g)'
  PROVE  \A a \in layout' : \/ a \in layout \/ ~(a.vaddr > MemoryPages)
                            \/ \A g \in Span(a.frame, a.count) \cap Frames : Kept(g)'
  <1>1. layout' = layout \cup {[vaddr |-> v, frame |-> f, count |-> n]}
    BY DEF StartMapping
  <1> QED
    BY <1>1

(* Nothing of the firmware's or of the tables changes. *)
LEMMA HeldQuiet ==
  ASSUME RoomInv, HeldInv, UNCHANGED <<type, pool, poolPages, tables>>, layout' \subseteq layout,
         pc' \in InitrdStates => pc \in InitrdStates /\ bi'.initrd = bi.initrd,
         pc' \notin {"boot info", "failed"} => pc \notin {"boot info", "failed"},
         pc' \in FinalStates => pc \in FinalStates
  PROVE  HeldInv'
  BY HeldStep, KeepsUnchanged DEF HeldInv

LEMMA HeldFailed == RoomInv /\ HeldInv /\ GoTo("failed") => HeldInv'
  BY HeldQuiet DEF GoTo, firmwareVars, mapVars, loaderVars, InitrdStates, FinalStates

(* The states between which a step leads, by name. *)
LEMMA HeldOthers ==
  ASSUME RoomInv, HeldInv,
         \/ FindKernel \/ ReadImage \/ FinishImage \/ CheckKernel \/ CountProcessors
         \/ GetTemporaryMap \/ GetFinalMap \/ enter_kernel \/ UNCHANGED vars
  PROVE  HeldInv'
  <1> USE DEF firmwareVars, mapVars, loaderVars, InitrdStates, FinalStates, GoTo
  <1>1. CASE FindKernel
    BY <1>1, HeldQuiet DEF FindKernel
  <1>2. CASE ReadImage
    BY <1>2, HeldQuiet DEF ReadImage
  <1>3. CASE FinishImage
    BY <1>3, HeldQuiet DEF FinishImage
  <1>4. CASE CheckKernel
    BY <1>4, HeldQuiet DEF CheckKernel, CheckThen
  <1>5. CASE CountProcessors
    BY <1>5, HeldQuiet DEF CountProcessors
  <1>6. CASE GetTemporaryMap
    BY <1>6, HeldQuiet DEF GetTemporaryMap
  <1>7. CASE GetFinalMap
    BY <1>7, HeldQuiet DEF GetFinalMap
  <1>8. CASE enter_kernel
    BY <1>8, HeldQuiet DEF enter_kernel
  <1>9. CASE UNCHANGED vars
    BY <1>9, HeldQuiet DEF vars
  <1> QED
    BY <1>1, <1>2, <1>3, <1>4, <1>5, <1>6, <1>7, <1>8, <1>9

LEMMA HeldAllocateBootInfo == RoomInv /\ HeldInv /\ AllocateBootInfo => HeldInv'
  <1> SUFFICES ASSUME RoomInv, HeldInv, AllocateBootInfo, ~GoTo("failed") PROVE HeldInv'
    BY HeldFailed
  <1>1. AllocatePool("boot_info") /\ pc' = "boot image" /\ UNCHANGED <<mapVars, loaderVars>>
    BY DEF AllocateBootInfo
  <1>2. Keeps /\ pool'["boot_info"] \in poolPages'
    BY <1>1, KeepsAllocatePool DEF HeldInv
  <1>3. HeldBuffers'
    BY <1>1, <1>2 DEF HeldBuffers, FinalStates
  <1>4. HeldInitrd'
    BY <1>1 DEF HeldInitrd, InitrdStates
  <1> QED
    BY <1>1, <1>2, <1>3, <1>4, HeldFrom DEF mapVars, loaderVars

LEMMA HeldLoadBootImage == RoomInv /\ HeldInv /\ LoadBootImage => HeldInv'
  <1> SUFFICES ASSUME RoomInv, HeldInv, LoadBootImage, ~GoTo("failed") PROVE HeldInv'
    BY HeldFailed
  <1>1. PICK f \in Placements(InitrdPages) :
          /\ AllocatePages(f, InitrdPages) /\ bi' = [bi EXCEPT !.initrd = f]
          /\ pc' = "find kernel"
          /\ UNCHANGED <<pool, poolPages, policy, mapVars, nextPage, image, i, memmap,
                         stackTop, loaded, layout, events>>
    BY DEF LoadBootImage
  <1>2. Keeps /\ \A g \in Span(f, InitrdPages) : Kept(g)'
    BY <1>1, KeepsAllocatePages, ScalarFacts DEF HeldInv
  <1>3. HeldBuffers'
    BY <1>1 DEF HeldInv, HeldBuffers, FinalStates, LoadBootImage
  <1>4. HeldInitrd'
    <2>1. bi'.initrd = f
      BY <1>1 DEF RoomInv
    <2> QED
      BY <1>2, <2>1 DEF HeldInitrd, Kept
  <1> QED
    BY <1>1, <1>2, <1>3, <1>4, HeldFrom DEF mapVars

LEMMA HeldCreatePageTables == RoomInv /\ HeldInv /\ CreatePageTables => HeldInv'
  <1> SUFFICES ASSUME RoomInv, HeldInv, CreatePageTables, ~GoTo("failed") PROVE HeldInv'
    BY HeldFailed
  <1>1. PICK f \in Placements(1) :
          /\ AllocatePages(f, 1) /\ tables' = Linked(TableKey(0, Levels + 1), f) /\ pc' = "image"
          /\ UNCHANGED <<pool, poolPages, policy, mapping, request, done, loaderVars>>
    BY DEF CreatePageTables
  <1>2. Keeps /\ \A g \in Span(f, 1) : Kept(g)'
    BY <1>1, KeepsAllocatePages DEF HeldInv
  <1>3. f \in Span(f, 1)
    BY <1>1, PlacementIsFree DEF Span, Frames
  <1>4. \A k \in DOMAIN tables' :
          Kept(tables[k])' \/ (k \in DOMAIN tables /\ tables'[k] = tables[k])
    BY <1>1, <1>2, <1>3 DEF Linked, Kept
  <1>5. pc = "page tables"
    BY DEF CreatePageTables
  <1> QED
    BY <1>1, <1>2, <1>4, <1>5, HeldStep DEF loaderVars, InitrdStates, FinalStates

LEMMA HeldMapPage == RoomInv /\ HeldInv /\ MapPage => HeldInv'
  <1> SUFFICES ASSUME RoomInv, HeldInv, MapPage PROVE HeldInv'
    OBVIOUS
  <1>1. CASE WritesEntry
    BY <1>1, HeldQuiet, MapPageSteps
    DEF WritesEntry, loaderVars, firmwareVars, InitrdStates, FinalStates, MapStates
  <1>2. ASSUME NEW f \in Placements(1), NEW key, LinksTable(key, f)
        PROVE  HeldInv'
    <2>1. /\ UNCHANGED <<pc, request, pool, poolPages, loaderVars, mapping, done>>
          /\ tables' = Linked(key, f) /\ AllocatePages(f, 1)
      BY <1>2 DEF LinksTable
    <2>2. Keeps /\ \A g \in Span(f, 1) : Kept(g)'
      BY <2>1, KeepsAllocatePages DEF HeldInv
    <2>3. f \in Span(f, 1)
      BY PlacementIsFree DEF Span, Frames
    <2>4. \A k \in DOMAIN tables' :
            Kept(tables[k])' \/ (k \in DOMAIN tables /\ tables'[k] = tables[k])
      BY <2>1, <2>2, <2>3 DEF Linked, Kept
    <2> QED
      BY <2>1, <2>2, <2>4, HeldStep, MapPageSteps
      DEF loaderVars, InitrdStates, FinalStates, MapStates
  <1> QED
    BY <1>1, <1>2, MapPageSteps

LEMMA HeldMapPageFails == RoomInv /\ HeldInv /\ MapPageFails => HeldInv'
  <1> SUFFICES ASSUME RoomInv, HeldInv, MapPageFails, ~GoTo("failed") PROVE HeldInv'
    BY HeldFailed
  <1>1. pc = "segments" /\ DropsImage
    BY MapPageFailsSteps
  <1> QED
    BY <1>1, HeldQuiet DEF DropsImage, firmwareVars, InitrdStates, FinalStates

LEMMA HeldMapSegment == RoomInv /\ HeldInv /\ MapSegment => HeldInv'
  <1> SUFFICES ASSUME RoomInv, HeldInv, MapSegment PROVE HeldInv'
    OBVIOUS
  <1> DEFINE n == Segments[i + 1].count
  <1>1. /\ pc = "segments" /\ i < Len(Segments) /\ UNCHANGED bi
    BY DEF MapSegment
  <1>2. n \in Nat
    BY <1>1, SegmentAt
  <1>3. CASE Placements(n) = {}
    BY <1>1, <1>3, HeldQuiet DEF MapSegment, firmwareVars, mapVars, InitrdStates, FinalStates
  <1>4. CASE Placements(n) # {}
    <2>1. /\ MapNewPages(SegmentBase, n) /\ UNCHANGED <<pc, pool, poolPages>>
      BY <1>4 DEF MapSegment
    <2>2. PICK f \in Placements(n) : AllocatePages(f, n) /\ StartMapping(SegmentBase, f, n)
      BY <2>1 DEF MapNewPages
    <2> HIDE DEF n
    <2>3. Keeps /\ \A g \in Span(f, n) : Kept(g)'
      BY <1>2, <2>1, <2>2, KeepsAllocatePages DEF HeldInv
    <2>4. \A a \in layout' : \/ a \in layout \/ ~(a.vaddr > MemoryPages)
                             \/ \A g \in Span(a.frame, a.count) \cap Frames : Kept(g)'
      BY <2>2, <2>3, AreaAdded
    <2>5. tables' = tables
      BY <2>2 DEF StartMapping
    <2> QED
      BY <1>1, <2>1, <2>3, <2>4, <2>5, HeldStep DEF InitrdStates, FinalStates
  <1> QED
    BY <1>3, <1>4

LEMMA HeldMapStack == RoomInv /\ HeldInv /\ MapStack => HeldInv'
  <1> SUFFICES ASSUME RoomInv, HeldInv, MapStack, ~GoTo("failed") PROVE HeldInv'
    BY HeldFailed
  <1>1. /\ pc = "stacks" /\ MapNewPages(StackBase, StackPages)
        /\ UNCHANGED <<pc, pool, poolPages, bi>>
    BY DEF MapStack
  <1>2. PICK f \in Placements(StackPages) :
          AllocatePages(f, StackPages) /\ StartMapping(StackBase, f, StackPages)
    BY <1>1 DEF MapNewPages
  <1>3. Keeps /\ \A g \in Span(f, StackPages) : Kept(g)'
    BY <1>1, <1>2, ScalarFacts, KeepsAllocatePages DEF HeldInv
  <1>4. \A a \in layout' : \/ a \in layout \/ ~(a.vaddr > MemoryPages)
                           \/ \A g \in Span(a.frame, a.count) \cap Frames : Kept(g)'
    BY <1>2, <1>3, AreaAdded
  <1>5. tables' = tables
    BY <1>2 DEF StartMapping
  <1> QED
    BY <1>1, <1>3, <1>4, <1>5, HeldStep DEF InitrdStates, FinalStates

(* The frame buffer is no RAM. *)
LEMMA HeldMapFramebuffer == RoomInv /\ HeldInv /\ MapFramebuffer => HeldInv'
  <1> SUFFICES ASSUME RoomInv, HeldInv, MapFramebuffer, ~GoTo("failed") PROVE HeldInv'
    BY HeldFailed
  <1>1. /\ pc = "stacks" /\ pc' = "frame buffer"
        /\ StartMapping(nextPage, FramebufferBase, FramebufferPages)
        /\ bi' = [bi EXCEPT !.framebuffer = nextPage]
        /\ UNCHANGED <<type, pool, poolPages>>
    BY DEF MapFramebuffer, firmwareVars
  <1>2. Span(FramebufferBase, FramebufferPages) \cap Frames = {}
    BY ScalarFacts DEF Span, Frames, FramebufferBase
  <1>3. Keeps /\ tables' = tables /\ bi'.initrd = bi.initrd
    BY <1>1, KeepsUnchanged DEF StartMapping, RoomInv, HeldInv
  <1>4. \A a \in layout' : \/ a \in layout \/ ~(a.vaddr > MemoryPages)
                           \/ \A g \in Span(a.frame, a.count) \cap Frames : Kept(g)'
    BY <1>1, <1>2, AreaAdded
  <1> QED
    BY <1>1, <1>3, <1>4, HeldStep DEF InitrdStates, FinalStates

(* The frames of the initrd's file, held since it was read. *)
LEMMA HeldMapInitrd == RoomInv /\ HeldInv /\ MapInitrd => HeldInv'
  <1> SUFFICES ASSUME RoomInv, HeldInv, MapInitrd, ~GoTo("failed") PROVE HeldInv'
    BY HeldFailed
  <1>1. /\ pc = "frame buffer" /\ pc' = "initrd"
        /\ StartMapping(nextPage, bi.initrd, InitrdPages)
        /\ UNCHANGED <<type, pool, poolPages>>
    BY DEF MapInitrd, firmwareVars
  <1>2. Keeps /\ tables' = tables
    BY <1>1, KeepsUnchanged DEF StartMapping, HeldInv
  <1>3. \A g \in Span(bi.initrd, InitrdPages) \cap Frames : Kept(g)'
    BY <1>1, <1>2 DEF HeldInv, HeldInitrd, InitrdStates, Kept
  <1>4. \A a \in layout' : \/ a \in layout \/ ~(a.vaddr > MemoryPages)
                           \/ \A g \in Span(a.frame, a.count) \cap Frames : Kept(g)'
    BY <1>1, <1>3, AreaAdded
  <1> QED
    BY <1>1, <1>2, <1>4, HeldStep DEF InitrdStates, FinalStates

LEMMA HeldMapIdentity == RoomInv /\ HeldInv /\ MapIdentity => HeldInv'
  <1> SUFFICES ASSUME RoomInv, HeldInv, MapIdentity PROVE HeldInv'
    OBVIOUS
  <1> DEFINE f == Min(Owned)
  <1>1. /\ pc = "identity" /\ Owned # {} /\ StartMapping(f, f, 1)
        /\ UNCHANGED <<pc, type, pool, poolPages>>
    BY DEF MapIdentity, firmwareVars
  <1>2. f \in Frames
    <2>1. i \in Nat
      BY <1>1 DEF RoomInv
    <2> QED
      BY <1>1, <2>1, OwnedFacts
  <1> HIDE DEF f
  <1>3. ~(f > MemoryPages)
    BY <1>2, ScalarFacts DEF Frames
  <1>4. Keeps /\ tables' = tables
    BY <1>1, KeepsUnchanged DEF StartMapping, HeldInv
  <1>5. \A a \in layout' : \/ a \in layout \/ ~(a.vaddr > MemoryPages)
                           \/ \A g \in Span(a.frame, a.count) \cap Frames : Kept(g)'
    BY <1>1, <1>3, AreaAdded
  <1> QED
    BY <1>1, <1>4, <1>5, HeldStep DEF InitrdStates, FinalStates

LEMMA HeldSizeMap ==
  ASSUME RoomInv, HeldInv, SizeTemporaryMap \/ SizeFinalMap
  PROVE  HeldInv'
  <1> SUFFICES ASSUME ~GoTo("failed") PROVE HeldInv'
    BY HeldFailed
  <1>1. PICK b \in {"temporary", "final"} :
          /\ AllocatePool(b)
          /\ pc' = IF b = "final" THEN "get final" ELSE "get temporary"
          /\ pc \in {"initrd", "final map"}
          /\ UNCHANGED <<mapVars, bi, layout>>
    BY DEF SizeTemporaryMap, SizeFinalMap, SizeMap
  <1>2. /\ Keeps /\ pool'[b] \in poolPages' /\ poolPages \subseteq poolPages'
        /\ \A c \in DOMAIN pool \ {b} : pool'[c] = pool[c]
    BY <1>1, KeepsAllocatePool DEF HeldInv
  <1>3. HeldBuffers'
    <2>1. "boot_info" \in DOMAIN pool \ {b}
      BY <1>1 DEF RoomInv, LoaderTypeOK
    <2>2. pool'["boot_info"] = pool["boot_info"] /\ pool["boot_info"] \in poolPages
      BY <1>1, <1>2, <2>1 DEF HeldInv, HeldBuffers
    <2> QED
      BY <1>1, <1>2, <2>2 DEF HeldBuffers, FinalStates
  <1>4. HeldInitrd'
    BY <1>1 DEF HeldInitrd, InitrdStates
  <1> QED
    BY <1>1, <1>2, <1>3, <1>4, HeldFrom DEF mapVars

LEMMA HeldCheckMappings == RoomInv /\ HeldInv /\ CheckMappings => HeldInv'
  <1> SUFFICES ASSUME RoomInv, HeldInv, CheckMappings PROVE HeldInv'
    OBVIOUS
  <1>1. /\ pc = "identity" /\ FreePool("temporary") /\ pc' \in {"final map", "failed"}
        /\ UNCHANGED <<mapVars, layout>>
    BY DEF CheckMappings, CheckThen
  <1>2. pool["boot_info"] \in poolPages
    BY <1>1 DEF HeldInv, HeldBuffers
  <1>3. Keeps /\ pool'["boot_info"] \in poolPages'
    BY <1>1, <1>2, KeepsFreePool DEF HeldInv
  <1>4. HeldBuffers' /\ HeldInitrd'
    BY <1>1, <1>3 DEF HeldBuffers, HeldInitrd, FinalStates, InitrdStates
  <1> QED
    BY <1>1, <1>3, <1>4, HeldFrom DEF mapVars

LEMMA HeldFirmwareEvent == RoomInv /\ HeldInv /\ FirmwareEvent => HeldInv'
  <1> SUFFICES ASSUME RoomInv, HeldInv, FirmwareEvent PROVE HeldInv'
    OBVIOUS
  <1>1. Keeps
    BY KeepsFirmwareEvent DEF HeldInv
  <1> QED
    BY <1>1, HeldStep DEF FirmwareEvent, mapVars, InitrdStates, FinalStates

LEMMA HeldInit == Init => HeldInv
  <1> SUFFICES ASSUME Init PROVE HeldInv
    OBVIOUS
  <1>1. pc = "boot info" /\ layout = {} /\ poolPages = {}
    BY DEF Init
  <1>2. tables = <<>> /\ pool = [b \in {"boot_info", "temporary", "final"} |-> Absent]
    BY DEF Init
  <1>3. DOMAIN tables = {} /\ \A b \in DOMAIN pool : pool[b] = Absent
    BY <1>2
  <1> QED
    BY <1>1, <1>3
    DEF HeldInv, HeldTables, HeldAreas, HeldInitrd, HeldPool, HeldBuffers, InitrdStates, FinalStates

LEMMA HeldNext == RoomInv /\ HeldInv /\ [Next]_vars => HeldInv'
  BY HeldOthers, HeldAllocateBootInfo, HeldLoadBootImage, HeldCreatePageTables, HeldMapPage,
     HeldMapPageFails, HeldMapSegment, HeldMapStack, HeldMapFramebuffer, HeldMapInitrd,
     HeldMapIdentity, HeldSizeMap, HeldCheckMappings, HeldFirmwareEvent
  DEF Next

(* A frame the firmware gave for a table, for an area, for the initrd or for
   a buffer is the loader's until the end: no later call hands it out again
   or frees it (virtual.cpp:420-444, 478-556).                        *)
THEOREM FramesAreHeld == Spec => []HeldInv
  BY HeldInit, HeldNext, RoomIsKept, PTL DEF Spec
-----------------------------------------------------------------------------
(* The key of the map that was copied, and the map that is passed. *)
LEMMA KeyNext == RoomInv /\ KeyInv /\ [Next]_vars => KeyInv'
  <1> SUFFICES ASSUME RoomInv, KeyInv, [Next]_vars PROVE KeyInv'
    OBVIOUS
  <1> USE DEF KeyInv, KernelSeesFinalMap, AtKernel
  <1>1. CASE GetFinalMap
    <2>1. CASE GoTo("failed")
      BY <2>1 DEF GoTo
    <2>2. CASE ~GoTo("failed")
      <3>1. /\ memmap' = CopiedMap /\ pc' = "exit" /\ bi' = [bi EXCEPT !.map = type]
            /\ UNCHANGED <<mapKey, type>>
        BY <1>1, <2>2 DEF GetFinalMap, PassedMap, firmwareVars
      <3>2. memmap'.key = mapKey /\ bi'.map = type /\ mapKey \in Nat
        BY <3>1 DEF RoomInv, LoaderTypeOK, CopiedMap
      <3> QED
        BY <3>1, <3>2
    <2> QED
      BY <2>1, <2>2
  <1>2. CASE FirmwareEvent
    <2>1. mapKey' = mapKey + 1 /\ UNCHANGED <<pc, memmap, bi>> /\ pc # "entered"
      BY <1>2 DEF FirmwareEvent, Retype
    <2>2. mapKey \in Nat /\ memmap.key \in Nat
      BY DEF RoomInv, LoaderTypeOK
    <2> QED
      BY <2>1, <2>2
  <1>3. CASE enter_kernel
    BY <1>3 DEF enter_kernel, GoTo, firmwareVars, loaderVars
  <1>4. CASE UNCHANGED vars
    BY <1>4 DEF vars, firmwareVars, loaderVars
  <1>5. CASE Next /\ ~GetFinalMap /\ ~FirmwareEvent /\ ~enter_kernel
    <2>1. pc' \notin {"exit", "entered"}
      BY <1>5
      DEF Next, AllocateBootInfo, LoadBootImage, FindKernel, CreatePageTables, ReadImage,
          MapSegment, FinishImage, CheckKernel, CheckThen, CountProcessors, MapStack,
          MapFramebuffer, MapInitrd, SizeTemporaryMap, GetTemporaryMap, MapIdentity,
          CheckMappings, SizeFinalMap, SizeMap, MapPage, MapPageFails, GoTo
    <2> QED
      BY <2>1
  <1> QED
    BY <1>1, <1>2, <1>3, <1>4, <1>5

(* While the key that was copied is the firmware's, so is the map that is
   passed (virtual.cpp:46-99).                                            *)
THEOREM KeyIsKept == Spec => []KeyInv
  <1>1. Init => KeyInv
    BY DEF Init, KeyInv, KernelSeesFinalMap, AtKernel
  <1> QED
    BY <1>1, KeyNext, RoomIsKept, PTL DEF Spec

(* The map the kernel gets is the firmware's last one, and none of the pages
   it runs on is free in it (virtual.cpp:46-99, 142-355; main.cpp).       *)
THEOREM KernelMapIsTrue == Spec => []MapIsTrue
  <1>1. RoomInv /\ HeldInv /\ KeyInv => MapIsTrue
    <2> SUFFICES ASSUME RoomInv, HeldInv, KeyInv, AtKernel, NEW f \in InUse \cap Frames
                 PROVE  bi.map[f] # "Conventional"
      BY DEF MapIsTrue, FreeIsFree, KeyInv
    <2>1. bi.map = type /\ pc = "entered"
      BY DEF KeyInv, KernelSeesFinalMap, AtKernel
    <2>2. CASE \E k \in DOMAIN tables : f = tables[k]
      BY <2>1, <2>2 DEF HeldInv, HeldTables, Kept
    <2>3. CASE \E a \in layout : a.vaddr > MemoryPages /\ f \in Span(a.frame, a.count)
      BY <2>1, <2>3 DEF HeldInv, HeldAreas, Kept
    <2>4. CASE f \in {pool["boot_info"], pool["final"]}
      BY <2>1, <2>4 DEF HeldInv, HeldPool, HeldBuffers, FinalStates
    <2>5. \/ f \in {tables[k] : k \in DOMAIN tables}
          \/ f \in UNION {Span(a.frame, a.count) : a \in {b \in layout : b.vaddr > MemoryPages}}
          \/ f \in {pool["boot_info"], pool["final"]}
      BY DEF InUse
    <2>6. f \in {tables[k] : k \in DOMAIN tables} => \E k \in DOMAIN tables : f = tables[k]
      OBVIOUS
    <2>7. f \in UNION {Span(a.frame, a.count) : a \in {b \in layout : b.vaddr > MemoryPages}}
            => \E a \in layout : a.vaddr > MemoryPages /\ f \in Span(a.frame, a.count)
      OBVIOUS
    <2> QED
      BY <2>2, <2>3, <2>4, <2>5, <2>6, <2>7
  <1> QED
    BY <1>1, RoomIsKept, FramesAreHeld, KeyIsKept, PTL

-----------------------------------------------------------------------------
(* Nothing becomes loader code. *)
CodeStays == \A f \in Frames : type'[f] = "LoaderCode" => type[f] = "LoaderCode"

LEMMA CodeStaysRetype ==
  ASSUME NEW set, NEW t \in {"LoaderData", "BootServicesData", "Conventional"}, Retype(set, t)
  PROVE  CodeStays
  BY DEF Retype, CodeStays

LEMMA CodeStaysPool ==
  ASSUME NEW b, AllocatePool(b) \/ FreePool(b)
  PROVE  CodeStays
  <1>1. CASE AllocatePool(b)
    <2>1. PICK f \in poolPages \cup Placements(1) :
            IF f \in poolPages THEN UNCHANGED <<type, mapKey>> ELSE AllocatePages(f, 1)
      BY <1>1 DEF AllocatePool
    <2> QED
      BY <2>1, CodeStaysRetype DEF AllocatePages, CodeStays
  <1>2. CASE FreePool(b)
    <2>1. UNCHANGED type \/ Retype({pool[b]}, "Conventional")
      BY <1>2 DEF FreePool
    <2> QED
      BY <2>1, CodeStaysRetype DEF CodeStays
  <1> QED
    BY <1>1, <1>2

LEMMA IdentityGetTemporaryMap ==
  ASSUME RoomInv, HeldInv, GetTemporaryMap, ~GoTo("failed")
  PROVE  IdentityInv'
  <1>1. /\ pc = "get temporary" /\ memmap' = CopiedMap /\ pc' = "identity"
        /\ UNCHANGED <<type, pool, request, done>>
    BY DEF GetTemporaryMap, firmwareVars, mapVars
  <1>2. i' = 0
    BY DEF GetTemporaryMap
  <1>3. memmap'.types = type /\ DOMAIN type = Frames
    BY <1>1 DEF RoomInv, LoaderTypeOK, CopiedMap
  <1>4. type[pool["boot_info"]] = "LoaderData"
    BY <1>1 DEF HeldInv, HeldBuffers, HeldPool
  <1>5. Settled'
    BY <1>1 DEF RoomInv, Settled
  <1>6. \A f \in Frames : ~(f < i') /\ f # i'
    BY <1>2 DEF Frames
  <1> QED
    BY <1>1, <1>3, <1>4, <1>5, <1>6 DEF IdentityInv, Handing

LEMMA IdentityMapIdentity ==
  ASSUME RoomInv, IdentityInv, MapIdentity
  PROVE  IdentityInv'
  <1> DEFINE m == Min(Owned)
  <1>1. /\ pc = "identity" /\ Settled /\ Owned # {} /\ StartMapping(m, m, 1) /\ i' = m
        /\ UNCHANGED <<pc, type, pool, memmap>>
    BY DEF MapIdentity, firmwareVars
  <1>2. i \in 0 .. MemoryPages /\ i \in Nat
    BY <1>1, ScalarFacts DEF RoomInv
  <1>3. /\ m \in Frames /\ m > i
        /\ \A f \in Frames : i < f /\ f < m => ~OwnedType(memmap.types[f])
    BY <1>1, <1>2, OwnedFacts
  <1> HIDE DEF m
  <1>4. request' = [vaddr |-> m, frame |-> m, count |-> 1] /\ done' \in 0 .. 0 /\ mapping' = mapping
    <2>1. done' = 0
      BY <1>1 DEF StartMapping
    <2> QED
      BY <1>1, <2>1 DEF StartMapping
  <1>5. ~Settled'
    BY <1>4 DEF Settled
  <1>6. ASSUME NEW f \in Frames, f < m, OwnedType(memmap.types[f]) PROVE mapping[f] = f
    <2>1. f < i \/ f = i
      BY <1>2, <1>3, <1>6 DEF Frames
    <2> QED
      BY <1>1, <1>6, <2>1 DEF IdentityInv
  <1> QED
    BY <1>1, <1>4, <1>5, <1>6 DEF IdentityInv, Handing

LEMMA IdentityMapPage ==
  ASSUME RoomInv, IdentityInv, MapPage
  PROVE  IdentityInv'
  <1>1. CASE pc # "identity"
    <2>1. pc' \notin {"identity"} \cup Handing
      BY <1>1 DEF MapPage, Handing
    <2> QED
      BY <2>1 DEF IdentityInv
  <1>2. CASE pc = "identity" /\ WritesEntry
    <2>1. /\ mapping' = [mapping EXCEPT ![NextEntry.page] = NextEntry.frame]
          /\ done' = done + 1 /\ UNCHANGED <<pc, request, type, pool, memmap, i>>
      BY <1>2 DEF WritesEntry, firmwareVars, loaderVars
    <2>2. request = [vaddr |-> i, frame |-> i, count |-> 1]
      BY <1>2 DEF IdentityInv, MapPage
    <2>3. request.vaddr = i /\ request.frame = i /\ request.count = 1
      BY <2>2
    <2>4. done < request.count /\ done \in Nat /\ NextEntry.page = request.vaddr + done
          /\ NextEntry.frame = request.frame + done /\ NextEntry.page \in Pages
      BY MapPageSteps
    <2>5. i \in 0 .. MemoryPages /\ i \in Nat
      BY <1>2, ScalarFacts DEF RoomInv
    <2>6. done \in 0 .. 0
      BY <2>3, <2>4
    <2>7. NextEntry.page = i /\ NextEntry.frame = i
      BY <2>3, <2>4, <2>5, <2>6
    <2>8. mapping' = [mapping EXCEPT ![i] = i] /\ i \in DOMAIN mapping
      <3>1. i \in Pages
        BY <2>4, <2>7
      <3>2. DOMAIN mapping = Pages
        BY DEF RoomInv, LoaderTypeOK
      <3>3. mapping' = [mapping EXCEPT ![i] = i]
        BY <2>1, <2>7, Zenon
      <3> QED
        BY <3>1, <3>2, <3>3
    <2>9. Settled'
      BY <2>1, <2>3, <2>6 DEF Settled
    <2>10. \A f \in Frames : (f < i \/ f = i) /\ OwnedType(memmap.types[f]) => mapping'[f] = f
      BY <1>2, <2>5, <2>8 DEF IdentityInv, Frames
    <2> QED
      BY <1>2, <2>1, <2>9, <2>10 DEF IdentityInv, Handing
  <1>3. ASSUME pc = "identity", NEW f \in Placements(1), NEW key, LinksTable(key, f)
        PROVE  IdentityInv'
    <2>1. AllocatePages(f, 1) /\ UNCHANGED <<pc, request, pool, mapping, done, memmap, i>>
      BY <1>3 DEF LinksTable, loaderVars
    <2>2. CodeStays
      BY <2>1, CodeStaysRetype DEF AllocatePages
    <2> QED
      BY <1>3, <2>1, <2>2 DEF IdentityInv, CodeStays, Handing, Settled
  <1> QED
    BY <1>1, <1>2, <1>3, MapPageSteps

LEMMA IdentityCheckMappings ==
  ASSUME RoomInv, HeldInv, IdentityInv, CheckMappings
  PROVE  IdentityInv'
  <1>1. /\ pc = "identity" /\ Settled /\ Owned = {} /\ FreePool("temporary")
        /\ pc' \in {"final map", "failed"} /\ mapping' = mapping
    BY DEF CheckMappings, CheckThen, mapVars
  <1>2. pool["boot_info"] \in poolPages /\ poolPages \subseteq Frames /\ i \in 0 .. MemoryPages
    BY <1>1 DEF HeldInv, HeldBuffers, RoomInv, LoaderTypeOK
  <1>3. ASSUME NEW f \in Frames, OwnedType(memmap.types[f]) PROVE mapping[f] = f
    <2>1. ~(f > i)
      BY <1>1, <1>3 DEF Owned, OwnedType
    <2>2. f < i \/ f = i
      BY <1>2, <2>1, ScalarFacts DEF Frames
    <2> QED
      BY <1>1, <1>3, <2>2 DEF IdentityInv
  <1>4. pool'["boot_info"] = pool["boot_info"] /\ CodeStays
    BY <1>1, <1>2, KeepsFreePool, CodeStaysPool DEF HeldInv
  <1>5. mapping[pool["boot_info"]] = pool["boot_info"]
    BY <1>1, <1>2, <1>3 DEF IdentityInv, OwnedType
  <1>6. \A f \in Frames : type[f] = "LoaderCode" => mapping[f] = f
    BY <1>1, <1>3 DEF IdentityInv, OwnedType
  <1> QED
    BY <1>1, <1>4, <1>5, <1>6 DEF IdentityInv, CodeStays

LEMMA IdentityHanding ==
  ASSUME IdentityInv, pc \in Handing, pc' \in Handing \cup {"failed"},
         CodeStays, mapping' = mapping, pool'["boot_info"] = pool["boot_info"]
  PROVE  IdentityInv'
  BY DEF IdentityInv, CodeStays, Handing

LEMMA IdentityNext == RoomInv /\ HeldInv /\ IdentityInv /\ [Next]_vars => IdentityInv'
  <1> SUFFICES ASSUME RoomInv, HeldInv, IdentityInv, [Next]_vars, pc' # "failed"
               PROVE  IdentityInv'
    BY DEF IdentityInv, Handing
  <1>1. CASE SizeFinalMap
    <2>1. pc = "final map" /\ AllocatePool("final") /\ pc' = "get final" /\ mapping' = mapping
      BY <1>1 DEF SizeFinalMap, SizeMap, GoTo, mapVars
    <2>2. pool'["boot_info"] = pool["boot_info"]
      <3>1. "boot_info" \in DOMAIN pool \ {"final"}
        BY DEF RoomInv, LoaderTypeOK
      <3> QED
        BY <2>1, <3>1, KeepsAllocatePool DEF HeldInv
    <2> QED
      BY <2>1, <2>2, CodeStaysPool, IdentityHanding DEF Handing
  <1>2. CASE FirmwareEvent
    <2>1. CodeStays
      <3>1. PICK f \in Frames : Retype({f}, "BootServicesData") \/ Retype({f}, "Conventional")
        BY <1>2 DEF FirmwareEvent
      <3> QED
        BY <3>1, CodeStaysRetype
    <2>2. pc \in {"get temporary", "get final", "exit"} /\ UNCHANGED <<pc, pool, mapping>>
      BY <1>2 DEF FirmwareEvent, mapVars
    <2>3. CASE pc = "get temporary"
      BY <2>2, <2>3 DEF IdentityInv, Handing
    <2>4. CASE pc # "get temporary"
      BY <2>1, <2>2, <2>4, IdentityHanding DEF Handing
    <2> QED
      BY <2>3, <2>4
  <1>3. CASE GetFinalMap \/ enter_kernel
    <2>1. pc \in Handing /\ pc' \in Handing \cup {"failed"} /\ UNCHANGED <<type, mapping, pool>>
      BY <1>3 DEF GetFinalMap, enter_kernel, GoTo, Handing, firmwareVars, mapVars
    <2> QED
      BY <2>1, IdentityHanding DEF CodeStays
  <1>4. CASE UNCHANGED vars
    BY <1>4 DEF IdentityInv, vars, firmwareVars, mapVars, loaderVars, Settled
  <1>5. CASE \/ AllocateBootInfo \/ LoadBootImage \/ FindKernel \/ CreatePageTables \/ ReadImage
             \/ MapSegment \/ FinishImage \/ CheckKernel \/ CountProcessors \/ MapStack
             \/ MapFramebuffer \/ MapInitrd \/ SizeTemporaryMap \/ MapPageFails
    <2>1. pc' \notin {"identity"} \cup Handing
      BY <1>5
      DEF AllocateBootInfo, LoadBootImage, FindKernel, CreatePageTables, ReadImage, MapSegment,
          FinishImage, CheckKernel, CheckThen, CountProcessors, MapStack, MapFramebuffer,
          MapInitrd, SizeTemporaryMap, SizeMap, MapPageFails, GoTo, Handing
    <2> QED
      BY <2>1 DEF IdentityInv
  <1>6. CASE GetTemporaryMap
    BY <1>6, IdentityGetTemporaryMap DEF GoTo
  <1> QED
    BY <1>1, <1>2, <1>3, <1>4, <1>5, <1>6, IdentityMapIdentity, IdentityMapPage,
       IdentityCheckMappings
    DEF Next

(* Every page of the loader up to the one the loop has reached is mapped to
   itself, and stays so, whatever is mapped meanwhile (virtual.cpp:223-281). *)
THEOREM IdentityIsKept == Spec => []IdentityInv
  <1>1. Init => IdentityInv
    BY DEF Init, IdentityInv, Handing
  <1> QED
    BY <1>1, IdentityNext, RoomIsKept, FramesAreHeld, PTL DEF Spec

(* The code that switches page tables and the boot information are mapped
   one to one when it does (virtual.cpp:223-281).                         *)
THEOREM HandoffIsMapped == Spec => []HandoffMapped
  <1>1. IdentityInv => HandoffMapped
    BY DEF IdentityInv, HandoffMapped, AtKernel, Handing
  <1> QED
    BY <1>1, IdentityIsKept, PTL

-----------------------------------------------------------------------------
(* Facts the areas' proofs compute with. *)
LEMMA GuardFacts ==
  ASSUME RoomInv
  PROVE  /\ Guard(0) = stackTop - StackPages - 1
         /\ \A n \in Nat : /\ Guard(n) \in Int /\ Guard(n + 1) = Guard(n) + StackPages + 1
                           /\ Guard(0) <= Guard(n)
         /\ \A m, n \in Nat : m < n => Guard(m) + StackPages + 1 <= Guard(n)
  <1>1. stackTop \in Nat /\ StackPages \in Nat
    BY ScalarFacts DEF RoomInv
  <1>2. /\ StackRoom(0) = 0
        /\ \A n \in Nat : StackRoom(n) \in Nat /\ StackRoom(n + 1) = StackRoom(n) + StackPages + 1
        /\ \A m, n \in Nat : m < n => StackRoom(m) + StackPages + 1 <= StackRoom(n)
    BY StackRoomFacts
  <1>3. Guard(0) = stackTop - StackPages - 1
    BY <1>1, <1>2 DEF Guard
  <1>4. ASSUME NEW n \in Nat
        PROVE  Guard(n) \in Int /\ Guard(n + 1) = Guard(n) + StackPages + 1 /\ Guard(0) <= Guard(n)
    <2>1. StackRoom(n) \in Nat /\ StackRoom(n + 1) = StackRoom(n) + StackPages + 1
      BY <1>2
    <2> QED
      BY <1>1, <1>3, <2>1 DEF Guard
  <1>5. ASSUME NEW m \in Nat, NEW n \in Nat, m < n
        PROVE  Guard(m) + StackPages + 1 <= Guard(n)
    <2>1. /\ StackRoom(m) \in Nat /\ StackRoom(n) \in Nat
          /\ StackRoom(m) + StackPages + 1 <= StackRoom(n)
      BY <1>2, <1>5
    <2> QED
      BY <1>1, <2>1 DEF Guard
  <1> QED
    BY <1>3, <1>4, <1>5

LEMMA AreaTypes ==
  ASSUME LoaderTypeOK, NEW a \in layout
  PROVE  a.vaddr \in Nat /\ a.frame \in Nat /\ a.count \in Nat
  <1>1. a \in Requests
    BY DEF LoaderTypeOK
  <1>2. a.vaddr \in Pages /\ a.count \in 0 .. VirtualPages
    BY <1>1 DEF Requests
  <1>3. a.frame \in 0 .. (FramebufferBase + FramebufferPages)
    BY <1>1 DEF Requests
  <1> QED
    BY <1>2, <1>3, ScalarFacts DEF Pages, FramebufferBase

TopOK == Top \in Nat /\ nextPage \in Nat /\ nextPage <= Top /\ (pc # "segments" => Top = nextPage)

LEMMA TopType == LoaderTypeOK => TopOK
  <1> SUFFICES ASSUME LoaderTypeOK PROVE TopOK
    OBVIOUS
  <1>1. nextPage \in Nat /\ request.count \in Nat
    BY RequestTypes DEF LoaderTypeOK
  <1> QED
    BY <1>1 DEF Top, TopOK

LEMMA TopTypeNext == LoaderTypeOK' => TopOK'
  BY TopType, PTL

LowStates == {"segments", "stacks", "frame buffer", "initrd"}

(* An area that begins behind all the others. *)
LEMMA AreaStart ==
  ASSUME RoomInv, LoaderTypeOK', AreasPlaced, AreasMapped, Settled,
         NEW v \in Nat, NEW f \in Nat, NEW n \in Nat, StartMapping(v, f, n),
         pc \in LowStates, pc' \in LowStates, Top <= v, v + n <= Top',
         ImageBase <= nextPage', pc' = "segments" => Top <= nextPage'
  PROVE  AreasPlaced' /\ AreasMapped'
  <1>1. /\ request' = [vaddr |-> v, frame |-> f, count |-> n]
        /\ layout' = layout \cup {request'} /\ mapping' = mapping
    BY DEF StartMapping
  <1>2. request'.vaddr = v /\ request'.count = n /\ done' \in 0 .. 0
    <2>1. done' = 0
      BY DEF StartMapping
    <2> QED
      BY <1>1, <2>1
  <1>3. Top \in Nat /\ Top' \in Nat /\ nextPage \in Nat /\ nextPage <= Top /\ nextPage' \in Nat
    BY TopType, TopTypeNext DEF RoomInv, TopOK
  <1>4. ImageBase \in Nat /\ ImageBase <= v
    BY <1>3, ConstantFacts DEF AreasPlaced
  <1>5. ASSUME NEW a \in layout
        PROVE  /\ ImageBase <= a.vaddr /\ a.vaddr + a.count <= Top
               /\ a.vaddr \in Nat /\ a.count \in Nat
    BY AreaTypes DEF RoomInv, AreasPlaced, IdentityArea, HighArea, Handing, LowStates
  <1>6. AreasPlaced'
    <2>1. \A a \in layout' : ImageBase <= a.vaddr /\ a.vaddr + a.count <= Top'
      BY <1>1, <1>2, <1>3, <1>4, <1>5
    <2>2. \A a \in layout' \ {request'} : a.vaddr + a.count <= request'.vaddr
      BY <1>1, <1>2, <1>3, <1>5
    <2>3. pc' = "segments" => \A a \in layout' \ {request'} : a.vaddr + a.count <= nextPage'
      BY <1>1, <1>3, <1>5
    <2>4. ImageBase <= request'.vaddr /\ request'.vaddr + request'.count <= Top'
      BY <1>2, <1>4
    <2> QED
      BY <2>1, <2>2, <2>3, <2>4 DEF AreasPlaced, HighArea
  <1>7. AreasMapped'
    <2>1. ASSUME NEW a \in layout', NEW k \in 0 .. (a.count - 1), a # request' \/ k < done'
          PROVE  mapping'[a.vaddr + k] = a.frame + k
      <3>1. ~(k < done')
        BY <1>2
      <3>2. a \in layout
        BY <1>1, <2>1, <3>1
      <3>3. a # request \/ k < done
        BY <1>5, <3>2 DEF Settled
      <3> QED
        BY <1>1, <3>2, <3>3 DEF AreasMapped
    <2> QED
      BY <2>1 DEF AreasMapped
  <1> QED
    BY <1>6, <1>7

LEMMA NothingBeyondGrows ==
  ASSUME LoaderTypeOK, LoaderTypeOK', NothingBeyond, ~Starved, mapping' = mapping, Top <= Top'
  PROVE  NothingBeyond'
  <1>1. Top \in Nat /\ Top' \in Nat
    BY TopType, TopTypeNext DEF TopOK
  <1>2. \A v \in Pages : v >= Top' => v >= Top
    BY <1>1 DEF Pages
  <1> QED
    BY <1>2 DEF NothingBeyond

(* While memory can be had, the loader has not been starved of it. *)
LEMMA NotStarved ==
  ASSUME NEW n \in Nat, NEW f \in Placements(n)
  PROVE  ~Starved
  <1>1. f \in Frames /\ f \in Span(f, n) /\ type[f] = "Conventional"
    BY PlacementIsFree DEF Span, Frames
  <1> QED
    BY <1>1 DEF Starved

LEMMA EmptyRange == \A n : n = 0 => \A c \in 0 .. (n - 1) : FALSE
  OBVIOUS

LEMMA NoStackYet == pc' \in {"segments", "check kernel", "processors"} => StacksPlaced'
  <1> SUFFICES ASSUME pc' \in {"segments", "check kernel", "processors"} PROVE StacksPlaced'
    OBVIOUS
  <1>1. pc' # "stacks" /\ pc' \notin {"frame buffer"} \cup Late
    BY DEF Late, Handing
  <1>2. \A cpu \in 0 .. (StacksMapped' - 1) : FALSE
    <2>1. StacksMapped' = 0
      BY <1>1 DEF StacksMapped
    <2> QED
      BY <2>1, EmptyRange, Zenon
  <1> QED
    BY <1>1, <1>2 DEF StacksPlaced, Late

LEMMA AreaReadImage ==
  ASSUME RoomInv, RoomInv', AreaInv, ReadImage, image'.kind = "elf"
  PROVE  AreaParts'
  <1>1. /\ pc = "image" /\ image.kind = "elf" /\ nextPage' = ImageBase /\ pc' = "segments"
        /\ UNCHANGED <<mapping, request, layout, i>>
    BY DEF ReadImage, mapVars, ImageBase
  <1>2. layout = {} /\ request.count = 0 /\ \A v \in Pages : mapping[v] = Absent
    BY <1>1 DEF RoomInv, AreaInv, Early
  <1>3. i = 0
    BY <1>1 DEF RoomInv, Early
  <1>4. ImageBase <= nextPage' /\ ~(request'.count > 0)
    BY <1>1, <1>2, ConstantFacts
  <1>5. AreasPlaced' /\ AreasMapped' /\ NothingBeyond'
    BY <1>1, <1>2, <1>4 DEF AreasPlaced, AreasMapped, NothingBeyond
  <1>6. StacksPlaced'
    BY <1>1, NoStackYet
  <1>7. SegmentsPlaced' /\ EndPlaced'
    <2>1. SegmentsMapped' \in 0 .. 0
      BY <1>1, <1>3 DEF SegmentsMapped
    <2> QED
      BY <1>1, <2>1 DEF SegmentsPlaced, EndPlaced, Late, Handing
  <1> QED
    BY <1>5, <1>6, <1>7 DEF AreaParts

LEMMA AreaMapSegment ==
  ASSUME RoomInv, RoomInv', AreaParts, MapSegment
  PROVE  AreaParts'
  <1> DEFINE n == Segments[i + 1].count
  <1>1. /\ pc = "segments" /\ Settled /\ i < Len(Segments) /\ nextPage' = SegmentBase
        /\ UNCHANGED <<image, bi, stackTop>>
    BY DEF MapSegment
  <1>2. /\ SegmentBase = Segments[i + 1].page /\ i + 1 \in 1 .. Len(Segments)
        /\ SegmentBase \in Nat /\ n \in Nat /\ i \in Nat
    BY <1>1, SegmentAt
  <1>3. Top = SegmentBase /\ ImageBase <= SegmentBase
    <2>1. Top = SegmentBase
      BY <1>1 DEF Top, SegmentBase
    <2> QED
      <3>1. nextPage \in Nat /\ nextPage <= Top /\ Top \in Nat /\ ImageBase \in Nat
        BY TopType, ConstantFacts DEF RoomInv, TopOK
      <3>2. ImageBase <= nextPage
        BY DEF AreaParts, AreasPlaced
      <3> QED
        BY <2>1, <3>1, <3>2
  <1>4. ~Starved
    BY <1>1 DEF Starved
  <1> HIDE DEF n
  <1>5. CASE Placements(n) = {}
    <2>1. /\ pc' = "check kernel" /\ loaded' = i
          /\ UNCHANGED <<request, done, mapping, layout, i>>
      BY <1>5 DEF MapSegment, mapVars, n
    <2>2. Top' = Top
      BY <1>1, <1>3, <2>1 DEF Top
    <2>3. \A a \in layout : HighArea(a) /\ HighArea(a)'
      BY <1>1, <2>2 DEF AreaParts, AreasPlaced, IdentityArea, HighArea, Handing
    <2>4. request.count > 0 => HighArea(request)'
      BY <1>1, <2>1, <2>2 DEF AreaParts, AreasPlaced, IdentityArea, HighArea, Handing
    <2>5. AreasPlaced'
      BY <1>1, <1>3, <2>1, <2>3, <2>4 DEF AreaParts, AreasPlaced, HighArea
    <2>6. AreasMapped'
      BY <2>1 DEF AreaParts, AreasMapped
    <2>7. NothingBeyond'
      BY <1>4, <2>1, <2>2 DEF AreaParts, NothingBeyond
    <2>8. StacksPlaced'
      BY <2>1, NoStackYet
    <2>9. SegmentsPlaced' /\ EndPlaced'
      BY <1>1, <2>1
      DEF AreaParts, SegmentsPlaced, SegmentsMapped, EndPlaced, Late, Handing
    <2> QED
      BY <2>5, <2>6, <2>7, <2>8, <2>9 DEF AreaParts
  <1>6. CASE Placements(n) # {}
    <2>1. /\ MapNewPages(SegmentBase, n) /\ i' = i + 1 /\ UNCHANGED <<pc, loaded>>
      BY <1>6 DEF MapSegment, n
    <2>2. PICK f \in Placements(n) : StartMapping(SegmentBase, f, n)
      BY <2>1 DEF MapNewPages
    <2>3. f \in Nat /\ n > 0
      BY <1>2, <2>2, PlacementIsFree DEF Frames
    <2>4. request' = [vaddr |-> SegmentBase, frame |-> f, count |-> n]
          /\ layout' = layout \cup {request'} /\ mapping' = mapping
      BY <2>2 DEF StartMapping
    <2>5. request'.vaddr = SegmentBase /\ request'.count = n
      BY <2>4
    <2>6. Top' = SegmentBase + n
      BY <1>1, <2>1, <2>5 DEF Top
    <2>7. Top <= SegmentBase /\ SegmentBase + n <= Top' /\ ImageBase <= nextPage' /\ Top <= nextPage'
          /\ Top <= Top'
      BY <1>1, <1>2, <1>3, <2>6
    <2>8. AreasPlaced' /\ AreasMapped'
      BY <1>1, <1>2, <2>1, <2>2, <2>3, <2>7, AreaStart DEF RoomInv, AreaParts, LowStates
    <2>9. NothingBeyond'
      BY <1>4, <2>4, <2>7, NothingBeyondGrows DEF RoomInv, AreaParts
    <2>10. StacksPlaced'
      BY <1>1, <2>1, NoStackYet
    <2>11. SegmentsPlaced'
      <3>1. ASSUME NEW k \in 1 .. (i + 1)
            PROVE  \E a \in layout' : /\ a.vaddr = Segments[k].page /\ a.count = Segments[k].count
                                      /\ k < i + 1 => a # request'
        <4>1. CASE k = i + 1
          BY <1>2, <2>4, <2>5, <4>1 DEF n
        <4>2. CASE k # i + 1
          <5>1. k \in 1 .. i
            BY <1>2, <4>2
          <5>2. PICK a \in layout : a.vaddr = Segments[k].page /\ a.count = Segments[k].count
            BY <1>1, <5>1 DEF AreaParts, SegmentsPlaced, SegmentsMapped
          <5>3. a.vaddr + a.count <= Top /\ a.vaddr \in Nat /\ a.count \in Nat
            BY <1>1, <5>2, AreaTypes
            DEF RoomInv, AreaParts, AreasPlaced, IdentityArea, HighArea, Handing
          <5>4. a # request'
            BY <1>2, <1>3, <2>3, <2>5, <5>3
          <5> QED
            BY <2>4, <5>2, <5>4
        <4> QED
          BY <4>1, <4>2
      <3>2. SegmentsMapped' = i + 1 /\ i' = i + 1
        BY <1>1, <2>1 DEF SegmentsMapped
      <3> QED
        BY <3>1, <3>2 DEF SegmentsPlaced
    <2>12. EndPlaced'
      BY <1>1, <2>1 DEF EndPlaced, Late, Handing
    <2> QED
      BY <2>8, <2>9, <2>10, <2>11, <2>12 DEF AreaParts
  <1> QED
    BY <1>5, <1>6

LEMMA AreaMapPageFails ==
  ASSUME RoomInv, RoomInv', AreaParts, MapPageFails, ~GoTo("failed")
  PROVE  AreaParts'
  <1>1. /\ pc = "segments" /\ ~Settled /\ Placements(1) = {} /\ DropsImage
        /\ i \in 1 .. Len(Segments) /\ nextPage = Segments[i].page
        /\ request.vaddr = nextPage /\ request.count > 0
    BY MapPageFailsSteps
  <1>2. /\ pc' = "check kernel" /\ loaded' = i - 1 /\ layout' = layout \ {request}
        /\ request' = [request EXCEPT !.count = 0] /\ done' \in 0 .. 0
        /\ UNCHANGED <<type, mapping, nextPage, i>>
    BY <1>1 DEF DropsImage, firmwareVars
  <1>3. request'.count = 0
    BY <1>2 DEF RoomInv, LoaderTypeOK, Requests
  <1>4. Top' = nextPage
    BY <1>2 DEF Top
  <1>5. AreasPlaced'
    <2>1. \A a \in layout' : ImageBase <= a.vaddr /\ a.vaddr + a.count <= nextPage
      BY <1>1, <1>2 DEF AreaParts, AreasPlaced, IdentityArea, HighArea, Handing
    <2>2. \A a \in layout' : HighArea(a)'
      BY <1>4, <2>1 DEF HighArea
    <2>3. ~(request'.count > 0)
      BY <1>3
    <2>4. ImageBase <= nextPage' /\ pc' # "segments"
      BY <1>2 DEF AreaParts, AreasPlaced
    <2> QED
      BY <2>2, <2>3, <2>4 DEF AreasPlaced
  <1>6. AreasMapped'
    BY <1>2 DEF AreaParts, AreasMapped
  <1>7. NothingBeyond'
    <2>1. \A f \in Frames : type[f] # "Conventional"
      BY <1>1, NoFreeFrame
    <2> QED
      BY <1>2, <2>1 DEF NothingBeyond, Starved
  <1>8. SegmentsPlaced'
    <2>1. SegmentsMapped' = i - 1
      BY <1>2 DEF SegmentsMapped
    <2>2. ASSUME NEW k \in 1 .. (i - 1)
          PROVE  \E a \in layout' : a.vaddr = Segments[k].page /\ a.count = Segments[k].count
      <3>1. k \in 1 .. i /\ k < i
        BY <1>1, ScalarFacts
      <3>2. PICK a \in layout : /\ a.vaddr = Segments[k].page /\ a.count = Segments[k].count
                                /\ a # request
        BY <1>1, <3>1 DEF AreaParts, SegmentsPlaced, SegmentsMapped
      <3> QED
        BY <1>2, <3>2
    <2> QED
      BY <1>2, <2>1, <2>2 DEF SegmentsPlaced
  <1>9. StacksPlaced' /\ EndPlaced'
    BY <1>2, NoStackYet DEF EndPlaced, Late, Handing
  <1> QED
    BY <1>5, <1>6, <1>7, <1>8, <1>9 DEF AreaParts

LEMMA AreaFinishImage ==
  ASSUME RoomInv, RoomInv', AreaParts, FinishImage
  PROVE  AreaParts'
  <1>1. /\ pc = "segments" /\ nextPage' = nextPage + request.count
        /\ loaded' = i /\ pc' = "check kernel"
        /\ UNCHANGED <<request, done, mapping, layout, i>>
    BY DEF FinishImage, mapVars
  <1>2. Top' = Top /\ nextPage' = Top
    BY <1>1 DEF Top
  <1>3. Top \in Nat /\ ImageBase \in Nat /\ nextPage \in Nat /\ nextPage <= Top
    BY TopType, ConstantFacts DEF RoomInv, TopOK
  <1>4. \A a \in layout : HighArea(a) /\ HighArea(a)'
    BY <1>1, <1>2 DEF AreaParts, AreasPlaced, IdentityArea, HighArea, Handing
  <1>5. request.count > 0 => HighArea(request)'
    BY <1>1, <1>2 DEF AreaParts, AreasPlaced, IdentityArea, HighArea, Handing
  <1>6. ImageBase <= nextPage'
    BY <1>2, <1>3 DEF AreaParts, AreasPlaced
  <1>7. AreasPlaced'
    BY <1>1, <1>4, <1>5, <1>6 DEF AreaParts, AreasPlaced, HighArea
  <1>8. AreasMapped' /\ NothingBeyond'
    BY <1>1, <1>2 DEF AreaParts, AreasMapped, NothingBeyond, Starved
  <1>9. SegmentsPlaced' /\ EndPlaced'
    BY <1>1 DEF AreaParts, SegmentsPlaced, SegmentsMapped, EndPlaced, Late, Handing
  <1> QED
    BY <1>1, <1>7, <1>8, <1>9, NoStackYet DEF AreaParts

(* Steps that change nothing of the areas but where the loader is. *)
LEMMA AreaCheckKernel ==
  ASSUME RoomInv, RoomInv', AreaParts, CheckKernel, pc' # "failed"
  PROVE  AreaParts'
  <1>1. /\ pc = "check kernel" /\ pc' = "processors"
        /\ UNCHANGED <<type, request, done, mapping, layout, i, nextPage, loaded>>
    BY DEF CheckKernel, CheckThen, firmwareVars, mapVars, loaderVars
  <1>2. Top' = Top
    BY <1>1 DEF Top
  <1>3. \A a : IdentityArea(a)' <=> IdentityArea(a)
    BY <1>1 DEF IdentityArea, Handing
  <1>4. \A a : HighArea(a)' <=> HighArea(a)
    BY <1>2 DEF HighArea
  <1>5. IdentityArea(request)' <=> IdentityArea(request)
    BY <1>1 DEF IdentityArea, Handing
  <1>6. HighArea(request)' <=> HighArea(request)
    BY <1>1, <1>2 DEF HighArea
  <1>7. AreasPlaced' /\ AreasMapped'
    BY <1>1, <1>3, <1>4, <1>5, <1>6 DEF AreaParts, AreasPlaced, AreasMapped
  <1>8. NothingBeyond'
    BY <1>1, <1>2 DEF AreaParts, NothingBeyond, Starved
  <1>9. SegmentsPlaced' /\ EndPlaced'
    BY <1>1 DEF AreaParts, SegmentsPlaced, SegmentsMapped, EndPlaced, Late, Handing
  <1> QED
    BY <1>1, <1>7, <1>8, <1>9, NoStackYet DEF AreaParts

LEMMA AreaCountProcessors ==
  ASSUME RoomInv, RoomInv', AreaParts, CountProcessors, ~GoTo("failed")
  PROVE  AreaParts'
  <1>1. /\ pc = "processors" /\ pc' = "stacks" /\ stackTop' = nextPage + 1 + StackPages
        /\ UNCHANGED <<type, request, done, mapping, layout, nextPage, loaded>>
    BY DEF CountProcessors, firmwareVars, mapVars
  <1>2. i' = 0
    BY DEF CountProcessors
  <1>3. Top' = Top
    BY <1>1 DEF Top
  <1>4. \A a : IdentityArea(a)' <=> IdentityArea(a)
    BY <1>1 DEF IdentityArea, Handing
  <1>5. \A a : HighArea(a)' <=> HighArea(a)
    BY <1>3 DEF HighArea
  <1>6. IdentityArea(request)' <=> IdentityArea(request)
    BY <1>1 DEF IdentityArea, Handing
  <1>7. HighArea(request)' <=> HighArea(request)
    BY <1>1, <1>3 DEF HighArea
  <1>8. AreasPlaced' /\ AreasMapped'
    BY <1>1, <1>4, <1>5, <1>6, <1>7 DEF AreaParts, AreasPlaced, AreasMapped
  <1>9. NothingBeyond'
    <2>1. Settled'
      BY <1>1 DEF RoomInv, Settled
    <2> QED
      BY <1>1, <1>2, <1>3, <2>1 DEF AreaParts, NothingBeyond, Starved
  <1>10. StacksPlaced'
    <2>1. Guard(0)' = nextPage
      <3>1. nextPage \in Nat /\ StackPages \in Nat /\ StackRoom(0) = 0
        BY ScalarFacts, StackRoomFacts DEF RoomInv, LoaderTypeOK
      <3> QED
        BY <1>1, <3>1 DEF Guard
    <2>2. Guard(i)' = Guard(0)'
      BY <1>2 DEF Guard
    <2>3. StacksMapped' \in 0 .. 0
      BY <1>1, <1>2 DEF StacksMapped
    <2>4. \A cpu \in 0 .. (StacksMapped' - 1) : FALSE
      BY <2>3, EmptyRange
    <2>5. ImageBase <= nextPage
      BY DEF AreaParts, AreasPlaced
    <2> QED
      BY <1>1, <2>1, <2>2, <2>4, <2>5 DEF StacksPlaced, Late, Handing
  <1>11. SegmentsPlaced' /\ EndPlaced'
    BY <1>1 DEF AreaParts, SegmentsPlaced, SegmentsMapped, EndPlaced, Late, Handing
  <1> QED
    BY <1>8, <1>9, <1>10, <1>11 DEF AreaParts

LEMMA AreaMapStack ==
  ASSUME RoomInv, RoomInv', AreaParts, MapStack, ~GoTo("failed")
  PROVE  AreaParts'
  <1>1. /\ pc = "stacks" /\ Settled /\ i < Cpus /\ MapNewPages(StackBase, StackPages)
        /\ nextPage' = StackBase + StackPages /\ i' = i + 1
        /\ UNCHANGED <<pc, stackTop, loaded>>
    BY DEF MapStack
  <1>2. PICK f \in Placements(StackPages) : StartMapping(StackBase, f, StackPages)
    BY <1>1 DEF MapNewPages
  <1>3. f \in Nat /\ StackPages \in Nat /\ StackPages > 0
    <2>1. StackPages \in Nat
      BY ScalarFacts
    <2> QED
      BY <2>1, PlacementIsFree DEF Frames
  <1>4. ~Starved
    BY <1>2, <1>3, NotStarved
  <1>5. /\ request' = [vaddr |-> StackBase, frame |-> f, count |-> StackPages]
        /\ layout' = layout \cup {request'} /\ mapping' = mapping
    BY <1>2 DEF StartMapping
  <1>6. request'.vaddr = StackBase /\ request'.count = StackPages
    BY <1>5
  <1>7. /\ i \in Nat /\ StackBase \in Nat /\ Cpus - (i + 1) \in Nat /\ Behind(Cpus - (i + 1)) \in Nat
        /\ StackBase + StackPages + Behind(Cpus - (i + 1)) <= VirtualPages
    BY <1>1, StackFits
  <1>8. /\ StackBase = nextPage + 1 /\ nextPage \in Nat /\ Top = nextPage /\ Top' = nextPage'
        /\ ImageBase <= nextPage /\ ImageBase \in Nat
    BY <1>1, TopType, ConstantFacts DEF StackBase, RoomInv, TopOK, Top, AreaParts, AreasPlaced
  <1>9. /\ Top <= StackBase /\ StackBase + StackPages <= Top' /\ ImageBase <= nextPage'
        /\ Top <= Top'
    BY <1>1, <1>3, <1>7, <1>8
  <1>10. AreasPlaced' /\ AreasMapped'
    BY <1>1, <1>2, <1>3, <1>7, <1>9, AreaStart DEF RoomInv, AreaParts, LowStates
  <1>11. NothingBeyond'
    BY <1>4, <1>5, <1>9, NothingBeyondGrows DEF RoomInv, AreaParts
  <1>12. nextPage = Guard(i) /\ mapping[nextPage] = Absent
    <2>1. nextPage = Guard(i)
      BY <1>1 DEF AreaParts, StacksPlaced
    <2>2. nextPage \in Pages
      BY <1>3, <1>7, <1>8, ScalarFacts DEF Pages
    <2> QED
      BY <1>4, <1>8, <2>1, <2>2 DEF AreaParts, NothingBeyond
  <1>13. \A c : Guard(c)' = Guard(c)
    BY <1>1 DEF Guard
  <1>14. StacksPlaced'
    <2>1. nextPage' = Guard(i + 1)
      BY <1>1, <1>3, <1>7, <1>8, <1>12, GuardFacts
    <2>2. ImageBase <= Guard(0)
      BY <1>1 DEF AreaParts, StacksPlaced
    <2>3. StacksMapped = i /\ StacksMapped' = i + 1
      BY <1>1 DEF StacksMapped
    <2>4. ASSUME NEW cpu \in 0 .. i
          PROVE  /\ mapping'[Guard(cpu)] = Absent /\ Guard(cpu) < request'.vaddr
                 /\ \E a \in layout' : a.vaddr = Guard(cpu) + 1 /\ a.count = StackPages
      <3>1. CASE cpu = i
        BY <1>5, <1>6, <1>8, <1>12, <3>1
      <3>2. CASE cpu # i
        <4>1. cpu \in 0 .. (i - 1) /\ cpu \in Nat /\ cpu < i
          BY <1>7, <3>2
        <4>2. Guard(cpu) + StackPages + 1 <= Guard(i) /\ Guard(cpu) \in Int /\ Guard(i) \in Int
          BY <1>7, <4>1, GuardFacts
        <4>3. Guard(cpu) < request'.vaddr
          BY <1>3, <1>6, <1>8, <1>12, <4>2
        <4>4. /\ mapping[Guard(cpu)] = Absent
              /\ \E a \in layout : a.vaddr = Guard(cpu) + 1 /\ a.count = StackPages
          BY <2>3, <4>1 DEF AreaParts, StacksPlaced
        <4> QED
          BY <1>5, <4>3, <4>4
      <3> QED
        BY <3>1, <3>2
    <2>5. 0 .. (StacksMapped' - 1) = 0 .. i
      BY <1>7, <2>3
    <2>6. nextPage' = Guard(i)'
      BY <1>1, <2>1 DEF Guard
    <2> QED
      BY <1>1, <1>13, <2>2, <2>4, <2>5, <2>6 DEF StacksPlaced, Late, Handing
  <1>15. SegmentsPlaced' /\ EndPlaced'
    BY <1>1, <1>5 DEF AreaParts, SegmentsPlaced, SegmentsMapped, EndPlaced, Late, Handing
  <1> QED
    BY <1>10, <1>11, <1>14, <1>15 DEF AreaParts

(* The frame buffer and the initrd are put right behind what was mapped. *)
Appends(f, n) ==
  /\ pc \in {"stacks", "frame buffer"} /\ pc' \in {"frame buffer", "initrd"}
  /\ Settled /\ ~Starved /\ (pc = "stacks" => i = Cpus) /\ (pc' = "initrd" => n > 0)
  /\ StartMapping(nextPage, f, n) /\ nextPage' = nextPage + n
  /\ UNCHANGED <<loaded, stackTop>>

LEMMA AreaAppended ==
  ASSUME RoomInv, RoomInv', AreaParts, NEW f \in Nat, NEW n \in Nat, Appends(f, n)
  PROVE  AreaParts'
  <1>0. pc \in {"stacks", "frame buffer"} /\ pc' \in {"frame buffer", "initrd"}
    BY DEF Appends
  <1>1. /\ request' = [vaddr |-> nextPage, frame |-> f, count |-> n]
        /\ layout' = layout \cup {request'} /\ mapping' = mapping /\ nextPage' = nextPage + n
    BY DEF Appends, StartMapping
  <1>2. request'.vaddr = nextPage /\ request'.count = n
    BY <1>1
  <1>3. /\ nextPage \in Nat /\ Top = nextPage /\ Top' = nextPage' /\ ImageBase <= nextPage
        /\ ImageBase \in Nat
    <2>1. /\ nextPage \in Nat /\ Top = nextPage /\ ImageBase \in Nat
      BY <1>0, TopType, ConstantFacts DEF RoomInv, TopOK
    <2>2. Top' = nextPage'
      BY <1>0 DEF Top
    <2>3. ImageBase <= nextPage
      BY DEF AreaParts, AreasPlaced
    <2> QED
      BY <2>1, <2>2, <2>3
  <1>4. /\ Top <= nextPage /\ nextPage + n <= Top' /\ ImageBase <= nextPage' /\ Top <= Top'
    BY <1>1, <1>3
  <1>5. AreasPlaced' /\ AreasMapped'
    BY <1>0, <1>3, <1>4, AreaStart DEF RoomInv, AreaParts, LowStates, Appends
  <1>6. NothingBeyond'
    BY <1>1, <1>4, NothingBeyondGrows DEF RoomInv, AreaParts, Appends
  <1>7. \A c : Guard(c)' = Guard(c)
    BY DEF Guard, Appends
  <1>8. StacksPlaced'
    <2>1. Guard(Cpus) <= nextPage /\ Guard(Cpus) \in Int /\ Cpus \in Nat
      <3>1. Guard(Cpus) \in Int /\ Cpus \in Nat
        BY ScalarFacts, GuardFacts
      <3>2. CASE pc = "stacks"
        <4>1. i = Cpus
          BY <3>2 DEF Appends
        <4>2. nextPage = Guard(i)
          BY <3>2 DEF AreaParts, StacksPlaced
        <4>3. nextPage = Guard(Cpus)
          BY <4>1, <4>2
        <4> QED
          BY <1>3, <3>1, <4>3
      <3>3. CASE pc # "stacks"
        BY <1>0, <3>1, <3>3 DEF AreaParts, StacksPlaced
      <3> QED
        BY <3>1, <3>2, <3>3
    <2>2. ImageBase <= Guard(0)
      BY <1>0 DEF AreaParts, StacksPlaced
    <2>3. StacksMapped = Cpus /\ StacksMapped' = Cpus
      BY <1>0 DEF StacksMapped, Late, Appends
    <2>4. ASSUME NEW cpu \in 0 .. (Cpus - 1)
          PROVE  /\ mapping'[Guard(cpu)] = Absent /\ Guard(cpu) < request'.vaddr
                 /\ \E a \in layout' : a.vaddr = Guard(cpu) + 1 /\ a.count = StackPages
      <3>1. Guard(cpu) + StackPages + 1 <= Guard(Cpus) /\ Guard(cpu) \in Int /\ StackPages \in Nat
        <4>1. cpu \in Nat /\ cpu < Cpus /\ Cpus \in Nat /\ StackPages \in Nat
          BY ScalarFacts
        <4> QED
          BY <4>1, GuardFacts
      <3>2. /\ mapping[Guard(cpu)] = Absent
            /\ \E a \in layout : a.vaddr = Guard(cpu) + 1 /\ a.count = StackPages
        BY <2>3 DEF AreaParts, StacksPlaced
      <3>3. Guard(cpu) < request'.vaddr
        BY <1>2, <1>3, <2>1, <3>1
      <3> QED
        BY <1>1, <3>2, <3>3
    <2>5. Guard(Cpus) <= nextPage'
      BY <1>1, <1>3, <2>1
    <2> QED
      BY <1>0, <1>7, <2>2, <2>3, <2>4, <2>5 DEF StacksPlaced
  <1>9. SegmentsPlaced'
    BY <1>0, <1>1 DEF AreaParts, SegmentsPlaced, SegmentsMapped, Appends
  <1>10. EndPlaced'
    <2>1. ASSUME pc' = "initrd"
          PROVE  request'.count > 0 /\ request'.vaddr + request'.count = nextPage'
                 /\ HighArea(request)' /\ request' \in layout'
      <3>1. n > 0 /\ request' \in layout'
        BY <1>1, <2>1 DEF Appends
      <3>2. ImageBase <= request'.vaddr /\ request'.vaddr + request'.count <= Top'
        BY <1>1, <1>2, <1>3
      <3> QED
        BY <1>1, <1>2, <3>1, <3>2 DEF HighArea
    <2>2. HighArea(request)' => ImageBase <= request'.vaddr /\ request'.vaddr + request'.count <= Top'
      BY DEF HighArea
    <2> QED
      BY <1>0, <2>1, <2>2 DEF EndPlaced, HighArea, Late, Handing
  <1> QED
    BY <1>5, <1>6, <1>8, <1>9, <1>10 DEF AreaParts

LEMMA AreaMapFramebuffer ==
  ASSUME RoomInv, RoomInv', AreaParts, MapFramebuffer, ~GoTo("failed")
  PROVE  AreaParts'
  <1>1. /\ pc = "stacks" /\ Settled /\ pc' = "frame buffer"
        /\ StartMapping(nextPage, FramebufferBase, FramebufferPages)
        /\ nextPage' = nextPage + FramebufferPages /\ UNCHANGED <<loaded, stackTop>>
    BY DEF MapFramebuffer, FramebufferEnd
  <1>2. i = Cpus
    BY DEF MapFramebuffer, GoTo
  <1>3. ~Starved
    BY <1>1, <1>2, ConstantFacts DEF Starved
  <1>4. FramebufferBase \in Nat /\ FramebufferPages \in Nat
    BY ScalarFacts DEF FramebufferBase
  <1> QED
    BY <1>1, <1>2, <1>3, <1>4, AreaAppended DEF Appends

LEMMA AreaMapInitrd ==
  ASSUME RoomInv, RoomInv', AreaParts, MapInitrd, ~GoTo("failed")
  PROVE  AreaParts'
  <1>1. /\ pc = "frame buffer" /\ Settled /\ pc' = "initrd"
        /\ StartMapping(nextPage, bi.initrd, InitrdPages)
        /\ nextPage' = nextPage + InitrdPages /\ UNCHANGED <<loaded, stackTop>>
    BY DEF MapInitrd, InitrdEnd
  <1>2. ~Starved
    BY <1>1 DEF Starved
  <1>3. bi.initrd \in Nat /\ InitrdPages \in Nat /\ InitrdPages > 0
    <2>1. bi.initrd \in Frames /\ InitrdPages > 0
      BY <1>1 DEF RoomInv, InitrdStates
    <2> QED
      BY <2>1, ScalarFacts DEF Frames
  <1> QED
    BY <1>1, <1>2, <1>3, AreaAppended DEF Appends

(* Only the firmware's part, or the tables', changes. *)
LEMMA AreaSame ==
  ASSUME AreaParts, Starved => Starved',
         UNCHANGED <<pc, i, layout, request, done, mapping, nextPage, loaded, stackTop, bi>>
  PROVE  AreaParts'
  <1>1. Top' = Top
    BY DEF Top
  <1>2. \A a : (IdentityArea(a)' <=> IdentityArea(a)) /\ (HighArea(a)' <=> HighArea(a))
    BY <1>1 DEF IdentityArea, HighArea
  <1>3. /\ IdentityArea(request)' <=> IdentityArea(request)
        /\ HighArea(request)' <=> HighArea(request)
    BY <1>1 DEF IdentityArea, HighArea
  <1>4. AreasPlaced' /\ AreasMapped'
    BY <1>2, <1>3 DEF AreaParts, AreasPlaced, AreasMapped
  <1>5. NothingBeyond'
    BY <1>1 DEF AreaParts, NothingBeyond
  <1>6. StacksPlaced'
    BY DEF AreaParts, StacksPlaced, Guard, StacksMapped
  <1>7. SegmentsPlaced' /\ EndPlaced'
    BY <1>2 DEF AreaParts, SegmentsPlaced, SegmentsMapped, EndPlaced
  <1> QED
    BY <1>4, <1>5, <1>6, <1>7 DEF AreaParts

(* Once the initrd is mapped, the loader goes on without disturbing areas. *)
Proceeds ==
  /\ pc \in Late /\ pc' \in Late
  /\ pc' = "identity" => pc \in {"initrd", "get temporary"}
  /\ pc \in {"identity"} \cup Handing => pc' \in Handing
  /\ pc' \in Handing => (IF pc \in Handing THEN bi'.end = bi.end ELSE bi'.end = nextPage)
  /\ UNCHANGED <<layout, request, done, mapping, nextPage, loaded, stackTop>>

LEMMA AreaProceeds ==
  ASSUME AreaParts, Proceeds
  PROVE  AreaParts'
  <1>1. pc \in Late /\ pc' \in Late /\ UNCHANGED <<layout, request, done, mapping, nextPage, loaded, stackTop>>
    BY DEF Proceeds
  <1>2. Top' = Top
    BY <1>1 DEF Top, Late, Handing
  <1>3. \A a : (IdentityArea(a) => IdentityArea(a)') /\ (HighArea(a)' <=> HighArea(a))
    BY <1>2 DEF IdentityArea, HighArea, Proceeds, Late, Handing
  <1>4. /\ IdentityArea(request) => IdentityArea(request)'
        /\ HighArea(request)' <=> HighArea(request)
    BY <1>1, <1>2 DEF IdentityArea, HighArea, Proceeds, Late, Handing
  <1>5. AreasPlaced' /\ AreasMapped'
    BY <1>1, <1>3, <1>4 DEF AreaParts, AreasPlaced, AreasMapped, Late, Handing
  <1>6. NothingBeyond'
    BY <1>1, <1>2 DEF AreaParts, NothingBeyond, Starved, Late, Handing
  <1>7. StacksPlaced'
    <2>1. StacksMapped = Cpus /\ StacksMapped' = Cpus
      BY <1>1 DEF StacksMapped, Late, Handing
    <2>2. \A c : Guard(c)' = Guard(c)
      BY <1>1 DEF Guard
    <2>3. pc' # "stacks"
      BY <1>1 DEF Late, Handing
    <2> QED
      BY <1>1, <2>1, <2>2, <2>3 DEF AreaParts, StacksPlaced
  <1>8. SegmentsPlaced'
    BY <1>1 DEF AreaParts, SegmentsPlaced, SegmentsMapped, Late, Handing
  <1>9. EndPlaced'
    BY <1>1, <1>3 DEF AreaParts, EndPlaced, Proceeds
  <1> QED
    BY <1>5, <1>6, <1>7, <1>8, <1>9 DEF AreaParts

LEMMA AreaMapIdentity ==
  ASSUME RoomInv, RoomInv', AreaParts, MapIdentity
  PROVE  AreaParts'
  <1> DEFINE m == Min(Owned)
  <1>1. /\ pc = "identity" /\ Settled /\ Owned # {} /\ StartMapping(m, m, 1) /\ i' = m
        /\ UNCHANGED <<pc, nextPage, loaded, stackTop, bi>>
    BY DEF MapIdentity
  <1>2. i \in 0 .. MemoryPages /\ i \in Nat
    BY <1>1, ScalarFacts DEF RoomInv
  <1>3. m \in Frames /\ m > i
    BY <1>1, <1>2, OwnedFacts
  <1> HIDE DEF m
  <1>4. /\ request' = [vaddr |-> m, frame |-> m, count |-> 1]
        /\ layout' = layout \cup {request'} /\ mapping' = mapping
    BY <1>1 DEF StartMapping
  <1>5. /\ request'.vaddr = m /\ request'.frame = m /\ request'.count = 1
    BY <1>4
  <1>6. done' \in 0 .. 0
    <2>1. done' = 0
      BY <1>1 DEF StartMapping
    <2> QED
      BY <2>1
  <1>7. Top' = Top /\ Top = nextPage /\ m \in Nat /\ m < ImageBase /\ ImageBase \in Nat
    <2>1. Top' = Top /\ Top = nextPage
      BY <1>1 DEF Top
    <2> QED
      BY <1>3, <2>1, ConstantFacts DEF Frames
  <1>8. ASSUME NEW a \in layout
        PROVE  /\ a.vaddr \in Nat /\ a.count \in Nat
               /\ \/ a.vaddr + a.count <= m /\ IdentityArea(a)'
                  \/ m + 1 <= a.vaddr /\ HighArea(a)'
    <2>1. a.vaddr \in Nat /\ a.count \in Nat
      BY AreaTypes DEF RoomInv
    <2>2. CASE IdentityArea(a)
      <3>1. a.count = 1 /\ a.vaddr <= i /\ a.vaddr \in Frames /\ a.frame = a.vaddr
        BY <1>1, <2>2 DEF IdentityArea
      <3>2. a.vaddr + a.count <= m /\ a.vaddr <= m
        BY <1>2, <1>3, <1>7, <2>1, <3>1
      <3> QED
        BY <1>1, <2>1, <3>1, <3>2 DEF IdentityArea
    <2>3. CASE HighArea(a)
      <3>1. m + 1 <= a.vaddr
        BY <1>7, <2>1, <2>3 DEF HighArea
      <3>2. HighArea(a)'
        BY <1>7, <2>3 DEF HighArea
      <3> QED
        BY <2>1, <3>1, <3>2
    <2> QED
      BY <2>2, <2>3 DEF AreaParts, AreasPlaced
  <1>9. AreasPlaced'
    <2>1. IdentityArea(request)'
      BY <1>1, <1>3, <1>5, <1>7 DEF IdentityArea
    <2>2. \A a \in layout' : IdentityArea(a)' \/ HighArea(a)'
      <3>1. IdentityArea(request)' <=> /\ request'.count = 1 /\ request'.frame = request'.vaddr
                                       /\ request'.vaddr \in Frames
                                       /\ pc' \in {"identity"} \cup Handing
                                       /\ (pc' = "identity" => request'.vaddr <= i')
        BY DEF IdentityArea
      <3> QED
        BY <1>4, <1>8, <2>1, <3>1 DEF IdentityArea
    <2>3. \A a \in layout' \ {request'} :
             a.vaddr + a.count <= request'.vaddr \/ request'.vaddr + request'.count <= a.vaddr
      BY <1>4, <1>5, <1>8
    <2>4. ImageBase <= nextPage' /\ pc' # "segments"
      BY <1>1 DEF AreaParts, AreasPlaced
    <2> QED
      BY <2>1, <2>2, <2>3, <2>4 DEF AreasPlaced
  <1>10. AreasMapped'
    <2>1. ASSUME NEW a \in layout', NEW k \in 0 .. (a.count - 1), a # request' \/ k < done'
          PROVE  mapping'[a.vaddr + k] = a.frame + k
      <3>1. ~(k < done')
        BY <1>6
      <3>2. a \in layout
        BY <1>4, <2>1, <3>1
      <3>3. a # request \/ k < done
        BY <1>1, <1>8, <3>2 DEF Settled
      <3> QED
        BY <1>4, <3>2, <3>3 DEF AreaParts, AreasMapped
    <2> QED
      BY <2>1 DEF AreasMapped
  <1>11. NothingBeyond'
    BY <1>1, <1>4, <1>7 DEF AreaParts, NothingBeyond, Starved
  <1>12. StacksPlaced'
    <2>1. StacksMapped = Cpus /\ StacksMapped' = Cpus
      BY <1>1 DEF StacksMapped, Late
    <2>2. \A c : Guard(c)' = Guard(c)
      BY <1>1 DEF Guard
    <2>3. ASSUME NEW cpu \in 0 .. (Cpus - 1)
          PROVE  /\ mapping'[Guard(cpu)] = Absent
                 /\ request'.vaddr + request'.count <= Guard(cpu)
                 /\ \E a \in layout' : a.vaddr = Guard(cpu) + 1 /\ a.count = StackPages
      <3>1. cpu \in Nat /\ ImageBase <= Guard(0) /\ Guard(0) <= Guard(cpu) /\ Guard(0) \in Int
            /\ Guard(cpu) \in Int
        <4>1. cpu \in Nat /\ 0 \in Nat
          BY ScalarFacts
        <4>2. ImageBase <= Guard(0)
          BY <1>1 DEF AreaParts, StacksPlaced, Late
        <4> QED
          BY <4>1, <4>2, GuardFacts
      <3>2. request'.vaddr + request'.count <= Guard(cpu)
        BY <1>5, <1>7, <3>1
      <3>3. /\ mapping[Guard(cpu)] = Absent
            /\ \E a \in layout : a.vaddr = Guard(cpu) + 1 /\ a.count = StackPages
        BY <2>1 DEF AreaParts, StacksPlaced
      <3> QED
        BY <1>4, <3>2, <3>3
    <2> QED
      BY <1>1, <2>1, <2>2, <2>3 DEF AreaParts, StacksPlaced
  <1>13. SegmentsPlaced' /\ EndPlaced'
    <2>1. SegmentsPlaced'
      BY <1>1, <1>4 DEF AreaParts, SegmentsPlaced, SegmentsMapped
    <2>2. \A a : HighArea(a)' <=> HighArea(a)
      BY <1>7 DEF HighArea
    <2>3. EndPlaced'
      BY <1>1, <1>4, <2>2 DEF AreaParts, EndPlaced, Late, Handing
    <2> QED
      BY <2>1, <2>3
  <1> QED
    BY <1>9, <1>10, <1>11, <1>12, <1>13 DEF AreaParts

LEMMA TopFits ==
  ASSUME RoomInv, pc \in MapStates, request.count > 0
  PROVE  Top <= VirtualPages
  <1>1. nextPage \in Nat
    BY DEF RoomInv, LoaderTypeOK
  <1>2. CASE pc = "segments"
    <2>1. i \in 0 .. Len(Segments) /\ i # 0
      BY <1>2 DEF RoomInv
    <2>2. i > 0
      BY <2>1, ScalarFacts
    <2>3. request.vaddr = nextPage /\ request.vaddr + request.count <= VirtualPages
      BY <1>2, <2>2 DEF RoomInv
    <2> QED
      BY <1>2, <2>3 DEF Top
  <1>3. CASE pc = "stacks"
    <2>1. i \in 0 .. Cpus /\ nextPage + Behind(Cpus - i) <= VirtualPages
      BY <1>3 DEF RoomInv, RoomFor
    <2>2. Behind(Cpus - i) \in Nat
      <3>1. Cpus - i \in Nat
        BY <2>1, ScalarFacts
      <3>2. StackRoom(Cpus - i) \in Nat
        BY <3>1, StackRoomFacts
      <3> QED
        BY <3>2, ScalarFacts DEF Behind
    <2> QED
      BY <1>1, <1>3, <2>1, <2>2, ScalarFacts DEF Top
  <1>4. CASE pc = "frame buffer"
    <2>1. nextPage + InitrdPages <= VirtualPages /\ Top = nextPage
      BY <1>4 DEF RoomInv, RoomFor, Top
    <2> QED
      BY <1>1, <2>1, ScalarFacts
  <1>5. CASE pc \in {"initrd", "identity"}
    BY <1>5 DEF RoomInv, Late, Top
  <1> QED
    BY <1>2, <1>3, <1>4, <1>5 DEF MapStates

LEMMA AreaWritesEntry ==
  ASSUME RoomInv, AreaParts, MapPage, WritesEntry
  PROVE  AreaParts'
  <1> DEFINE p == NextEntry.page
             q == NextEntry.frame
  <1>1. /\ mapping' = [mapping EXCEPT ![p] = q] /\ done' = done + 1
        /\ UNCHANGED <<pc, i, layout, request, type, nextPage, loaded, stackTop, bi>>
    BY DEF WritesEntry, firmwareVars, loaderVars
  <1>2. /\ pc \in MapStates /\ done < request.count /\ request.count > 0
        /\ done \in Nat /\ request.count \in Nat
        /\ p = request.vaddr + done /\ q = request.frame + done /\ p \in Pages
    BY MapPageSteps
  <1> HIDE DEF p, q
  <1>3. DOMAIN mapping = Pages
    BY DEF RoomInv, LoaderTypeOK
  <1>4. mapping'[p] = q /\ \A v \in Pages : v # p => mapping'[v] = mapping[v]
    BY <1>1, <1>2, <1>3
  <1>5. request.vaddr \in Nat /\ request.frame \in Nat /\ Top \in Nat /\ nextPage \in Nat
        /\ nextPage <= Top /\ Top <= VirtualPages /\ ImageBase \in Nat /\ MemoryPages < ImageBase
        /\ ImageBase < VirtualPages
    BY <1>2, RequestTypes, TopType, TopFits, ConstantFacts DEF RoomInv, TopOK
  <1>6. ImageBase <= nextPage
    BY DEF AreaParts, AreasPlaced
  <1>7. Top' = Top
    BY <1>1 DEF Top
  <1>8. \A a : (IdentityArea(a)' <=> IdentityArea(a)) /\ (HighArea(a)' <=> HighArea(a))
    BY <1>1, <1>7 DEF IdentityArea, HighArea
  <1>9. AreasPlaced'
    <2>1. /\ IdentityArea(request)' <=> IdentityArea(request)
          /\ HighArea(request)' <=> HighArea(request)
      BY <1>1, <1>7 DEF IdentityArea, HighArea
    <2> QED
      BY <1>1, <1>8, <2>1 DEF AreaParts, AreasPlaced
  <1>10. AreasMapped'
    <2>1. ASSUME NEW a \in layout, NEW k \in 0 .. (a.count - 1), a # request \/ k < done + 1
          PROVE  mapping'[a.vaddr + k] = a.frame + k
      <3>1. a.vaddr \in Nat /\ a.count \in Nat /\ a.frame \in Nat
        BY AreaTypes DEF RoomInv
      <3>2. a.vaddr + k \in Pages
        <4>1. CASE IdentityArea(a)
          <5>1. a.count = 1 /\ a.vaddr \in Frames
            BY <4>1 DEF IdentityArea
          <5>2. a.vaddr + k < ImageBase
            BY <1>5, <3>1, <5>1, ScalarFacts DEF Frames
          <5> QED
            BY <1>5, <3>1, <5>2, ScalarFacts DEF Pages
        <4>2. CASE HighArea(a)
          BY <1>5, <3>1, <4>2, ScalarFacts DEF HighArea, Pages
        <4> QED
          BY <4>1, <4>2 DEF AreaParts, AreasPlaced
      <3>3. CASE a = request
        <4>1. CASE k = done
          BY <1>2, <1>4, <3>3, <4>1
        <4>2. CASE k # done
          <5>1. k < done /\ a.vaddr + k # p
            BY <1>2, <1>5, <2>1, <3>3, <4>2
          <5>2. mapping[a.vaddr + k] = a.frame + k
            BY <5>1 DEF AreaParts, AreasMapped
          <5> QED
            BY <1>4, <3>2, <5>1, <5>2
        <4> QED
          BY <4>1, <4>2
      <3>4. CASE a # request
        <4>1. a.vaddr + a.count <= request.vaddr \/ request.vaddr + request.count <= a.vaddr
          BY <1>2, <3>4 DEF AreaParts, AreasPlaced
        <4>2. a.vaddr + k # p
          BY <1>2, <1>5, <3>1, <4>1
        <4>3. mapping[a.vaddr + k] = a.frame + k
          BY <3>4 DEF AreaParts, AreasMapped
        <4> QED
          BY <1>4, <3>2, <4>2, <4>3
      <3> QED
        BY <3>3, <3>4
    <2> QED
      BY <1>1, <2>1 DEF AreasMapped
  <1>11. NothingBeyond'
    <2>1. ~Starved
      <3>1. ~Settled
        BY DEF MapPage
      <3> QED
        BY <1>2, <3>1 DEF Starved, MapStates
    <2>2. p < Top
      <3>1. CASE IdentityArea(request)
        <4>1. request.count = 1 /\ request.vaddr \in Frames
          BY <3>1 DEF IdentityArea
        <4>2. p < ImageBase
          BY <1>2, <1>5, <4>1, ScalarFacts DEF Frames
        <4> QED
          BY <1>2, <1>5, <1>6, <4>2 DEF Pages
      <3>2. CASE HighArea(request)
        BY <1>2, <1>5, <3>2 DEF HighArea
      <3> QED
        BY <1>2, <3>1, <3>2 DEF AreaParts, AreasPlaced
    <2>3. \A v \in Pages : v >= Top => v # p
      BY <1>2, <1>5, <2>2 DEF Pages
    <2> QED
      BY <1>4, <1>7, <2>1, <2>3 DEF AreaParts, NothingBeyond
  <1>12. StacksPlaced'
    <2>1. StacksMapped' = StacksMapped /\ \A c : Guard(c)' = Guard(c)
      BY <1>1 DEF StacksMapped, Guard
    <2>2. ASSUME NEW cpu \in 0 .. (StacksMapped - 1)
          PROVE  mapping'[Guard(cpu)] = Absent
      <3>1. /\ mapping[Guard(cpu)] = Absent
            /\ Guard(cpu) < request.vaddr \/ request.vaddr + request.count <= Guard(cpu)
        BY <1>2 DEF AreaParts, StacksPlaced
      <3>2. /\ pc = "stacks" /\ StacksMapped = i /\ i \in 0 .. Cpus /\ nextPage = Guard(i)
            \/ /\ pc \in {"frame buffer"} \cup Late /\ StacksMapped = Cpus /\ Guard(Cpus) <= nextPage
        <4>1. CASE pc = "stacks"
          BY <4>1 DEF StacksMapped, RoomInv, AreaParts, StacksPlaced
        <4>2. CASE pc \in {"frame buffer"} \cup Late
          BY <4>2 DEF StacksMapped, AreaParts, StacksPlaced, Late, Handing
        <4>3. CASE pc \notin {"stacks", "frame buffer"} \cup Late
          <5>1. StacksMapped = 0
            BY <4>3 DEF StacksMapped
          <5> QED
            BY <5>1, EmptyRange, Zenon
        <4> QED
          BY <4>1, <4>2, <4>3
      <3>3. /\ cpu \in Nat /\ StacksMapped \in Nat /\ cpu < StacksMapped
            /\ Guard(StacksMapped) <= nextPage /\ ImageBase <= Guard(0)
        <4>1. StacksMapped \in Nat
          <5>1. StacksMapped \in 0 .. Cpus \/ StacksMapped = Cpus
            BY <3>2
          <5> QED
            BY <5>1, ScalarFacts
        <4>2. cpu \in Nat /\ cpu < StacksMapped
          BY <4>1
        <4>3. ImageBase <= Guard(0)
          BY <3>2 DEF AreaParts, StacksPlaced
        <4>4. Guard(StacksMapped) <= nextPage
          <5>1. CASE pc = "stacks" /\ StacksMapped = i /\ nextPage = Guard(i)
            BY <1>5, <5>1
          <5> QED
            BY <3>2, <5>1
        <4> QED
          BY <4>1, <4>2, <4>3, <4>4
      <3>4. /\ Guard(cpu) + StackPages + 1 <= Guard(StacksMapped) /\ Guard(cpu) \in Int
            /\ Guard(0) <= Guard(cpu) /\ Guard(0) \in Int /\ Guard(StacksMapped) \in Int
            /\ StackPages \in Nat
        <4>1. 0 \in Nat /\ StackPages \in Nat
          BY ScalarFacts
        <4> QED
          BY <3>3, <4>1, GuardFacts
      <3>5. Guard(cpu) \in Pages
        BY <1>5, <3>3, <3>4, ScalarFacts DEF Pages
      <3>6. Guard(cpu) # p
        BY <1>2, <1>5, <3>1, <3>4
      <3> QED
        BY <1>4, <3>1, <3>5, <3>6
    <2> QED
      BY <1>1, <2>1, <2>2 DEF AreaParts, StacksPlaced
  <1>13. SegmentsPlaced' /\ EndPlaced'
    BY <1>1, <1>8 DEF AreaParts, SegmentsPlaced, SegmentsMapped, EndPlaced
  <1> QED
    BY <1>9, <1>10, <1>11, <1>12, <1>13 DEF AreaParts

LEMMA AreaMapPage ==
  ASSUME RoomInv, AreaParts, MapPage
  PROVE  AreaParts'
  <1>1. ASSUME NEW f \in Placements(1), NEW key, LinksTable(key, f)
        PROVE  AreaParts'
    <2>1. UNCHANGED <<pc, i, layout, request, done, mapping, nextPage, loaded, stackTop, bi>>
      BY <1>1 DEF LinksTable, loaderVars
    <2>2. ~Starved
      BY <1>1, NotStarved
    <2> QED
      BY <2>1, <2>2, AreaSame
  <1> QED
    BY <1>1, AreaWritesEntry, MapPageSteps

LEMMA AreaOthers ==
  ASSUME RoomInv, AreaParts, pc' # "failed", pc \notin Early,
         \/ SizeTemporaryMap \/ GetTemporaryMap \/ CheckMappings \/ SizeFinalMap
         \/ GetFinalMap \/ enter_kernel \/ FirmwareEvent \/ UNCHANGED vars
  PROVE  AreaParts'
  <1> USE DEF Late, Handing, GoTo, firmwareVars, mapVars, loaderVars
  <1>1. CASE SizeTemporaryMap
    <2>1. Proceeds
      BY <1>1 DEF SizeTemporaryMap, SizeMap, Proceeds
    <2> QED
      BY <2>1, AreaProceeds
  <1>2. CASE GetTemporaryMap
    <2>1. Proceeds
      BY <1>2 DEF GetTemporaryMap, Proceeds
    <2> QED
      BY <2>1, AreaProceeds
  <1>3. CASE CheckMappings
    <2>1. /\ pc = "identity" /\ pc' = "final map" /\ bi' = [bi EXCEPT !.end = nextPage]
          /\ UNCHANGED <<layout, request, done, mapping, nextPage, loaded, stackTop>>
      BY <1>3 DEF CheckMappings, CheckThen
    <2>2. bi'.end = nextPage
      BY <2>1 DEF RoomInv
    <2>3. Proceeds
      BY <2>1, <2>2 DEF Proceeds
    <2> QED
      BY <2>3, AreaProceeds
  <1>4. CASE SizeFinalMap
    <2>1. Proceeds
      BY <1>4 DEF SizeFinalMap, SizeMap, Proceeds
    <2> QED
      BY <2>1, AreaProceeds
  <1>5. CASE GetFinalMap
    <2>1. /\ pc = "get final" /\ pc' = "exit" /\ bi' = [bi EXCEPT !.map = PassedMap]
          /\ UNCHANGED <<layout, request, done, mapping, nextPage, loaded, stackTop>>
      BY <1>5 DEF GetFinalMap
    <2>2. bi'.end = bi.end
      BY <2>1 DEF RoomInv
    <2>3. Proceeds
      BY <2>1, <2>2 DEF Proceeds
    <2> QED
      BY <2>3, AreaProceeds
  <1>6. CASE enter_kernel
    <2>1. Proceeds
      BY <1>6 DEF enter_kernel, Proceeds
    <2> QED
      BY <2>1, AreaProceeds
  <1>7. CASE FirmwareEvent
    <2>1. UNCHANGED <<pc, i, layout, request, done, mapping, nextPage, loaded, stackTop, bi>>
      BY <1>7 DEF FirmwareEvent
    <2>2. ~Starved
      BY <1>7 DEF FirmwareEvent, Starved
    <2> QED
      BY <2>1, <2>2, AreaSame
  <1>8. CASE UNCHANGED vars
    <2>1. UNCHANGED <<pc, i, layout, request, done, mapping, nextPage, loaded, stackTop, bi, type>>
      BY <1>8 DEF vars
    <2>2. Starved => Starved'
      BY <2>1 DEF Starved, Settled
    <2> QED
      BY <2>1, <2>2, AreaSame
  <1> QED
    BY <1>1, <1>2, <1>3, <1>4, <1>5, <1>6, <1>7, <1>8

(* Until the image is read nothing is mapped. *)
LEMMA AreaEarly ==
  ASSUME RoomInv, AreaInv, [Next]_vars, pc' \in Early
  PROVE  \A v \in Pages : mapping'[v] = Absent
  <1>1. pc \in Early /\ UNCHANGED mapping
    BY DEF Next, Early, AllocateBootInfo, LoadBootImage, FindKernel, CreatePageTables, ReadImage,
           MapSegment, FinishImage, CheckKernel, CheckThen, CountProcessors, MapStack,
           MapFramebuffer, MapInitrd, SizeTemporaryMap, SizeMap, GetTemporaryMap, MapIdentity,
           CheckMappings, SizeFinalMap, GetFinalMap, enter_kernel, MapPage, MapPageFails,
           FirmwareEvent, GoTo, vars, mapVars
  <1> QED
    BY <1>1 DEF AreaInv

LEMMA AreaKept ==
  ASSUME RoomInv, RoomInv', AreaInv, [Next]_vars,
         pc' \notin Early \cup {"failed"}, image'.kind = "elf"
  PROVE  AreaParts'
  <1>1. CASE ReadImage
    BY <1>1, AreaReadImage
  <1>2. CASE pc \notin Early \cup {"failed"} /\ ~ReadImage
    <2>1. image.kind = "elf"
      BY <1>2
      DEF Next, Early, AllocateBootInfo, LoadBootImage, FindKernel, CreatePageTables,
          MapSegment, FinishImage, CheckKernel, CheckThen, CountProcessors, MapStack,
          MapFramebuffer, MapInitrd, SizeTemporaryMap, SizeMap, GetTemporaryMap, MapIdentity,
          CheckMappings, SizeFinalMap, GetFinalMap, enter_kernel, MapPage, MapPageFails,
          FirmwareEvent, GoTo, vars, loaderVars
    <2>2. AreaParts /\ pc \notin Early
      BY <1>2, <2>1 DEF AreaInv
    <2>3. ~GoTo("failed")
      BY DEF GoTo
    <2>4. ~AllocateBootInfo /\ ~LoadBootImage /\ ~FindKernel /\ ~CreatePageTables
      BY <2>2 DEF Early, AllocateBootInfo, LoadBootImage, FindKernel, CreatePageTables
    <2> QED
      BY <1>2, <2>2, <2>3, <2>4, AreaMapSegment, AreaFinishImage, AreaCheckKernel,
         AreaCountProcessors, AreaMapStack, AreaMapFramebuffer, AreaMapInitrd, AreaMapIdentity,
         AreaMapPage, AreaMapPageFails, AreaOthers
      DEF Next
  <1>3. CASE pc \in Early \cup {"failed"} /\ ~ReadImage
    BY <1>3
    DEF Next, Early, AllocateBootInfo, LoadBootImage, FindKernel, CreatePageTables,
        MapSegment, FinishImage, CheckKernel, CheckThen, CountProcessors, MapStack,
        MapFramebuffer, MapInitrd, SizeTemporaryMap, SizeMap, GetTemporaryMap, MapIdentity,
        CheckMappings, SizeFinalMap, GetFinalMap, enter_kernel, MapPage, MapPageFails,
        FirmwareEvent, GoTo, vars
  <1> QED
    BY <1>1, <1>2, <1>3

LEMMA AreaNext == RoomInv /\ RoomInv' /\ AreaInv /\ [Next]_vars => AreaInv'
  BY AreaEarly, AreaKept DEF AreaInv

(* The areas lie one behind the other, each mapped as far as its call has
   come, and nothing lies behind the last (virtual.cpp:142-355).          *)
THEOREM AreasAreKept == Spec => []AreaInv
  <1>1. Init => AreaInv
    BY DEF Init, AreaInv, Early
  <1> QED
    BY <1>1, AreaNext, RoomIsKept, PTL DEF Spec

(* The kernel is entered with every area mapped as it was asked for, a guard
   page below each stack, nothing mapped behind memory_end, and each loaded
   segment on the pages it was linked for (virtual.cpp:142-355).          *)
THEOREM LayoutIsKept == Spec => []LayoutKept
  <1>1. RoomInv /\ AreaInv => LayoutKept
    <2> SUFFICES ASSUME RoomInv, AreaInv, AtKernel PROVE LayoutKept
      BY DEF LayoutKept
    <2>1. pc = "entered" /\ Settled /\ pc \in Late /\ pc \in Handing /\ pc \notin Early
      BY DEF AtKernel, RoomInv, Late, Handing, Early
    <2>2. CASE image.kind # "elf"
      <3>1. loaded = 0
        BY <2>2 DEF RoomInv
      <3>2. \A k \in 1 .. loaded : FALSE
        BY <3>1
      <3> QED
        BY <2>2, <3>2 DEF LayoutKept, SegmentsWhereLinked
    <2>3. CASE image.kind = "elf"
      <3>1. AreaParts
        BY <2>1, <2>3 DEF AreaInv
      <3>2. SegmentsWhereLinked
        BY <2>1, <3>1 DEF AreaParts, SegmentsPlaced, SegmentsMapped, SegmentsWhereLinked
      <3>3. AreasKept
        <4>1. ASSUME NEW a \in layout, NEW k \in 0 .. (a.count - 1)
              PROVE  mapping[a.vaddr + k] = a.frame + k
          <5>1. a.count \in Nat
            BY AreaTypes DEF RoomInv
          <5>2. a # request \/ k < done
            BY <2>1, <5>1 DEF Settled
          <5> QED
            BY <3>1, <5>2 DEF AreaParts, AreasMapped
        <4> QED
          BY <4>1 DEF AreasKept
      <3>4. StacksGuarded
        <4>1. StacksMapped = Cpus
          BY <2>1 DEF StacksMapped
        <4>2. ASSUME NEW cpu \in 0 .. (Cpus - 1)
              PROVE  /\ mapping[Guard(cpu)] = Absent
                     /\ \A v \in Span(Guard(cpu) + 1, StackPages) : mapping[v] # Absent
          <5>1. PICK a \in layout : a.vaddr = Guard(cpu) + 1 /\ a.count = StackPages
            BY <3>1, <4>1 DEF AreaParts, StacksPlaced
          <5>2. a.vaddr \in Nat /\ a.frame \in Nat /\ a.count \in Nat
            BY AreaTypes DEF RoomInv
          <5>3. ASSUME NEW v \in Span(Guard(cpu) + 1, StackPages)
                PROVE  mapping[v] # Absent
            <6>1. v \in a.vaddr .. (a.vaddr + a.count - 1)
              BY <5>1 DEF Span
            <6>2. v - a.vaddr \in 0 .. (a.count - 1) /\ a.vaddr + (v - a.vaddr) = v
              BY <5>2, <6>1
            <6>3. mapping[a.vaddr + (v - a.vaddr)] = a.frame + (v - a.vaddr)
              BY <3>3, <6>2 DEF AreasKept
            <6>4. a.frame + (v - a.vaddr) \in Nat
              BY <5>2, <6>2
            <6> QED
              BY <6>2, <6>3, <6>4, ConstantFacts
          <5> QED
            BY <3>1, <4>1, <5>3 DEF AreaParts, StacksPlaced
        <4>3. \A c : stackTop - StackPages - 1 + c * (StackPages + 1) = Guard(c)
          BY DEF Guard, StackRoom
        <4> QED
          BY <4>2, <4>3 DEF StacksGuarded
      <3>5. EndIsPastAll
        <4>1. bi.end = nextPage /\ Top = nextPage /\ nextPage \in Nat
          BY <2>1, <3>1, TopType DEF AreaParts, EndPlaced, RoomInv, TopOK
        <4>2. PICK a \in layout : a.count > 0 /\ a.vaddr + a.count = nextPage
          BY <2>1, <3>1 DEF AreaParts, EndPlaced
        <4>3. a.vaddr \in Nat /\ a.frame \in Nat /\ a.count \in Nat
          BY AreaTypes DEF RoomInv
        <4>4. mapping[bi.end - 1] # Absent
          <5>1. a.count - 1 \in 0 .. (a.count - 1) /\ a.vaddr + (a.count - 1) = nextPage - 1
            BY <4>2, <4>3
          <5>2. mapping[a.vaddr + (a.count - 1)] = a.frame + (a.count - 1)
            BY <3>3, <5>1 DEF AreasKept
          <5>3. a.frame + (a.count - 1) \in Nat
            BY <4>2, <4>3
          <5>4. mapping[nextPage - 1] \in Nat
            BY <5>1, <5>2, <5>3
          <5> QED
            BY <4>1, <5>4, ConstantFacts
        <4>5. \A v \in Pages : v >= bi.end => mapping[v] = Absent
          BY <2>1, <3>1, <4>1 DEF AreaParts, NothingBeyond, Starved
        <4> QED
          BY <4>4, <4>5 DEF EndIsPastAll
      <3> QED
        BY <3>2, <3>3, <3>4, <3>5 DEF LayoutKept
    <2> QED
      BY <2>2, <2>3
  <1> QED
    BY <1>1, RoomIsKept, AreasAreKept, PTL

-----------------------------------------------------------------------------
(* What the loader does to its page tables is what AddressSpace promises. *)
Asks == done' = 0 /\ request' \in Requests /\ mapping' = mapping

LEMMA AsksStep == Asks => AS!Next
  <1>1. ASSUME Asks PROVE AS!Ask(request')
    BY <1>1 DEF Asks, AS!Ask
  <1>2. Asks => request' \in Requests
    BY DEF Asks
  <1> QED
    BY <1>1, <1>2 DEF AS!Next

(* Each way to begin a range starts a request; an image that is given up
   leaves the request empty.                                              *)
LEMMA AsksSteps ==
  ASSUME RoomInv', MapSegment \/ MapStack \/ MapFramebuffer \/ MapInitrd \/ MapIdentity
                   \/ MapPageFails
  PROVE  Asks \/ UNCHANGED mapVars
  <1>1. request' \in Requests
    BY DEF RoomInv, LoaderTypeOK
  <1>2. ASSUME NEW v, NEW f, NEW n, StartMapping(v, f, n)
        PROVE  Asks
    <2>1. done' = 0 /\ mapping' = mapping
      BY <1>2 DEF StartMapping
    <2> QED
      BY <1>1, <2>1 DEF Asks
  <1>3. \A v, n : MapNewPages(v, n) => Asks
    BY <1>2 DEF MapNewPages
  <1>4. CASE MapSegment
    BY <1>3, <1>4 DEF MapSegment
  <1>5. CASE MapStack
    BY <1>3, <1>5 DEF MapStack, GoTo
  <1>6. CASE MapFramebuffer
    BY <1>2, <1>6 DEF MapFramebuffer, GoTo
  <1>7. CASE MapInitrd
    BY <1>2, <1>7 DEF MapInitrd, GoTo
  <1>8. CASE MapIdentity
    BY <1>2, <1>8 DEF MapIdentity
  <1>9. CASE MapPageFails
    <2>1. CASE pc = "segments"
      <3>1. done' = 0 /\ mapping' = mapping
        BY <1>9, <2>1 DEF MapPageFails
      <3> QED
        BY <1>1, <3>1 DEF Asks
    <2>2. CASE pc # "segments"
      BY <1>9, <2>2 DEF MapPageFails, GoTo
    <2> QED
      BY <2>1, <2>2
  <1> QED
    BY <1>4, <1>5, <1>6, <1>7, <1>8, <1>9

(* A table that is linked changes no translation; an entry that is written
   is the next page of the request.                                       *)
LEMMA MapPageRefines ==
  RoomInv /\ MapPage => AS!MapNext \/ UNCHANGED <<mapping, request, done>>
  <1> SUFFICES ASSUME RoomInv, MapPage
               PROVE  AS!MapNext \/ UNCHANGED <<mapping, request, done>>
    OBVIOUS
  <1>1. /\ done < request.count /\ done \in Nat
        /\ NextEntry.page = request.vaddr + done /\ NextEntry.frame = request.frame + done
    BY MapPageSteps
  <1>2. UNCHANGED request
    BY DEF MapPage
  <1>3. CASE Missing(NextEntry.page) = {}
    <2>1. mapping' = [mapping EXCEPT ![NextEntry.page] = NextEntry.frame] /\ done' = done + 1
      BY <1>3 DEF MapPage
    <2>2. request.vaddr + done * 1 = request.vaddr + done
      BY <1>1
    <2> QED
      BY <1>1, <1>2, <2>1, <2>2 DEF AS!MapNext
  <1>4. CASE Missing(NextEntry.page) # {}
    BY <1>2, <1>4 DEF MapPage
  <1> QED
    BY <1>3, <1>4

LEMMA StepRefines == RoomInv /\ RoomInv' /\ [Next]_vars => [AS!Next]_(AS!spaceVars)
  <1> SUFFICES ASSUME RoomInv, RoomInv', [Next]_vars
               PROVE  AS!Next \/ UNCHANGED <<mapping, request, done>>
    BY DEF AS!spaceVars
  <1>1. CASE MapSegment \/ MapStack \/ MapFramebuffer \/ MapInitrd \/ MapIdentity \/ MapPageFails
    BY <1>1, AsksSteps, AsksStep DEF mapVars
  <1>2. CASE MapPage
    BY <1>2, MapPageRefines DEF AS!Next
  <1>3. CASE \/ AllocateBootInfo \/ LoadBootImage \/ FindKernel \/ CreatePageTables \/ ReadImage
             \/ FinishImage \/ CheckKernel \/ CountProcessors
    BY <1>3 DEF AllocateBootInfo, LoadBootImage, FindKernel, CreatePageTables, ReadImage,
                FinishImage, CheckKernel, CountProcessors, GoTo, mapVars
  <1>4. CASE \/ SizeTemporaryMap \/ GetTemporaryMap \/ CheckMappings \/ SizeFinalMap
             \/ GetFinalMap \/ enter_kernel \/ FirmwareEvent \/ UNCHANGED vars
    BY <1>4 DEF SizeTemporaryMap, SizeMap, GetTemporaryMap, CheckMappings, SizeFinalMap,
                GetFinalMap, enter_kernel, FirmwareEvent, vars, GoTo, mapVars
  <1> QED
    BY <1>1, <1>2, <1>3, <1>4 DEF Next

LEMMA InitRefines == Init => AS!Init
  <1>1. Init => RoomInv
    BY RoomInit
  <1>2. RoomInv => request \in Requests
    BY DEF RoomInv, LoaderTypeOK
  <1>3. Init => done = 0 /\ request = [vaddr |-> 0, frame |-> 0, count |-> 0]
    BY DEF Init
  <1>4. Init => done = request.count
    BY <1>3
  <1> QED
    BY <1>1, <1>2, <1>4 DEF AS!Init

(* The loader's page tables implement AddressSpace, as the kernel's do: a
   range is mapped page by page, in order, each page to the frame asked for,
   and nothing else changes (virtual.cpp:357-475).                        *)
THEOREM LoaderImplementsAddressSpace == Spec => AddressSpaceSpec
  BY InitRefines, StepRefines, RoomIsKept, PTL DEF Spec, AddressSpaceSpec, AS!Spec
-----------------------------------------------------------------------------
(* The number of descriptors of the firmware's map. *)
Breaks(t) == {f \in Frames : f = 1 \/ t[f] # t[f - 1]}

LEMMA BreaksFinite == \A t : IsFiniteSet(Breaks(t)) /\ Descriptors(t) = Cardinality(Breaks(t))
  <1>1. IsFiniteSet(Frames)
    BY ConstantFacts, FS_Interval DEF Frames
  <1>2. ASSUME NEW t PROVE IsFiniteSet(Breaks(t))
    <2>1. Breaks(t) \in SUBSET Frames
      BY DEF Breaks
    <2> QED
      BY <1>1, <2>1, FS_Subset
  <1> QED
    BY <1>2 DEF Descriptors, Breaks

LEMMA TwoMore ==
  ASSUME NEW S, IsFiniteSet(S), NEW T, NEW a, NEW b, T \subseteq (S \cup {a}) \cup {b}
  PROVE  Cardinality(T) <= Cardinality(S) + 2
  <1>1. IsFiniteSet(S \cup {a}) /\ Cardinality(S \cup {a}) <= Cardinality(S) + 1
    BY FS_AddElement, FS_CardinalityType
  <1>2. /\ IsFiniteSet((S \cup {a}) \cup {b})
        /\ Cardinality((S \cup {a}) \cup {b}) <= Cardinality(S \cup {a}) + 1
    <2>1. ASSUME NEW U, IsFiniteSet(U)
          PROVE  IsFiniteSet(U \cup {b}) /\ Cardinality(U \cup {b}) <= Cardinality(U) + 1
      <3>1. Cardinality(U) \in Nat
        BY <2>1, FS_CardinalityType
      <3> QED
        BY <2>1, <3>1, FS_AddElement
    <2> QED
      BY <1>1, <2>1, Zenon
  <1>3. IsFiniteSet(T) /\ Cardinality(T) <= Cardinality((S \cup {a}) \cup {b})
    <2>1. T \in SUBSET ((S \cup {a}) \cup {b})
      OBVIOUS
    <2> QED
      BY <1>2, <2>1, FS_Subset
  <1>4. /\ Cardinality(S) \in Nat /\ Cardinality(T) \in Nat /\ Cardinality(S \cup {a}) \in Nat
        /\ Cardinality((S \cup {a}) \cup {b}) \in Nat
    BY <1>1, <1>2, <1>3, FS_CardinalityType
  <1> QED
    BY <1>1, <1>2, <1>3, <1>4

LEMMA OneForOne ==
  ASSUME NEW S, IsFiniteSet(S), NEW T, NEW a \in S, NEW b, T \subseteq (S \ {a}) \cup {b}
  PROVE  Cardinality(T) <= Cardinality(S)
  <1>1. IsFiniteSet(S \ {a}) /\ Cardinality(S \ {a}) = Cardinality(S) - 1
    BY FS_RemoveElement
  <1>2. /\ IsFiniteSet((S \ {a}) \cup {b})
        /\ Cardinality((S \ {a}) \cup {b}) <= Cardinality(S \ {a}) + 1
    BY <1>1, FS_AddElement, FS_CardinalityType
  <1>3. IsFiniteSet(T) /\ Cardinality(T) <= Cardinality((S \ {a}) \cup {b})
    <2>1. T \in SUBSET ((S \ {a}) \cup {b})
      OBVIOUS
    <2> QED
      BY <1>2, <2>1, FS_Subset
  <1>4. /\ Cardinality(S) \in Nat /\ Cardinality(T) \in Nat /\ Cardinality(S \ {a}) \in Nat
        /\ Cardinality((S \ {a}) \cup {b}) \in Nat
    BY <1>1, <1>2, <1>3, FS_CardinalityType
  <1> QED
    BY <1>1, <1>2, <1>3, <1>4

(* A change to one frame is seen at that frame and at the next one. *)
LEMMA BreaksNear ==
  ASSUME NEW t, NEW u, NEW f \in Frames, \A g \in Frames : g # f => u[g] = t[g]
  PROVE  Breaks(u) \subseteq (Breaks(t) \cup {f}) \cup {f + 1}
  <1>1. ASSUME NEW g \in Breaks(u), g # f, g # f + 1
        PROVE  g \in Breaks(t)
    <2>1. g \in Frames /\ (g = 1 \/ u[g] # u[g - 1])
      BY <1>1 DEF Breaks
    <2>2. CASE g = 1
      BY <2>1, <2>2 DEF Breaks
    <2>3. CASE g # 1
      <3>1. g - 1 \in Frames /\ g - 1 # f
        BY <1>1, <2>1, <2>3, ScalarFacts DEF Frames
      <3>2. u[g] = t[g] /\ u[g - 1] = t[g - 1]
        BY <1>1, <2>1, <3>1
      <3> QED
        BY <2>1, <2>3, <3>2 DEF Breaks
    <2> QED
      BY <2>2, <2>3
  <1> QED
    BY <1>1

(* A change to one frame splits one run of the map in three at most. *)
LEMMA OneFrameChanged ==
  ASSUME NEW t, NEW u, NEW f \in Frames, \A g \in Frames : g # f => u[g] = t[g]
  PROVE  Descriptors(u) <= Descriptors(t) + 2
  BY BreaksNear, BreaksFinite, TwoMore

(* A page at the end of the free memory that adjoins the loader's: the run
   of the loader's pages grows, and the free one shrinks.                 *)
LEMMA GrowsAtTheEnd ==
  ASSUME NEW t, NEW u, NEW f \in Frames, \A g \in Frames : g # f => u[g] = t[g],
         t[f] = "Conventional", u[f] = "LoaderData",
         \/ f - 1 \in Frames /\ t[f - 1] = "LoaderData"
         \/ f + 1 \in Frames /\ t[f + 1] = "LoaderData"
  PROVE  Descriptors(u) <= Descriptors(t)
  <1>1. Breaks(u) \subseteq (Breaks(t) \cup {f}) \cup {f + 1}
    BY BreaksNear
  <1>2. CASE f - 1 \in Frames /\ t[f - 1] = "LoaderData"
    <2>1. f \in Breaks(t)
      BY <1>2 DEF Breaks
    <2>2. f # 1 /\ f - 1 # f
      BY <1>2 DEF Frames
    <2>3. u[f - 1] = u[f]
      BY <1>2, <2>2
    <2>4. f \notin Breaks(u)
      BY <2>2, <2>3 DEF Breaks
    <2>5. Breaks(u) \subseteq (Breaks(t) \ {f}) \cup {f + 1}
      BY <1>1, <2>4
    <2> QED
      BY <2>1, <2>5, BreaksFinite, OneForOne
  <1>3. CASE f + 1 \in Frames /\ t[f + 1] = "LoaderData"
    <2>1. f + 1 # 1 /\ f + 1 # f /\ (f + 1) - 1 = f
      BY DEF Frames
    <2>2. f + 1 \in Breaks(t)
      BY <1>3, <2>1 DEF Breaks
    <2>3. u[f + 1] = u[f]
      BY <1>3, <2>1
    <2>4. f + 1 \notin Breaks(u)
      BY <2>1, <2>3 DEF Breaks
    <2>5. Breaks(u) \subseteq (Breaks(t) \ {f + 1}) \cup {f}
      BY <1>1, <2>4
    <2> QED
      BY <2>2, <2>5, BreaksFinite, OneForOne
  <1> QED
    BY <1>2, <1>3

(* A single page is placed at the end of the free memory. *)
LEMMA PlacedAtEnd ==
  ASSUME NEW f \in Placements(1)
  PROVE  /\ f \in Frames /\ type[f] = "Conventional"
         /\ IF policy = "lowest" THEN \A g \in Frames : g < f => type[g] # "Conventional"
            ELSE \A g \in Frames : g > f => type[g] # "Conventional"
  <1> DEFINE fit == {g \in Frames : /\ 1 > 0 /\ g + 1 - 1 <= MemoryPages
                                    /\ \A h \in Span(g, 1) : type[h] = "Conventional"}
  <1>1. /\ fit # {} /\ fit \in SUBSET Nat
        /\ f = IF policy = "lowest" THEN Min(fit) ELSE Max(fit)
    BY ScalarFacts DEF Placements, Frames
  <1>2. fit = {g \in Frames : type[g] = "Conventional"}
    <2>1. \A g \in Frames : Span(g, 1) = {g} /\ g + 1 - 1 <= MemoryPages
      BY ScalarFacts DEF Span, Frames
    <2> QED
      BY <2>1
  <1>3. \A g \in fit : g <= MemoryPages
    BY ScalarFacts DEF Frames
  <1>4. /\ Min(fit) \in fit /\ \A g \in fit : Min(fit) <= g
        /\ Max(fit) \in fit /\ \A g \in fit : g <= Max(fit)
    <2> HIDE DEF fit
    <2> QED
      BY <1>1, <1>3, ScalarFacts, MinIsLeast, MaxIsGreatest
  <1>5. f \in fit /\ (\A g \in fit : IF policy = "lowest" THEN f <= g ELSE g <= f)
    BY <1>1, <1>4
  <1>6. ASSUME NEW g \in Frames, type[g] = "Conventional"
        PROVE  IF policy = "lowest" THEN ~(g < f) ELSE ~(g > f)
    <2>1. g \in fit
      BY <1>2, <1>6
    <2>2. f \in Nat /\ g \in Nat
      BY <1>5, <1>6 DEF Frames
    <2> QED
      BY <1>5, <2>1, <2>2
  <1>7. f \in Frames /\ type[f] = "Conventional"
    BY <1>2, <1>5
  <1> QED
    BY <1>6, <1>7
-----------------------------------------------------------------------------
(* As long as the firmware is quiet, its memory goes to the loader and back. *)
Traded(f) == type'[f] = type[f] \/ {type[f], type'[f]} \subseteq {"LoaderData", "Conventional"}
Trades == (\A f \in Frames : Traded(f)) /\ policy' = policy

LEMMA QuietTrades ==
  ASSUME QuietInv, pc \notin {"boot info", "failed"}, pc' # "boot info",
         Trades, pool'["boot_info"] = pool["boot_info"], events' = events
  PROVE  QuietInv'
  <1> SUFFICES ASSUME events = 0
               PROVE  \E top \in Frames :
                        /\ Shape(top)'
                        /\ top > 1
                        /\ pool'["boot_info"] = IF policy' = "lowest" THEN 2 ELSE top
    BY DEF QuietInv
  <1>1. PICK top \in Frames :
          /\ Shape(top) /\ top > 1
          /\ pool["boot_info"] = IF policy = "lowest" THEN 2 ELSE top
    BY DEF QuietInv
  <1>2. Shape(top)'
    BY <1>1 DEF Shape, Trades, Traded
  <1> QED
    BY <1>1, <1>2 DEF Trades

LEMMA TradesAllocatePages ==
  ASSUME RoomInv, NEW n \in Nat, NEW f \in Placements(n), AllocatePages(f, n),
         UNCHANGED <<pool, poolPages, policy>>
  PROVE  Trades /\ pool'["boot_info"] = pool["boot_info"]
  <1>1. \A g \in Span(f, n) : type[g] = "Conventional"
    BY PlacementIsFree
  <1>2. type' = [g \in Frames |-> IF g \in Span(f, n) THEN "LoaderData" ELSE type[g]]
    BY DEF AllocatePages, Retype
  <1> QED
    BY <1>1, <1>2 DEF Trades, Traded

LEMMA TradesAllocatePool ==
  ASSUME RoomInv, NEW b \in {"boot_info", "temporary", "final"}, AllocatePool(b)
  PROVE  Trades
  <1>1. PICK f \in poolPages \cup Placements(1) :
          IF f \in poolPages THEN UNCHANGED <<type, mapKey>> ELSE AllocatePages(f, 1)
    BY DEF AllocatePool
  <1>2. policy' = policy
    BY DEF AllocatePool
  <1>3. CASE f \in poolPages
    BY <1>1, <1>2, <1>3 DEF Trades, Traded
  <1>4. CASE f \notin poolPages
    <2>1. \A g \in Span(f, 1) : type[g] = "Conventional"
      BY <1>1, <1>4, PlacementIsFree
    <2>2. type' = [g \in Frames |-> IF g \in Span(f, 1) THEN "LoaderData" ELSE type[g]]
      BY <1>1, <1>4 DEF AllocatePages, Retype
    <2> QED
      BY <1>2, <2>1, <2>2 DEF Trades, Traded
  <1> QED
    BY <1>3, <1>4

LEMMA TradesFreePool ==
  ASSUME RoomInv, HeldPool, FreePool("temporary")
  PROVE  Trades /\ pool'["boot_info"] = pool["boot_info"]
  <1>1. policy' = policy /\ pool' = [pool EXCEPT !["temporary"] = Absent]
    BY DEF FreePool
  <1>2. "temporary" \in DOMAIN pool /\ pool["temporary"] \in poolPages \cup {Absent}
    BY DEF RoomInv, LoaderTypeOK, HeldPool
  <1>3. \A f \in Frames : f = pool["temporary"] => type[f] = "LoaderData"
    BY <1>2, ScalarFacts, ConstantFacts DEF HeldPool, Frames
  <1>4. Trades
    BY <1>1, <1>3 DEF FreePool, Retype, Trades, Traded
  <1> QED
    BY <1>1, <1>4

LEMMA QuietAllocateBootInfo == RoomInv /\ QuietInv /\ AllocateBootInfo => QuietInv'
  <1> SUFFICES ASSUME RoomInv, QuietInv, AllocateBootInfo, events' = 0, pc' # "failed"
               PROVE  \E top \in Frames :
                        /\ Shape(top)'
                        /\ top > 1
                        /\ pool'["boot_info"] = IF policy' = "lowest" THEN 2 ELSE top
    BY DEF QuietInv, AllocateBootInfo, GoTo
  <1>1. pc = "boot info" /\ AllocatePool("boot_info") /\ events' = events
    BY DEF AllocateBootInfo, GoTo, loaderVars
  <1>2. PICK top \in Frames :
          Shape(top) /\ poolPages = {} /\ \A f \in 2 .. top : type[f] = "Conventional"
    BY <1>1 DEF QuietInv
  <1>3. PICK f \in Placements(1) : pool' = [pool EXCEPT !["boot_info"] = f]
    BY <1>1, <1>2 DEF AllocatePool
  <1>4. /\ f \in Frames /\ type[f] = "Conventional"
        /\ IF policy = "lowest" THEN \A g \in Frames : g < f => type[g] # "Conventional"
           ELSE \A g \in Frames : g > f => type[g] # "Conventional"
    BY <1>3, PlacedAtEnd
  <1>5. f \in 2 .. top
    BY <1>2, <1>4 DEF Shape, Frames
  <1>6. f = IF policy = "lowest" THEN 2 ELSE top
    <2>1. 2 \in 2 .. top /\ top \in 2 .. top /\ 2 \in Frames /\ top \in Frames
      BY <1>2, <1>5, ScalarFacts DEF Frames
    <2>2. type[2] = "Conventional" /\ type[top] = "Conventional"
      BY <1>2, <2>1
    <2>3. f \in Nat /\ top \in Nat /\ 2 <= f /\ f <= top
      BY <1>5, <1>2 DEF Frames
    <2> QED
      BY <1>4, <2>1, <2>2, <2>3
  <1>7. pool'["boot_info"] = f
    BY <1>3 DEF RoomInv, LoaderTypeOK
  <1>8. Trades
    BY <1>1, TradesAllocatePool
  <1>9. Shape(top)' /\ policy' = policy
    BY <1>2, <1>8 DEF Shape, Trades, Traded
  <1>10. top > 1
    BY <1>2, <1>5 DEF Frames
  <1> QED
    BY <1>2, <1>6, <1>7, <1>9, <1>10

LEMMA QuietAllocates ==
  RoomInv /\ QuietInv
    /\ (LoadBootImage \/ CreatePageTables \/ MapSegment \/ MapStack \/ MapPage) => QuietInv'
  <1> SUFFICES ASSUME RoomInv, QuietInv,
                      LoadBootImage \/ CreatePageTables \/ MapSegment \/ MapStack \/ MapPage
               PROVE  QuietInv'
    OBVIOUS
  <1>1. /\ pc \notin {"boot info", "failed"} /\ pc' # "boot info" /\ events' = events
    BY DEF LoadBootImage, CreatePageTables, MapSegment, MapStack, MapPage, GoTo, loaderVars
  <1>2. \/ UNCHANGED <<type, pool, policy>>
        \/ \E n \in Nat : \E f \in Placements(n) :
             AllocatePages(f, n) /\ UNCHANGED <<pool, poolPages, policy>>
    <2>1. CASE LoadBootImage
      BY <2>1, ScalarFacts DEF LoadBootImage, GoTo, firmwareVars
    <2>2. CASE CreatePageTables
      BY <2>2 DEF CreatePageTables, GoTo, firmwareVars
    <2>3. CASE MapSegment
      <3>1. pc = "segments" /\ i \in 0 .. Len(Segments) /\ i < Len(Segments)
        BY <2>3 DEF MapSegment, RoomInv
      <3>2. i + 1 \in 1 .. Len(Segments)
        BY <3>1, ScalarFacts
      <3>3. Segments[i + 1].count \in Nat
        BY <3>2, ConstantFacts
      <3> QED
        BY <2>3, <3>3 DEF MapSegment, MapNewPages, firmwareVars
    <2>4. CASE MapStack
      BY <2>4, ScalarFacts DEF MapStack, MapNewPages, GoTo, firmwareVars
    <2>5. CASE MapPage
      BY <2>5 DEF MapPage, firmwareVars
    <2> QED
      BY <2>1, <2>2, <2>3, <2>4, <2>5
  <1>3. Trades /\ pool'["boot_info"] = pool["boot_info"]
    BY <1>2, TradesAllocatePages DEF Trades, Traded
  <1> QED
    BY <1>1, <1>3, QuietTrades

LEMMA QuietSizeMap ==
  RoomInv /\ QuietInv /\ (SizeTemporaryMap \/ SizeFinalMap) => QuietInv'
  <1> SUFFICES ASSUME RoomInv, QuietInv, SizeTemporaryMap \/ SizeFinalMap, ~GoTo("failed")
               PROVE  QuietInv'
    BY DEF GoTo, QuietInv
  <1>1. PICK b \in {"temporary", "final"} :
          /\ AllocatePool(b) /\ pc \in {"initrd", "final map"}
          /\ pc' \in {"get temporary", "get final"} /\ events' = events
    BY DEF SizeTemporaryMap, SizeFinalMap, SizeMap
  <1>2. Trades
    BY <1>1, TradesAllocatePool
  <1>3. pool'["boot_info"] = pool["boot_info"]
    <2>1. PICK f : pool' = [pool EXCEPT ![b] = f]
      BY <1>1 DEF AllocatePool
    <2>2. b # "boot_info"
      BY <1>1
    <2> QED
      BY <2>1, <2>2 DEF RoomInv, LoaderTypeOK
  <1> QED
    BY <1>1, <1>2, <1>3, QuietTrades

LEMMA QuietOthers ==
  QuietInv /\ (\/ FindKernel \/ ReadImage \/ FinishImage \/ CheckKernel \/ CountProcessors
               \/ MapFramebuffer \/ MapInitrd \/ GetTemporaryMap \/ MapIdentity \/ GetFinalMap
               \/ enter_kernel \/ MapPageFails \/ UNCHANGED vars) => QuietInv'
  <1> SUFFICES ASSUME QuietInv,
                      \/ FindKernel \/ ReadImage \/ FinishImage \/ CheckKernel \/ CountProcessors
                      \/ MapFramebuffer \/ MapInitrd \/ GetTemporaryMap \/ MapIdentity
                      \/ GetFinalMap \/ enter_kernel \/ MapPageFails
               PROVE  QuietInv'
    BY DEF vars, firmwareVars, loaderVars, QuietInv, Shape
  <1>1. /\ pc \notin {"boot info", "failed"} /\ pc' # "boot info"
        /\ events' = events /\ UNCHANGED firmwareVars
    BY DEF FindKernel, ReadImage, FinishImage, CheckKernel, CountProcessors, MapFramebuffer,
           MapInitrd, GetTemporaryMap, MapIdentity, GetFinalMap, enter_kernel, MapPageFails,
           CheckThen, GoTo, loaderVars
  <1>2. Trades
    BY <1>1 DEF Trades, Traded, firmwareVars
  <1> QED
    BY <1>1, <1>2, QuietTrades DEF firmwareVars

LEMMA QuietNext == RoomInv /\ HeldInv /\ QuietInv /\ [Next]_vars => QuietInv'
  <1> SUFFICES ASSUME RoomInv, HeldInv, QuietInv, [Next]_vars PROVE QuietInv'
    OBVIOUS
  <1>1. CASE CheckMappings
    <2>1. /\ FreePool("temporary") /\ pc \notin {"boot info", "failed"} /\ pc' # "boot info"
          /\ events' = events
      BY <1>1 DEF CheckMappings, CheckThen
    <2> QED
      BY <2>1, TradesFreePool, QuietTrades DEF HeldInv
  <1>2. CASE FirmwareEvent
    <2>1. events' = events + 1 /\ events \in 0 .. MaxEvents
      BY <1>2 DEF FirmwareEvent, RoomInv, LoaderTypeOK
    <2>2. events' # 0
      BY <2>1, ScalarFacts
    <2> QED
      BY <2>2 DEF QuietInv
  <1> QED
    BY <1>1, <1>2, QuietAllocateBootInfo, QuietAllocates, QuietSizeMap, QuietOthers DEF Next

LEMMA QuietInit == Init => QuietInv
  <1> SUFFICES ASSUME Init PROVE QuietInv
    OBVIOUS
  <1>1. PICK top \in Frames :
          type = [f \in Frames |-> IF f = 1 THEN "LoaderCode"
                                   ELSE IF f <= top THEN "Conventional" ELSE "BootServicesData"]
    BY DEF Init
  <1>2. Shape(top)
    BY <1>1 DEF Shape
  <1>3. \A f \in 2 .. top : type[f] = "Conventional"
    BY <1>1, ScalarFacts DEF Frames
  <1>4. pc = "boot info" /\ poolPages = {}
    BY DEF Init
  <1> QED
    BY <1>2, <1>3, <1>4 DEF QuietInv

(* With the firmware quiet, the buffer's page adjoins the loader's. *)
LEMMA NeighbourIsLoaders ==
  ASSUME NEW top \in Frames, Shape(top), NEW f \in Frames, type[f] = "Conventional",
         top > 1, type[IF policy = "lowest" THEN 2 ELSE top] = "LoaderData",
         IF policy = "lowest" THEN \A g \in Frames : g < f => type[g] # "Conventional"
         ELSE \A g \in Frames : g > f => type[g] # "Conventional"
  PROVE  \/ f - 1 \in Frames /\ type[f - 1] = "LoaderData"
         \/ f + 1 \in Frames /\ type[f + 1] = "LoaderData"
  <1>1. f # 1 /\ f <= top
    BY DEF Shape
  <1>2. f \in Nat /\ top \in Nat /\ 1 <= f /\ top <= MemoryPages
    BY ScalarFacts DEF Frames
  <1>3. CASE policy = "lowest"
    <2>1. f # 2
      BY <1>3
    <2>2. f - 1 \in Frames /\ f - 1 < f /\ f - 1 # 1 /\ f - 1 <= top
      BY <1>1, <1>2, <2>1, ScalarFacts DEF Frames
    <2>3. type[f - 1] # "Conventional"
      BY <1>3, <2>2
    <2> QED
      BY <2>2, <2>3 DEF Shape
  <1>4. CASE policy # "lowest"
    <2>1. f # top
      BY <1>4
    <2>2. f + 1 \in Frames /\ f + 1 > f /\ f + 1 # 1 /\ f + 1 <= top
      BY <1>1, <1>2, <2>1, ScalarFacts DEF Frames
    <2>3. type[f + 1] # "Conventional"
      BY <1>4, <2>2
    <2> QED
      BY <2>2, <2>3 DEF Shape
  <1> QED
    BY <1>3, <1>4

LEMMA SameDescriptors == type' = type => Descriptors(type') <= Descriptors(type)
  <1>1. Descriptors(type) \in Nat
    BY DescriptorsNat
  <1>2. \A d \in Nat : d <= d
    OBVIOUS
  <1> QED
    BY <1>1, <1>2, Zenon

LEMMA OnlyOneFrame ==
  ASSUME NEW f \in Frames, AllocatePages(f, 1)
  PROVE  type'[f] = "LoaderData" /\ \A g \in Frames : g # f => type'[g] = type[g]
  <1>1. type' = [g \in Frames |-> IF g \in Span(f, 1) THEN "LoaderData" ELSE type[g]]
    BY DEF AllocatePages, Retype
  <1>2. \A g \in Frames : g \in Span(f, 1) <=> g = f
    BY DEF Span, Frames
  <1> QED
    BY <1>1, <1>2

LEMMA QuietPool ==
  ASSUME NEW top \in Frames, Shape(top), top > 1, \A g \in poolPages : type[g] = "LoaderData",
         (IF policy = "lowest" THEN 2 ELSE top) \in poolPages,
         NEW b \in {"temporary", "final"}, AllocatePool(b)
  PROVE  Descriptors(type') <= Descriptors(type)
  <1>1. PICK f \in poolPages \cup Placements(1) :
          IF f \in poolPages THEN UNCHANGED <<type, mapKey>> ELSE AllocatePages(f, 1)
    BY DEF AllocatePool
  <1>2. CASE f \in poolPages
    BY <1>1, <1>2, SameDescriptors
  <1>3. CASE f \notin poolPages
    <2>1. f \in Placements(1) /\ AllocatePages(f, 1)
      BY <1>1, <1>3
    <2>2. /\ f \in Frames /\ type[f] = "Conventional"
          /\ IF policy = "lowest" THEN \A g \in Frames : g < f => type[g] # "Conventional"
             ELSE \A g \in Frames : g > f => type[g] # "Conventional"
      BY <2>1, PlacedAtEnd
    <2>3. \/ f - 1 \in Frames /\ type[f - 1] = "LoaderData"
          \/ f + 1 \in Frames /\ type[f + 1] = "LoaderData"
      BY <2>2, NeighbourIsLoaders
    <2>4. type'[f] = "LoaderData" /\ \A g \in Frames : g # f => type'[g] = type[g]
      BY <2>1, <2>2, OnlyOneFrame
    <2> QED
      BY <2>2, <2>3, <2>4, GrowsAtTheEnd
  <1> QED
    BY <1>2, <1>3

LEMMA QuietMapGrowsNot ==
  RoomInv /\ HeldInv /\ QuietInv /\ events = 0 /\ pc \in {"initrd", "final map"}
    => \A b \in {"temporary", "final"} : AllocatePool(b) => Descriptors(type') <= Descriptors(type)
  <1> SUFFICES ASSUME RoomInv, HeldInv, QuietInv, events = 0, pc \in {"initrd", "final map"},
                      NEW b \in {"temporary", "final"}, AllocatePool(b)
               PROVE  Descriptors(type') <= Descriptors(type)
    OBVIOUS
  <1>1. PICK top \in Frames :
          Shape(top) /\ top > 1 /\ pool["boot_info"] = IF policy = "lowest" THEN 2 ELSE top
    BY DEF QuietInv
  <1>2. pool["boot_info"] \in poolPages /\ \A g \in poolPages : type[g] = "LoaderData"
    BY DEF HeldInv, HeldBuffers, HeldPool
  <1> QED
    BY <1>1, <1>2, QuietPool

LEMMA AnyPool ==
  ASSUME NEW b \in {"temporary", "final"}, AllocatePool(b), RoomInv
  PROVE  Descriptors(type') <= Descriptors(type) + 2
  <1>1. PICK f \in poolPages \cup Placements(1) :
          IF f \in poolPages THEN UNCHANGED <<type, mapKey>> ELSE AllocatePages(f, 1)
    BY DEF AllocatePool
  <1>2. f \in Frames
    BY <1>1, PlacedAtEnd DEF RoomInv, LoaderTypeOK
  <1>3. \A g \in Frames : g # f => type'[g] = type[g]
    BY <1>1, <1>2, OnlyOneFrame
  <1> QED
    BY <1>2, <1>3, OneFrameChanged

LEMMA Sums ==
  /\ \A d, s, e \in Nat : d + MapMargin <= s + 2 * e /\ 2 * e <= MapMargin => d <= s
  /\ \A c, d, s, e \in Nat :
       c <= d + 2 /\ d + MapMargin <= s + 2 * e => c + MapMargin <= s + 2 * (e + 1)
  /\ \A c, d, e \in Nat : e # 0 /\ c <= d + 2 => c <= d + 2 * e
  /\ \A c, d, e \in Nat : c <= d => c <= d + 2 * e
  /\ \A c, d, e \in Nat : c <= d + 2 * e => c + MapMargin <= (d + MapMargin) + 2 * e
  BY ScalarFacts

LEMMA EventsNat == RoomInv => events \in Nat /\ memmap.size \in Nat
  <1>1. RoomInv => events \in 0 .. MaxEvents /\ memmap.size \in Nat
    BY DEF RoomInv, LoaderTypeOK
  <1>2. \A e \in 0 .. MaxEvents : e \in Nat
    BY ScalarFacts
  <1> QED
    BY <1>1, <1>2, Zenon

LEMMA MarginSizeMap ==
  ASSUME RoomInv, HeldInv, MarginInv, SizeTemporaryMap \/ SizeFinalMap,
         pc' \in {"get temporary", "get final"}
  PROVE  Descriptors(type') + MapMargin <= memmap'.size + 2 * events'
  <1>1. PICK b \in {"temporary", "final"} :
          /\ AllocatePool(b) /\ memmap' = [memmap EXCEPT !.size = MapSize]
          /\ pc \in {"initrd", "final map"} /\ events' = events
    BY DEF SizeTemporaryMap, SizeFinalMap, SizeMap, GoTo
  <1>2. memmap'.size = Descriptors(type) + MapMargin
    BY <1>1 DEF MapSize, RoomInv
  <1>3. events \in Nat
    BY EventsNat
  <1>4. Descriptors(type') \in Nat /\ Descriptors(type) \in Nat
    BY DescriptorsNat
  <1>5. Descriptors(type') <= Descriptors(type) + 2 * events
    <2>1. CASE events = 0
      <3>1. Descriptors(type') <= Descriptors(type)
        BY <1>1, <2>1, QuietMapGrowsNot DEF MarginInv
      <3> QED
        BY <1>3, <1>4, <3>1, Sums, Zenon
    <2>2. CASE events # 0
      <3>1. Descriptors(type') <= Descriptors(type) + 2
        BY <1>1, AnyPool
      <3> QED
        BY <1>3, <1>4, <2>2, <3>1, Sums, Zenon
    <2> QED
      BY <2>1, <2>2
  <1>6. Descriptors(type') + MapMargin <= (Descriptors(type) + MapMargin) + 2 * events
    BY <1>3, <1>4, <1>5, Sums, Zenon
  <1>7. memmap'.size = Descriptors(type) + MapMargin /\ events' = events
    BY <1>1, <1>2
  <1> QED
    BY <1>6, <1>7, Zenon

LEMMA MarginFirmwareEvent ==
  ASSUME RoomInv, MarginInv, FirmwareEvent, pc \in {"get temporary", "get final"}
  PROVE  Descriptors(type') + MapMargin <= memmap'.size + 2 * events'
  <1>1. PICK f \in Frames : Retype({f}, "BootServicesData") \/ Retype({f}, "Conventional")
    BY DEF FirmwareEvent
  <1>2. \A g \in Frames : g # f => type'[g] = type[g]
    BY <1>1 DEF Retype
  <1>3. Descriptors(type') <= Descriptors(type) + 2
    BY <1>2, OneFrameChanged
  <1>4. memmap' = memmap /\ events' = events + 1
    BY DEF FirmwareEvent
  <1>5. Descriptors(type) + MapMargin <= memmap.size + 2 * events
    BY DEF MarginInv
  <1>6. events \in Nat /\ memmap.size \in Nat
    BY EventsNat
  <1>7. Descriptors(type') \in Nat /\ Descriptors(type) \in Nat
    BY DescriptorsNat
  <1>8. Descriptors(type') + MapMargin <= memmap.size + 2 * (events + 1)
    BY <1>3, <1>5, <1>6, <1>7, Sums, Zenon
  <1> QED
    BY <1>4, <1>8, Zenon

LEMMA MarginNext == RoomInv /\ HeldInv /\ MarginInv /\ [Next]_vars => MarginInv'
  <1> SUFFICES ASSUME RoomInv, HeldInv, MarginInv, [Next]_vars,
                      pc' \in {"get temporary", "get final"}
               PROVE  Descriptors(type') + MapMargin <= memmap'.size + 2 * events'
    BY QuietNext DEF MarginInv
  <1>1. CASE SizeTemporaryMap \/ SizeFinalMap
    BY <1>1, MarginSizeMap
  <1>2. CASE FirmwareEvent
    BY <1>2, MarginFirmwareEvent DEF FirmwareEvent
  <1>3. CASE UNCHANGED vars
    BY <1>3 DEF vars, firmwareVars, loaderVars, MarginInv
  <1> QED
    BY <1>1, <1>2, <1>3
    DEF Next, AllocateBootInfo, LoadBootImage, FindKernel, CreatePageTables, ReadImage, MapSegment,
        FinishImage, CheckKernel, CountProcessors, MapStack, MapFramebuffer, MapInitrd,
        GetTemporaryMap, MapIdentity, CheckMappings, GetFinalMap, enter_kernel, MapPage,
        MapPageFails, CheckThen, GoTo

(* The buffer for the memory map holds all but as many descriptors as the
   firmware has made changes, twice over (virtual.cpp:420-444).           *)
THEOREM MarginIsKept == Spec => []MarginInv
  <1>1. Init => MarginInv
    BY QuietInit DEF MarginInv, Init
  <1> QED
    BY <1>1, MarginNext, RoomIsKept, FramesAreHeld, PTL DEF Spec

(* The descriptors added to the size asked for suffice for the loader's own
   allocation of the buffer and for half as many changes by the firmware.  *)
THEOREM MarginIsEnough == Spec => []MarginSuffices
  <1>1. RoomInv /\ MarginInv => MarginSuffices
    <2> SUFFICES ASSUME RoomInv, MarginInv, pc \in {"get temporary", "get final"},
                        2 * events <= MapMargin
                 PROVE  Descriptors(type) <= memmap.size
      BY DEF MarginSuffices, MapFits
    <2>1. Descriptors(type) + MapMargin <= memmap.size + 2 * events
      BY DEF MarginInv
    <2>2. events \in Nat /\ memmap.size \in Nat
      BY EventsNat
    <2>3. Descriptors(type) \in Nat
      BY DescriptorsNat
    <2> QED
      BY <2>1, <2>2, <2>3, Sums, Zenon
  <1> QED
    BY <1>1, RoomIsKept, MarginIsKept, PTL

===============================================================================
