------------------------ MODULE MCRecursivePageTables ------------------------
(* Values for model-checking RecursivePageTables: tables of four entries of  *)
(* two bytes, so that a page offset shifted down may fall inside an entry.   *)
(* Frame 0 is the root, frames 7 and 8 are data, 1 to 6 are for tables.      *)
EXTENDS RecursivePageTables, TLC

CONSTANT Scenarios   \* which of the three settings below a run covers

VARIABLE scenario

PageFrames == 0 .. 8
Page(w, x, y, z) == (((w * 4 + x) * 4 + y) * 4 + z) * kPageSize

Table(links) == [i \in Indices |-> IF i \in DOMAIN links THEN links[i] ELSE Absent]
Root(links) == [i \in Indices |-> IF i = 3 THEN 0 ELSE Table(links)[i]]
Memory(tables, stale) ==
  [f \in Frames |-> IF f \in DOMAIN tables THEN tables[f] ELSE Table(stale)]

(* Nothing is mapped, and unused frames are zero or hold what looks like
   entries.                                                               *)
FreshStates ==
  {[mem |-> Memory(0 :> Root(<<>>), stale), free |-> 1 .. n] :
     stale \in {<<>>, [i \in Indices |-> 7]}, n \in {3, 5}}
AlignedRequests ==
  [vaddr : {Page(0, 0, 0, 0), Page(2, 0, 0, 0)}, frame : {7}, count : {1, 2}]

(* What a loader leaves: the kernel's two tables at the start of slot 2, one
   more in the middle, and a page mapped in each.                          *)
LoaderTables ==
  (0 :> Root(2 :> 1)) @@ (1 :> Table(0 :> 2)) @@
  (2 :> Table(0 :> 3 @@ 1 :> 4 @@ 2 :> 5)) @@ (3 :> Table(0 :> 7)) @@
  (4 :> Table(1 :> 8)) @@ (5 :> Table(<<>>))
GapTables ==
  (0 :> Root(2 :> 1)) @@ (1 :> Table(0 :> 2)) @@
  (2 :> Table(0 :> 3 @@ 2 :> 5)) @@ (3 :> Table(0 :> 7)) @@ (5 :> Table(<<>>))
KernelRequests ==
  [vaddr : {Page(2, 0, y, z) : y \in 0 .. 3, z \in {1, 3}} \cup {Page(2, 1, 0, 0)},
   frame : {7}, count : {1}]
  \cup [vaddr : {Page(2, 0, 0, 3)}, frame : {7}, count : {2}]

BootStates == {[mem |-> Memory(t, <<>>), free |-> {}] : t \in {LoaderTables, GapTables}}
ZeroedStates == {[mem |-> Memory(GapTables, <<>>), free |-> {4, 6}]}

AllStates == FreshStates \cup BootStates \cup ZeroedStates
AllRequests == AlignedRequests \cup KernelRequests

(* "fresh": ranges that begin where a root entry begins are mapped into an
   empty address space, with tables from frames of any content until there
   are none left.  "boot": the loader's tables are there and the allocator
   refuses every request, as during init.  "zeroed": tables are created from
   zeroed frames for any page.                                            *)
StatesOf == [fresh |-> FreshStates, boot |-> BootStates, zeroed |-> ZeroedStates]
RequestsOf(s) == IF s = "fresh" THEN AlignedRequests ELSE KernelRequests

ASSUME ScenarioAssumption ==
  /\ Scenarios \subseteq {"fresh", "boot", "zeroed"}
  /\ Growing(FreshStates, AlignedRequests)
  /\ Fixed(BootStates, KernelRequests)

mcVars == <<vars, scenario>>
MCInit == /\ scenario \in Scenarios
          /\ Init
          /\ [mem |-> mem, free |-> free] \in StatesOf[scenario]
          /\ request \in RequestsOf(scenario)
MCNext == Next /\ request' \in RequestsOf(scenario) /\ UNCHANGED scenario
MCSpec == MCInit /\ [][MCNext]_mcVars

(* Clearing a table that is created for a page in the middle of another
   (zeroed) runs over, and the loader's tables need not cover the page asked
   for (boot).  Otherwise the tables are a tree and map touches no address
   that is not mapped (RecursivePageTables::map 36-78).                   *)
TreeWithoutFault == scenario = "fresh" => TablesFormTree /\ NoFault

(* FramesAccounted of RecursivePageTables: no page taken for a table is lost
   when map gives up halfway and is called again.                         *)
NoFrameLost ==
  [][scenario # "zeroed" => Tables' \cup free' = Tables \cup free]_mcVars

(* AddressSpaceSpec of RecursivePageTables: every step leaves all translations
   alone or maps the next page asked for (the loop of PageTables::map).   *)
AddressSpaceKept ==
  /\ scenario # "zeroed" => Space!Init
  /\ [][scenario # "zeroed" => [Space!Next]_(Space!spaceVars)]_mcVars
===============================================================================
