--------------------------- MODULE MCFrameAllocator ---------------------------
(* Values for model-checking FrameAllocator: a byte of 2 bits and a 64-bit   *)
(* word of 4, so that a byte-aligned page need not be word-aligned.          *)
EXTENDS FrameAllocator

(* Every set of free frames. *)
AllMaps == SUBSET Frames

(* Two regions with a used frame between them. *)
TwoRegionMaps == {{0, 1} \cup {3, 4}}

(* Over one free region calls are made until four grants, which use it up, and
   over other maps until two.                                             *)
MCNext == Next /\ (pc = "idle" /\ pc' = "loop" => OneRegion \/ Len(grants) < 2)
FairMCSpec == Init /\ [][MCNext]_vars /\ WF_vars(Step)
===============================================================================
