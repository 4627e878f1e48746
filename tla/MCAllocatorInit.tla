---------------------------- MODULE MCAllocatorInit ----------------------------
(* Values for model-checking AllocatorInit and UefiBootstrap: regions of one  *)
(* to four frames, which make a bitmap of one to three pages of three bytes   *)
(* of two bits.                                                               *)
EXTENDS AllocatorInit, MCMemoryMaps

CONSTANT Clients   \* who uses the bootstrapper

(* "kernel": DefaultKernelContext's constructor and init.  "any order": a
   client that calls the bootstrapper's operations in every order.        *)
VARIABLE client

RegionMaps == MapsOf({1, 3, 4})
KernelMaps == MapsOf({1, 4})
ClientMaps == MapsOf({1, 3})

mcVars == <<vars, client>>
MCInit == /\ client \in Clients
          /\ Init
          /\ memoryMap \in IF client = "kernel" THEN KernelMaps ELSE ClientMaps
MCNext == /\ UNCHANGED client
          /\ \/ client = "kernel" /\ Next
             \/ client = "any order" /\ Operation /\ UNCHANGED initVars

MCSpec == MCInit /\ [][MCNext]_mcVars
FairMCSpec == MCSpec /\ WF_mcVars(client = "kernel" /\ MCNext)

(* The types of both modules' variables. *)
BootAndInitTypeOK == BootTypeOK /\ InitTypeOK

(* The kernel's boot ends: init returns and the bootstrapper is destroyed. *)
KernelBootEnds == client = "kernel" => BootEnds
===============================================================================
