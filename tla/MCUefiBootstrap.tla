---------------------------- MODULE MCUefiBootstrap ----------------------------
(* Values for model-checking UefiBootstrap: regions of one or three frames.   *)
EXTENDS UefiBootstrap, MCMemoryMaps

RegionMaps == MapsOf({1, 3})
===============================================================================
