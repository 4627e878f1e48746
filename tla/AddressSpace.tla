----------------------------- MODULE AddressSpace -----------------------------
(***************************************************************************)
(* What page tables promise whoever maps memory, with no tables in it: a   *)
(* request for a range of virtual pages is carried out page by page, in    *)
(* order, each page going to the frame asked for, and no other page ever   *)
(* changes.  A request may be left off anywhere (the caller is told).      *)
(* k::PageTables is the interface.                                         *)
(***************************************************************************)
EXTENDS Integers

CONSTANTS
  PageSize,
  Requests    \* records [vaddr, frame, count]

VARIABLES
  mapping,    \* from virtual pages to frames
  request,    \* what was asked for last
  done        \* how many of its pages are mapped

spaceVars == <<mapping, request, done>>

Init == request \in Requests /\ done = request.count

Ask(r) ==
  /\ request' = r
  /\ done' = 0
  /\ UNCHANGED mapping

MapNext ==
  /\ done < request.count
  /\ mapping' = [mapping EXCEPT ![request.vaddr + done * PageSize] =
                                   request.frame + done]
  /\ done' = done + 1
  /\ UNCHANGED request

Next == MapNext \/ \E r \in Requests : Ask(r)

Spec == Init /\ [][Next]_spaceVars
===============================================================================
