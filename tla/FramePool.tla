------------------------------ MODULE FramePool ------------------------------
(***************************************************************************)
(* What a physical page allocator promises its callers, with no bitmap, no *)
(* search and no hint: a pool of free page frames from which a request for *)
(* n pages removes one contiguous run of at most n frames and hands it     *)
(* out.  k::PhysicalMemoryAllocator is the interface, FrameAllocator the   *)
(* detailed specification that is checked against this one.                *)
(***************************************************************************)
EXTENDS Integers, Sequences

CONSTANTS
  Frames,   \* the page frame numbers the pool may hold
  Counts    \* the page counts callers ask for

VARIABLES
  free,     \* frames not handed out
  grants,   \* the PageSets handed out, oldest first
  reply     \* status of the last request that was answered

poolVars == <<free, grants, reply>>

FramesOf(set) == set.address .. (set.address + set.count - 1)

Init ==
  /\ free \in SUBSET Frames
  /\ grants = <<>>
  /\ reply \in {"None"}

(* A run of k <= n free frames starting at f leaves the pool; it is shorter
   than asked only because the frame after it is not free.               *)
Grant(n) ==
  \E f \in free, k \in 1 .. n :
    LET set == [address |-> f, count |-> k] IN
      /\ FramesOf(set) \subseteq free
      /\ k < n => f + k \notin free
      /\ free' = free \ FramesOf(set)
      /\ grants' = Append(grants, set)
      /\ reply' = "Ok"

(* A request may fail for lack of memory only when no frame is free. *)
Exhausted ==
  /\ free = {}
  /\ reply' = "OutOfMemory"
  /\ UNCHANGED <<free, grants>>

(* A request may be rejected for its argument or the allocator's state. *)
Reject ==
  /\ reply' \in {"OutOfRange", "InitializationError"}
  /\ UNCHANGED <<free, grants>>

Next == (\E n \in Counts : Grant(n)) \/ Exhausted \/ Reject

Spec == Init /\ [][Next]_poolVars
=============================================================================
