--------------------------- MODULE GrowableVector ---------------------------
(* rtk::vector (vector.h): lazy first buffer, growth by 3/2, retirement of   *)
(* elements on the way down, and what the element objects live through. The  *)
(* buffer is a function from slots to [alive, val]; none means elems_ is     *)
(* null. TRAP reports and goes on, so a call that TRAPs simply returns.      *)
EXTENDS Naturals, Sequences

CONSTANTS Values, Default,  \* what elements hold; Default is T{}
          Initial,          \* initial capacities asked of the constructor
          Reserves,         \* arguments of reserve
          MaxSize           \* bound: no vector is resized past it

(* What holds of the constants. *)
VectorAssumption == /\ Default \in Values /\ MaxSize \in Nat
                    /\ Initial \subseteq Nat /\ Reserves \subseteq Nat \ {0}

VARIABLES size_, initial_capacity_, capacity_, elems_,
          list,       \* history: the list the calls describe
          stretched,  \* history: reserve was called on an existing buffer
          reentered   \* history: a retired slot was used without constructing it

vars == <<size_, initial_capacity_, capacity_, elems_, list, stretched, reentered>>

num_ == 3
denom_ == 2

Element(x) == [alive |-> TRUE, val |-> x]

(* vector() and vector(0, initial_capacity).                                 *)
Init == /\ size_ = 0 /\ capacity_ = 0 /\ elems_ = <<>>
        /\ initial_capacity_ \in Initial
        /\ list = <<>> /\ stretched = FALSE /\ reentered = FALSE

(* The list is followed up to the first reserve on an existing buffer.       *)
Described(l) == IF stretched THEN <<>> ELSE l

computeGrowth ==
  LET grown == IF capacity_ = 0 THEN initial_capacity_ ELSE (num_ * capacity_) \div denom_
  IN IF grown = capacity_ THEN grown + 1 ELSE grown

(* The capacity grow decides on.                                             *)
CapacityFor(requested) ==
  LET bumped == IF requested > capacity_ THEN computeGrowth ELSE capacity_
  IN IF requested > bumped THEN requested ELSE bumped

(* The first move loop runs one short. *)
MutantRelocated(n) == [i \in 0 .. n - 1 |-> IF i + 1 < size_ THEN Element(elems_[i].val)
                                        ELSE Element(Default)]

(* What the new array holds: every element is made by new T[], the present   *)
(* ones are moved in, and the rest constructed over what new T[] made.       *)
Relocated(n) == [i \in 0 .. n - 1 |-> IF i < size_ THEN Element(elems_[i].val)
                                  ELSE Element(Default)]

(* grow: within the capacity only size_ changes; else a bigger array takes   *)
(* over, or there is no memory and nothing changes.                          *)
Grow(requested) ==
  LET n == CapacityFor(requested)
  IN \/ /\ n <= capacity_
        /\ size_' = requested /\ UNCHANGED <<capacity_, elems_>>
     \/ /\ n > capacity_
        /\ capacity_' = n /\ elems_' = Relocated(n) /\ size_' = requested
     \/ n > capacity_ /\ UNCHANGED <<size_, capacity_, elems_>>

(* resize downwards destroys what it cuts off, in place.                     *)
Retired(from) == [i \in DOMAIN elems_ |->
                    IF i \in from .. size_ - 1 THEN [elems_[i] EXCEPT !.alive = FALSE]
                    ELSE elems_[i]]
Shrink(n) == size_' = n /\ elems_' = Retired(n) /\ UNCHANGED capacity_

Resize(n) ==
  /\ n # size_
  /\ IF n > size_ THEN Grow(n) ELSE Shrink(n)
  /\ list' = Described([i \in 1 .. size_' |-> IF i <= Len(list) THEN list[i] ELSE elems_'[i - 1].val])
  /\ reentered' = (reentered \/ \E i \in size_ .. size_' - 1 : ~elems_'[i].alive)
  /\ UNCHANGED <<initial_capacity_, stretched>>

(* push_back and emplace_back after resize(size_ + 1): assignment to the     *)
(* object in the slot, or a new one constructed over it. No memory: TRAP.    *)
BackSlot(x, constructed) ==
  /\ size_ < MaxSize
  /\ \/ /\ CapacityFor(size_ + 1) > capacity_
        /\ UNCHANGED <<size_, capacity_, elems_, list, reentered>>
     \/ LET n == CapacityFor(size_ + 1)
            buffer == IF n > capacity_ THEN Relocated(n) ELSE elems_
            alive == constructed \/ buffer[size_].alive
        IN /\ capacity_' = n /\ size_' = size_ + 1
           /\ elems_' = [buffer EXCEPT ![size_] = [alive |-> alive, val |-> x]]
           /\ list' = Described(Append(list, x))
           /\ reentered' = (reentered \/ ~alive)
  /\ UNCHANGED <<initial_capacity_, stretched>>

PushBack(x) == BackSlot(x, FALSE)

EmplaceBack(x) == BackSlot(x, TRUE)

PopBack ==
  /\ size_ > 0 /\ Shrink(size_ - 1)
  /\ list' = Described(SubSeq(list, 1, size_ - 1))
  /\ UNCHANGED <<initial_capacity_, stretched, reentered>>

(* reserve(n): without a buffer the first one will have n slots; with one,   *)
(* grow also makes n the size.                                               *)
Reserve(n) ==
  /\ IF capacity_ = 0
     THEN /\ initial_capacity_' = n
          /\ UNCHANGED <<size_, capacity_, elems_, stretched>>
     ELSE Grow(n) /\ stretched' = TRUE /\ UNCHANGED initial_capacity_
  /\ list' = IF stretched' THEN <<>> ELSE list
  /\ UNCHANGED reentered

Next == \/ \E n \in 0 .. MaxSize : Resize(n)
        \/ \E x \in Values : PushBack(x) \/ EmplaceBack(x)
        \/ PopBack \/ \E n \in Reserves : Reserve(n)

Spec == Init /\ [][Next]_vars

-----------------------------------------------------------------------------
(* Type invariant: the buffer has capacity_ slots, enough for size_.         *)
VectorTypeOK ==
  /\ initial_capacity_ \in Nat /\ capacity_ \in Nat /\ size_ \in 0 .. capacity_
  /\ elems_ \in [0 .. capacity_ - 1 -> [alive : BOOLEAN, val : Values]]
  /\ list \in Seq(Values) /\ stretched \in BOOLEAN /\ reentered \in BOOLEAN

(* Growth, retirement and failed allocations in any order keep the list the  *)
(* calls describe, up to the first reserve on an existing buffer, which      *)
(* changes the size (vector.h:134).                                          *)
HoldsList == ~stretched => list = [i \in 1 .. size_ |-> elems_[i - 1].val]

(* Every element below size_ is a living object until push_back assigns to,  *)
(* or resize exposes, one that was retired (vector.h:78): growth and         *)
(* emplace_back never leave a destroyed one in reach.                        *)
ElementsAlive ==
  ~stretched /\ ~reentered => \A i \in 0 .. size_ - 1 : elems_[i].alive

=============================================================================
