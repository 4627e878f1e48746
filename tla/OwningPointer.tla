--------------------------- MODULE OwningPointer ---------------------------
(* unique_ptr, its array form and DynamicPlacement (memory.h): variables   *)
(* that come into scope, own a block, hand it over and leave scope again,  *)
(* and the code around them, which owns the raw addresses release() gave   *)
(* it. A block is one object or one array; no address is used twice, so    *)
(* that every deletion can be told apart.                                  *)
EXTENDS Naturals, FiniteSets

CONSTANTS Objects,  \* names of unique_ptr<T> variables
          Arrays,   \* names of unique_ptr<T[]> variables
          Addr,     \* addresses blocks can have
          Null,
          Ended,    \* what stands for the pointer of a variable out of scope
          MaxLen    \* bound: the longest array asked for

ASSUME OwningPointerAssumption ==
  /\ Null \notin Addr /\ Ended \notin Addr /\ Null # Ended
  /\ MaxLen \in Nat /\ Objects \cap Arrays = {}

VARIABLES ptr,      \* ptr_, by variable
          len,      \* len_, by array variable
          kind,     \* what is at each address
          size,     \* of how many elements
          raw,      \* addresses the surrounding code owns
          deletes   \* history: how often a deleter destroyed what is there

heap == <<kind, size, deletes>>
vars == <<ptr, len, kind, size, raw, deletes>>

Names == Objects \cup Arrays
Scope == {v \in Names : ptr[v] # Ended}
Fresh == {a \in Addr : kind[a] = "none"}
Live(a) == kind[a] \in {"object", "placed", "array"}

Init == /\ ptr = [v \in Names |-> Ended] /\ len = [v \in Arrays |-> 0]
        /\ kind = [a \in Addr |-> "none"] /\ size = [a \in Addr |-> 0]
        /\ raw = {} /\ deletes = [a \in Addr |-> 0]

(* Deleter{}(p): delete, delete[] or obj->deleter(), nothing for null. The *)
(* deleter of an object made by create_at only runs its destructor.        *)
Delete(p) ==
  IF p = Null THEN UNCHANGED heap
  ELSE /\ kind' = [kind EXCEPT ![p] = "dead"]
       /\ deletes' = [deletes EXCEPT ![p] = @ + 1]
       /\ UNCHANGED size

(* new T, new T[n], or placement new in storage of the caller's; Null when *)
(* there is no memory.                                                     *)
New(a, k, n) ==
  /\ UNCHANGED deletes
  /\ \/ /\ a \in Fresh
        /\ kind' = [kind EXCEPT ![a] = k] /\ size' = [size EXCEPT ![a] = n]
     \/ a = Null /\ UNCHANGED <<kind, size>>

(* unique_ptr<T>{}, make_unique<T>(args), Factory::create; create_at makes *)
(* an object in storage that is not the heap's.                            *)
MakeUnique(v) ==
  \E a \in Fresh \cup {Null}, k \in {"object", "placed"} :
    /\ v \notin Scope /\ New(a, k, 1)
    /\ ptr' = [ptr EXCEPT ![v] = a]
    /\ UNCHANGED <<len, raw>>

(* unique_ptr(T *ptr): the caller gives up a raw address.                  *)
Adopt(v) ==
  \E a \in raw :
    /\ v \notin Scope /\ kind[a] # "array"
    /\ ptr' = [ptr EXCEPT ![v] = a] /\ raw' = raw \ {a}
    /\ UNCHANGED <<len, heap>>

(* The pointer that was moved from stays as it was. *)
MutantTakeFrom(v, w) == [ptr EXCEPT ![v] = ptr[w]]

(* unique_ptr_base::operator=(&&), which the move constructors call too,   *)
(* takes the other's pointer. What it held before is not deleted.          *)
TakeFrom(v, w) == [ptr EXCEPT ![v] = ptr[w], ![w] = Null]

MoveConstruct(v, w) ==
  /\ v \notin Scope /\ w \in Scope
  /\ ptr' = TakeFrom(v, w)
  /\ UNCHANGED <<len, raw, heap>>

MoveAssign(v, w) ==
  /\ {v, w} \subseteq Scope /\ v # w
  /\ ptr' = TakeFrom(v, w)
  /\ UNCHANGED <<len, raw, heap>>

(* The friend swap of unique_ptr<T>.                                       *)
Swap(v, w) ==
  /\ {v, w} \subseteq Scope
  /\ ptr' = [ptr EXCEPT ![v] = ptr[w], ![w] = ptr[v]]
  /\ UNCHANGED <<len, raw, heap>>

(* reset() forgets to delete. *)
MutantReset(v) == v \in Scope /\ ptr' = [ptr EXCEPT ![v] = Null] /\ UNCHANGED <<len, raw, heap>>

(* reset(new_ptr): deletes what is held, then takes the argument.          *)
Reset(v) ==
  \E a \in raw \cup {Null} :
    /\ v \in Scope /\ (a # Null => kind[a] # "array")
    /\ Delete(ptr[v])
    /\ ptr' = [ptr EXCEPT ![v] = a] /\ raw' = raw \ {a}
    /\ UNCHANGED len

(* release(): the pointer goes to the caller; len_ of an array stays.      *)
Release(v) ==
  /\ v \in Scope
  /\ raw' = raw \cup ({ptr[v]} \ {Null})
  /\ ptr' = [ptr EXCEPT ![v] = Null]
  /\ UNCHANGED <<len, heap>>

(* ~unique_ptr_base()                                                      *)
Destroy(v) ==
  /\ v \in Scope
  /\ Delete(ptr[v])
  /\ ptr' = [ptr EXCEPT ![v] = Ended]
  /\ UNCHANGED <<len, raw>>

----------------------------------------------------------------------------
(* The array form.                                                         *)

(* unique_ptr<T[]>(n) names no base in its initialisers, so unique_ptr_base*)
(* makes an object first, and the array overwrites the pointer to it.      *)
ArrayOfLength(v) ==
  \E n \in 0 .. MaxLen, base, a \in Fresh \cup {Null} :
    /\ v \notin Scope /\ (base = a => a = Null) /\ (n = 0 => a = Null)
    /\ kind' = [x \in Addr |-> IF x = base THEN "object"
                               ELSE IF x = a THEN "array" ELSE kind[x]]
    /\ size' = [x \in Addr |-> IF x = base THEN 1 ELSE IF x = a THEN n ELSE size[x]]
    /\ ptr' = [ptr EXCEPT ![v] = a]
    /\ len' = [len EXCEPT ![v] = IF a = Null THEN 0 ELSE n]
    /\ UNCHANGED <<raw, deletes>>

(* unique_ptr<T[]>(ptr, len), and make_unique(obj, len).                   *)
AdoptArray(v) ==
  \E a \in raw \cup {Null} :
    /\ v \notin Scope /\ (a # Null => kind[a] = "array")
    /\ ptr' = [ptr EXCEPT ![v] = a]
    /\ len' = [len EXCEPT ![v] = IF a = Null THEN 0 ELSE size[a]]
    /\ raw' = raw \ {a}
    /\ UNCHANGED heap

(* The move constructor's base, too, makes an object that is overwritten.  *)
MoveConstructArray(v, w) ==
  \E base \in Fresh \cup {Null} :
    /\ v \notin Scope /\ w \in Scope
    /\ New(base, "object", 1)
    /\ ptr' = TakeFrom(v, w)
    /\ len' = [len EXCEPT ![v] = len[w], ![w] = 0]
    /\ UNCHANGED raw

MoveAssignArray(v, w) ==
  /\ {v, w} \subseteq Scope /\ v # w
  /\ ptr' = TakeFrom(v, w)
  /\ len' = [len EXCEPT ![v] = len[w], ![w] = 0]
  /\ UNCHANGED <<raw, heap>>

(* reset() and reset(ptr, len) of an array.                                *)
ResetArray(v) ==
  \E a \in raw \cup {Null} :
    /\ v \in Scope /\ (a # Null => kind[a] = "array")
    /\ Delete(ptr[v])
    /\ ptr' = [ptr EXCEPT ![v] = a]
    /\ len' = [len EXCEPT ![v] = IF a = Null THEN 0 ELSE size[a]]
    /\ raw' = raw \ {a}

(* length(), and where operator[] reads: at a null pointer for a bad index.*)
Length(v) == IF ptr[v] = Null THEN 0 ELSE len[v]
ReadsAt(v, i) == IF i < len[v] THEN ptr[v] ELSE Null

----------------------------------------------------------------------------
ObjectStep(v) ==
  \/ MakeUnique(v) \/ Adopt(v) \/ Reset(v)
  \/ \E w \in Objects \ {v} : MoveConstruct(v, w) \/ MoveAssign(v, w) \/ Swap(v, w)

ArrayStep(v) ==
  \/ ArrayOfLength(v) \/ AdoptArray(v) \/ ResetArray(v)
  \/ \E w \in Arrays \ {v} : MoveConstructArray(v, w) \/ MoveAssignArray(v, w)

Next == \/ \E v \in Objects : ObjectStep(v)
        \/ \E v \in Arrays : ArrayStep(v)
        \/ \E v \in Names : Release(v) \/ Destroy(v)

Spec == Init /\ [][Next]_vars

----------------------------------------------------------------------------
(* Type invariant: pointers are null or addresses, lengths are bounded.    *)
PointersTypeOK ==
  /\ ptr \in [Names -> Addr \cup {Null, Ended}]
  /\ len \in [Arrays -> 0 .. MaxLen]
  /\ kind \in [Addr -> {"none", "object", "array", "placed", "dead"}]
  /\ size \in [Addr -> Nat]
  /\ raw \in SUBSET Addr
  /\ deletes \in [Addr -> Nat]

(* Every block has at most one owner: no two pointers in scope, nor a      *)
(* pointer and the surrounding code, hold the same address.                *)
SoleOwner ==
  \A v \in Names : ptr[v] \in Addr =>
    /\ \A w \in Names : ptr[w] = ptr[v] => w = v
    /\ ptr[v] \notin raw

(* Nobody owns a block that was already destroyed.                         *)
NeverDangles == \A a \in Addr : (a \in raw \/ \E v \in Names : ptr[v] = a) => Live(a)

(* No block reaches a deleter twice.                                       *)
DeletedOnce == \A a \in Addr : deletes[a] = IF kind[a] = "dead" THEN 1 ELSE 0

(* length() follows the block through moves, resets and releases, and      *)
(* operator[] below it reads inside the block.                             *)
LengthOfBlock ==
  \A v \in Arrays : ptr[v] \in Addr =>
    /\ kind[ptr[v]] = "array" /\ len[v] = size[ptr[v]]
    /\ \A i \in 0 .. MaxLen : i < Length(v) => ReadsAt(v, i) \in Addr

(* Moves, swaps, resets, releases and scope ends in any order keep the     *)
(* ownership unique_ptr promises: one owner, of a live block, deleted      *)
(* once, and with an array its length (memory.h:140-304).                  *)
OwnershipSound == SoleOwner /\ NeverDangles /\ DeletedOnce /\ LengthOfBlock

(* What no deleter will ever reach.                                        *)
Lost == {a \in Addr : Live(a) /\ a \notin raw /\ \A v \in Names : ptr[v] # a}

(* How a step may lose a block.                                            *)
LosesOnlyOverwritten ==
  \A a \in Lost' \ Lost :
    \/ kind[a] = "none" /\ kind'[a] = "object"
    \/ \E v, w \in Names : v # w /\ ptr[v] = a /\ ptr'[v] = ptr[w] /\ ptr'[w] = Null

(* A block is lost in two ways only: a move assignment overwrites the      *)
(* pointer to it (memory.h:145), or it is the object the base of an array  *)
(* pointer makes (memory.h:247, memory.h:262).                             *)
LostOnlyByOverwriting == [][LosesOnlyOverwritten]_vars

=============================================================================
