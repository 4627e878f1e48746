---------------------------- MODULE StatusResult ----------------------------
(* StatusOr<T> (status.h): a status, or an item in the storage the status    *)
(* would use. The item is an object whose lifetime is followed: alive means  *)
(* a T was constructed there and not destroyed. The move constructor is left *)
(* out: it calls swap, which move-constructs again, so neither ever returns. *)
EXTENDS Naturals

CONSTANTS Results,   \* StatusOr variables
          Items,     \* values of T
          Moved,     \* the value of an item that was moved from
          Failures   \* status codes other than Ok

(* What holds of the constants. *)
StatusAssumption ==
  "Unknown" \in Failures /\ "Ok" \notin Failures /\ Moved \notin Items

VARIABLES hasT_, status_, item_,
          alive,     \* the item's storage holds a constructed T
          described, \* history: the status or item the calls describe
          assigned,  \* history: the item was assigned, not constructed
          trapped    \* get() found no item, reported it, and read on

vars == <<hasT_, status_, item_, alive, described, assigned, trapped>>

Failed(c) == [ok |-> FALSE, code |-> c]
Holding(x) == [ok |-> TRUE, item |-> x]

Init == /\ hasT_ = [r \in Results |-> FALSE]
        /\ status_ = [r \in Results |-> "Unknown"]
        /\ item_ = [r \in Results |-> Moved]
        /\ alive = [r \in Results |-> FALSE] /\ assigned = [r \in Results |-> FALSE]
        /\ described = [r \in Results |-> Failed("Unknown")]
        /\ trapped = FALSE

(* A representation: what the fields of one StatusOr are.                    *)
Rep(r) == [hasT |-> hasT_[r], status |-> status_[r], item |-> item_[r], alive |-> alive[r],
           assigned |-> assigned[r]]

Reset(rep) == [rep EXCEPT !.hasT = FALSE, !.status = "Unknown",
                          !.alive = IF rep.hasT THEN FALSE ELSE rep.alive]
(* After reset() the item is assigned, into storage that holds no T.         *)
WithItem(rep, x) == [rep EXCEPT !.hasT = TRUE, !.item = x, !.assigned = TRUE]
WithStatus(rep, c) == [rep EXCEPT !.status = c]

Become(f) ==
  /\ hasT_' = [r \in Results |-> f[r].hasT] /\ status_' = [r \in Results |-> f[r].status]
  /\ item_' = [r \in Results |-> f[r].item] /\ alive' = [r \in Results |-> f[r].alive]
  /\ assigned' = [r \in Results |-> f[r].assigned]
Set(r, rep) == Become([x \in Results |-> IF x = r THEN rep ELSE Rep(x)])

(* StatusOr(StatusCode) and StatusOr(T) on storage out of which the previous *)
(* object went by ~StatusOr.                                                 *)
FromStatus(r, c) ==
  /\ Set(r, [hasT |-> FALSE, status |-> c, item |-> Moved, alive |-> FALSE, assigned |-> FALSE])
  /\ described' = [described EXCEPT ![r] = Failed(c)] /\ UNCHANGED trapped
FromItem(r, x) ==
  /\ Set(r, [hasT |-> TRUE, status |-> status_[r], item |-> x, alive |-> TRUE, assigned |-> FALSE])
  /\ described' = [described EXCEPT ![r] = Holding(x)] /\ UNCHANGED trapped

(* What operator= leaves in r: reset, then the other's status or its item.   *)
Taken(r, o) == IF hasT_[o] THEN WithItem(Reset(Rep(r)), item_[o])
               ELSE WithStatus(Reset(Rep(r)), status_[o])

(* operator=(const StatusOr&), and the copy constructor.                     *)
CopyAssign(r, o) ==
  /\ r # o /\ Set(r, Taken(r, o))
  /\ described' = [described EXCEPT ![r] = described[o]] /\ UNCHANGED trapped

(* operator=(StatusOr&&): the other is reset, and Unknown from then on.      *)
MoveAssign(r, o) ==
  /\ r # o
  /\ Become([x \in Results |-> IF x = r THEN Taken(r, o)
                               ELSE IF x = o THEN Reset(Rep(o)) ELSE Rep(x)])
  /\ described' = [described EXCEPT ![r] = described[o], ![o] = Failed("Unknown")]
  /\ UNCHANGED trapped

(* operator=(T&&).                                                           *)
AssignItem(r, x) ==
  /\ Set(r, WithItem(Reset(Rep(r)), x))
  /\ described' = [described EXCEPT ![r] = Holding(x)] /\ UNCHANGED trapped

(* operator StatusCode(), status(), and what get() answers: check() reports  *)
(* a missing item to StatusTrap, which returns, and get() goes on.           *)
status(r) == IF hasT_[r] THEN "Ok" ELSE status_[r]
Get(r) == trapped' = ~hasT_[r] /\ UNCHANGED <<hasT_, status_, item_, alive, described, assigned>>
get_or(r, default) == IF hasT_[r] THEN item_[r] ELSE default

(* o = r.map(f) and o = r.and_then(f): f on the item, or the status again.   *)
(* f may fail with a status of its own in and_then.                          *)
Map(r, o, x) ==
  /\ r # o
  /\ \/ status(r) = "Ok" /\ FromItem(o, x)
     \/ status(r) # "Ok" /\ FromStatus(o, status(r))
AndThen(r, o, c) == r # o /\ FromStatus(o, IF status(r) = "Ok" THEN c ELSE status(r))

Next ==
  \E r \in Results :
    \/ \E c \in Failures : FromStatus(r, c) \/ \E o \in Results : AndThen(r, o, c)
    \/ \E x \in Items : FromItem(r, x) \/ AssignItem(r, x) \/ \E o \in Results : Map(r, o, x)
    \/ \E o \in Results : CopyAssign(r, o) \/ MoveAssign(r, o)
    \/ Get(r)

Spec == Init /\ [][Next]_vars

-----------------------------------------------------------------------------
ResultTypeOK ==
  /\ hasT_ \in [Results -> BOOLEAN] /\ status_ \in [Results -> Failures]
  /\ item_ \in [Results -> Items \cup {Moved}] /\ alive \in [Results -> BOOLEAN]
  /\ assigned \in [Results -> BOOLEAN] /\ trapped \in BOOLEAN

(* A StatusOr answers with the status or the item its operations describe,   *)
(* through copies, moves and maps in any order. An item that was constructed *)
(* is a living object as long as it can be reached; one that was assigned    *)
(* never became one (status.h:99).                                           *)
ResultDescribed ==
  \A r \in Results :
    /\ hasT_[r] = described[r].ok
    /\ hasT_[r] => item_[r] = described[r].item /\ (alive[r] \/ assigned[r])
    /\ ~hasT_[r] => status_[r] = described[r].code /\ ~alive[r]
    /\ status(r) = "Ok" <=> hasT_[r]

=============================================================================
