---------------------------- MODULE SmallString ----------------------------
(* rtk::string (string.h): texts that fit stay in the object, longer ones   *)
(* have a buffer of their own, and every operation may cross that line in   *)
(* either direction. s[v].buf is the bytes c_str() points at, from 0; the   *)
(* byte 0 is the terminator. The move constructor is left out: it calls     *)
(* swap, which move-constructs again, so that neither ever returns.         *)
EXTENDS Integers, Sequences

CONSTANTS Strings,      \* strings in scope
          Chars,        \* characters other than the terminator
          kMaxShortLen,
          MaxLen        \* bound: no text gets longer

(* What holds of the constants. *)
StringAssumption ==
  /\ 0 \notin Chars /\ kMaxShortLen \in Nat \ {0}
  /\ MaxLen \in Nat /\ kMaxShortLen <= MaxLen

VARIABLES s,            \* the strings: is_short_, length and bytes
          text,         \* history: the text the operations so far describe
          overlapped,   \* history: strings appended to themselves in place
          fault         \* an allocation failed and bytes went astray

vars == <<s, text, overlapped, fault>>

Texts == UNION {[1 .. n -> Chars] : n \in 0 .. MaxLen}
length(v) == s[v].len
View(v) == [i \in 1 .. length(v) |-> s[v].buf[i - 1]]

(* strncpy(dest + at, t, Len(t) + extra), where t is terminated.            *)
Copied(dest, at, t, extra) ==
  [i \in DOMAIN dest |->
     IF i < at \/ i >= at + Len(t) + extra THEN dest[i]
     ELSE IF i < at + Len(t) THEN t[i - at + 1] ELSE 0]

(* The same when t is the text already in dest: the copy runs over the      *)
(* terminator it looks for and goes round once more.                        *)
CopiedOver(dest, t) ==
  [i \in DOMAIN dest |->
     IF t # <<>> /\ i <= 2 * Len(t) THEN t[(i % Len(t)) + 1] ELSE dest[i]]

Zeroes(n) == [i \in 0 .. n - 1 |-> 0]
Short(t) == [short |-> TRUE, len |-> Len(t), buf |-> Copied(Zeroes(kMaxShortLen), 0, t, 1)]
(* No room for the terminator. *)
MutantLong(t) == [short |-> FALSE, len |-> Len(t), buf |-> Copied(Zeroes(Len(t)), 0, t, 1)]

Long(t) == [short |-> FALSE, len |-> Len(t), buf |-> Copied(Zeroes(Len(t) + 1), 0, t, 1)]

(* reset() and copy_cstr(t): which of the two the text gets.                *)
Fitting(t) == IF Len(t) >= kMaxShortLen THEN Long(t) ELSE Short(t)

Init == /\ s = [v \in Strings |-> Short(<<>>)] /\ text = [v \in Strings |-> <<>>]
        /\ overlapped = {} /\ fault = FALSE

(* No memory for a text that does not fit: copy_cstr goes on to copy it to  *)
(* the short buffer, append and operator+ to an address near null.          *)
OutOfMemory(t) ==
  Len(t) >= kMaxShortLen /\ fault' = TRUE /\ UNCHANGED <<s, text, overlapped>>

Put(v, rep, t) ==
  /\ s' = [s EXCEPT ![v] = rep] /\ text' = [text EXCEPT ![v] = t]
  /\ overlapped' = overlapped \ {v} /\ UNCHANGED fault

(* string(const char *cstr) and string(string_view&).                       *)
Construct(v, t) == OutOfMemory(t) \/ Put(v, Fitting(t), t)

(* operator=(const string&), which the copy constructor calls.              *)
CopyAssign(v, w) ==
  v # w /\ (OutOfMemory(View(w)) \/ Put(v, Fitting(View(w)), text[w]))

(* operator=(string&&): a short text is copied, a long one's buffer taken,  *)
(* and the other is reset.                                                  *)
MoveAssign(v, w) ==
  /\ v # w
  /\ s' = [s EXCEPT ![v] = IF s[w].short THEN Fitting(View(w)) ELSE s[w],
                    ![w] = Short(<<>>)]
  /\ text' = [text EXCEPT ![v] = text[w], ![w] = <<>>]
  /\ overlapped' = overlapped \ {v, w} /\ UNCHANGED fault

(* append(other): a new buffer for both texts when they need one, else the  *)
(* second is copied behind the first where that is.                         *)
NeedBuffer(n) == n > kMaxShortLen - 1
Joined(v, t) == [short |-> FALSE, len |-> length(v) + Len(t),
                 buf |-> Copied(Copied(Zeroes(length(v) + Len(t) + 1), 0, View(v), 0),
                                length(v), t, 1)]
AppendText(v, t) ==
  /\ length(v) + Len(t) <= MaxLen
  /\ IF NeedBuffer(length(v) + Len(t))
     THEN OutOfMemory(View(v) \o t) \/ Put(v, Joined(v, t), text[v] \o t)
     ELSE Put(v, [s[v] EXCEPT !.len = @ + Len(t), !.buf = Copied(@, length(v), t, 1)],
              text[v] \o t)

(* v.append(v): without a new buffer, source and destination overlap.       *)
AppendSelf(v) ==
  IF NeedBuffer(2 * length(v)) THEN AppendText(v, View(v))
  ELSE /\ s' = [s EXCEPT ![v].len = 2 * @, ![v].buf = CopiedOver(@, View(v))]
       /\ text' = [text EXCEPT ![v] = @ \o @]
       /\ overlapped' = overlapped \cup {v} /\ UNCHANGED fault

(* v = w + t: operator+ fills a string that is then assigned by moving.     *)
Concat(v, w, t) ==
  LET start == IF length(w) + Len(t) < kMaxShortLen THEN Short(View(w) \o t)
               ELSE Joined(w, t)
  IN /\ length(w) + Len(t) <= MaxLen
     /\ OutOfMemory(View(w) \o t) \/ Put(v, start, text[w] \o t)

(* clear(), and what is left by ~string().                                  *)
Clear(v) == Put(v, Short(<<>>), <<>>)

(* empty() reads len_, which in a short string spans the length and the     *)
(* first seven characters.                                                  *)
empty(v) == IF s[v].short
            THEN length(v) = 0 /\ \A i \in 0 .. kMaxShortLen - 1 : i < 7 => s[v].buf[i] = 0
            ELSE length(v) = 0

Next == /\ ~fault
        /\ \E v \in Strings :
             \/ \E t \in Texts : Construct(v, t) \/ AppendText(v, t)
             \/ \E w \in Strings : CopyAssign(v, w) \/ MoveAssign(v, w)
             \/ \E w \in Strings, t \in Texts : Concat(v, w, t)
             \/ AppendSelf(v) \/ Clear(v)

Spec == Init /\ [][Next]_vars

----------------------------------------------------------------------------
(* Type invariant: the buffer is the object's or as long as its text needs. *)
StringTypeOK ==
  /\ \A v \in Strings : /\ s[v].short \in BOOLEAN /\ s[v].len \in 0 .. MaxLen
                        /\ DOMAIN s[v].buf = 0 .. (IF s[v].short THEN kMaxShortLen - 1
                                                   ELSE s[v].len)
  /\ overlapped \subseteq Strings /\ fault \in BOOLEAN

(* Every string holds the text its operations describe, behind a terminator *)
(* unless it was appended to itself in place, and knows when it is empty.   *)
(* Exactly the texts that do not fit have a buffer of their own.            *)
HoldsText ==
  \A v \in Strings :
    /\ View(v) = text[v]
    /\ s[v].short <=> length(v) < kMaxShortLen
    /\ s[v].buf[length(v)] = 0 \/ v \in overlapped
    /\ empty(v) <=> text[v] = <<>>

=============================================================================
