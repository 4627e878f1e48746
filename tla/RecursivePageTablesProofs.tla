---------------------- MODULE RecursivePageTablesProofs ----------------------
(***************************************************************************)
(* Proofs about RecursivePageTables, for tables of any size, any memory and*)
(* any requests that meet its assumptions.                                 *)
(*                                                                         *)
(* First the arithmetic: where the last entry of the root points at the    *)
(* root, the address the kernel computes for an entry is one that the      *)
(* processor translates to that entry.  Then the tables as a tree, which   *)
(* every step of map keeps, in the two settings in which it can: with an   *)
(* allocator that refuses every page, and for ranges that begin where an   *)
(* entry of the root begins.                                               *)
(***************************************************************************)
EXTENDS MCRecursivePageTables, FiniteSetTheorems, TLAPS

LEMMA Divide ==
  ASSUME NEW d \in Nat \ {0}, NEW q \in Nat, NEW r \in 0 .. (d - 1)
  PROVE  (q * d + r) \div d = q /\ (q * d + r) % d = r
  OBVIOUS

LEMMA Within ==
  ASSUME NEW d \in Nat \ {0}, NEW e \in Nat \ {0}, NEW q \in 0 .. (e - 1), NEW r \in 0 .. (d - 1)
  PROVE  q * d + r \in 0 .. (e * d - 1)
  OBVIOUS

LEMMA Divided ==
  ASSUME NEW d \in Nat \ {0}, NEW e \in Nat \ {0}, NEW a \in 0 .. (e * d - 1)
  PROVE  a = (a \div d) * d + (a % d) /\ a \div d \in 0 .. (e - 1) /\ a % d \in 0 .. (d - 1)
  OBVIOUS

LEMMA Remainder ==
  ASSUME NEW d \in Nat \ {0}, NEW a \in Int
  PROVE  a % d \in 0 .. (d - 1) /\ a \div d \in Int
  OBVIOUS

-----------------------------------------------------------------------------
(* The page with the given indices, from the root's table on. *)
PageAt(w, x, y, z) ==
  (((w * EntriesPerTable + x) * EntriesPerTable + y) * EntriesPerTable + z) * kPageSize

LEMMA Sizes ==
  /\ EntriesPerTable \in Nat \ {0, 1} /\ EntryBytes \in Nat \ {0} /\ kPageSize \in Nat \ {0}
  /\ kPageSize = EntriesPerTable * EntryBytes
  /\ Shift[1] = EntriesPerTable
  /\ Shift[2] = EntriesPerTable * EntriesPerTable
  /\ Shift[3] = EntriesPerTable * EntriesPerTable * EntriesPerTable
  /\ Shift[4] = EntriesPerTable * EntriesPerTable * EntriesPerTable * EntriesPerTable
  /\ \A l \in 1 .. 4 : Shift[l] \in Nat \ {0} /\ Reach(l) \in Nat \ {0}
  <1>1. EntriesPerTable \in Nat \ {0, 1} /\ EntryBytes \in Nat \ {0}
    BY PagingAssumption
  <1>2. \A a, b \in Nat \ {0} : a * b \in Nat \ {0}
    OBVIOUS
  <1>3. kPageSize \in Nat \ {0} /\ kPageSize = EntriesPerTable * EntryBytes
    BY <1>1, <1>2 DEF kPageSize
  <1>4. /\ Shift[1] = EntriesPerTable
        /\ Shift[2] = EntriesPerTable * EntriesPerTable
        /\ Shift[3] = EntriesPerTable * EntriesPerTable * EntriesPerTable
        /\ Shift[4] = EntriesPerTable * EntriesPerTable * EntriesPerTable * EntriesPerTable
    BY DEF Shift
  <1>5. \A l \in 1 .. 4 : Shift[l] \in Nat \ {0}
    <2>1. Shift[1] \in Nat \ {0} /\ Shift[2] \in Nat \ {0}
      BY <1>1, <1>2, <1>4
    <2>2. Shift[3] \in Nat \ {0}
      BY <1>1, <1>2, <1>4, <2>1
    <2>3. Shift[4] \in Nat \ {0}
      BY <1>1, <1>2, <1>4, <2>2
    <2> QED
      BY <2>1, <2>2, <2>3
  <1>6. \A l \in 1 .. 4 : Reach(l) \in Nat \ {0}
    BY <1>1, <1>2, <1>5 DEF Reach
  <1> QED
    BY <1>1, <1>3, <1>4, <1>5, <1>6

(* The processor finds these indices in the page's addresses. *)
LEMMA FieldsOfPage ==
  ASSUME NEW w \in Indices, NEW x \in Indices, NEW y \in Indices, NEW z \in Indices,
         NEW o \in 0 .. (kPageSize - 1)
  PROVE  /\ entryIndex(PageAt(w, x, y, z) + o, 4) = w
         /\ entryIndex(PageAt(w, x, y, z) + o, 3) = x
         /\ entryIndex(PageAt(w, x, y, z) + o, 2) = y
         /\ entryIndex(PageAt(w, x, y, z) + o, 1) = z
         /\ Offset(PageAt(w, x, y, z) + o) = o
  <1> DEFINE E == EntriesPerTable
  <1> DEFINE P == kPageSize
  <1> DEFINE n2 == w * E + x
  <1> DEFINE n3 == n2 * E + y
  <1> DEFINE n4 == n3 * E + z
  <1> DEFINE a == PageAt(w, x, y, z) + o
  <1>1. E \in Nat \ {0} /\ P \in Nat \ {0} /\ P = E * EntryBytes /\ EntryBytes \in Nat
    BY Sizes
  <1>2. /\ w \in 0 .. (E - 1) /\ x \in 0 .. (E - 1) /\ y \in 0 .. (E - 1) /\ z \in 0 .. (E - 1)
        /\ o \in 0 .. (P - 1)
    BY DEF Indices
  <1>3. /\ Reach(1) = P /\ Reach(2) = E * P /\ Reach(3) = E * (E * P) /\ Reach(4) = E * (E * (E * P))
    BY Sizes DEF Reach
  <1>4. a = n4 * P + o
    BY DEF PageAt
  <1>5. /\ Offset(a) = a % P
        /\ \A l \in 1 .. 4 : entryIndex(a, l) = (a \div Reach(l)) % E
    BY DEF Offset, entryIndex
  <1> HIDE DEF a, E, P
  <1>6. n2 \in Nat /\ n2 = w * E + x
    BY <1>1, <1>2
  <1> HIDE DEF n2
  <1>7. n3 \in Nat /\ n3 = n2 * E + y
    BY <1>1, <1>2, <1>6
  <1> HIDE DEF n3
  <1>8. n4 \in Nat /\ n4 = n3 * E + z
    BY <1>1, <1>2, <1>7
  <1> HIDE DEF n4
  <1>9. /\ E * P \in Nat \ {0} /\ E * (E * P) \in Nat \ {0} /\ E * (E * (E * P)) \in Nat \ {0}
    <2>1. \A c, d \in Nat \ {0} : c * d \in Nat \ {0}
      OBVIOUS
    <2> QED
      BY <1>1, <2>1
  <1>10. (a \div P) % E = z /\ a % P = o
    <2>1. a \div P = n4 /\ a % P = o
      <3>1. P \in Nat \ {0} /\ n4 \in Nat /\ o \in 0 .. (P - 1)
        BY <1>1, <1>2, <1>8
      <3>2. (n4 * P + o) \div P = n4 /\ (n4 * P + o) % P = o
        BY <3>1, Divide
      <3> QED
        BY <1>4, <3>2
    <2>2. n4 % E = z
      BY <1>1, <1>2, <1>7, <1>8, Divide
    <2> QED
      BY <2>1, <2>2
  <1>11. z * P + o \in 0 .. (E * P - 1)
    BY <1>1, <1>2, Within
  <1>12. (a \div (E * P)) % E = y
    <2>1. a = n3 * (E * P) + (z * P + o)
      BY <1>1, <1>2, <1>4, <1>7, <1>8
    <2>2. a \div (E * P) = n3
      BY <1>7, <1>9, <1>11, <2>1, Divide
    <2>3. n3 % E = y
      BY <1>1, <1>2, <1>6, <1>7, Divide
    <2> QED
      BY <2>2, <2>3
  <1>13. y * (E * P) + (z * P + o) \in 0 .. (E * (E * P) - 1)
    BY <1>1, <1>2, <1>9, <1>11, Within
  <1>14. (a \div (E * (E * P))) % E = x
    <2>1. a = n2 * (E * (E * P)) + (y * (E * P) + (z * P + o))
      BY <1>1, <1>2, <1>4, <1>6, <1>7, <1>8
    <2>2. a \div (E * (E * P)) = n2
      BY <1>6, <1>9, <1>13, <2>1, Divide
    <2>3. n2 % E = x
      <3>1. E \in Nat \ {0} /\ w \in Nat /\ x \in 0 .. (E - 1)
        BY <1>1, <1>2
      <3>2. (w * E + x) % E = x
        BY <3>1, Divide
      <3> QED
        BY <1>6, <3>2
    <2> QED
      BY <2>2, <2>3
  <1>15. x * (E * (E * P)) + (y * (E * P) + (z * P + o)) \in 0 .. (E * (E * (E * P)) - 1)
    BY <1>1, <1>2, <1>9, <1>13, Within
  <1>16. (a \div (E * (E * (E * P)))) % E = w
    <2>1. a = w * (E * (E * (E * P))) + (x * (E * (E * P)) + (y * (E * P) + (z * P + o)))
      BY <1>1, <1>2, <1>4, <1>6, <1>7, <1>8
    <2>2. a \div (E * (E * (E * P))) = w /\ w \in Nat
      BY <1>2, <1>9, <1>15, <2>1, Divide
    <2>3. w = 0 * E + w
      BY <1>1, <2>2
    <2>4. (0 * E + w) % E = w
      BY <1>1, <1>2, Divide
    <2> QED
      BY <2>2, <2>3, <2>4
  <1>17. entryIndex(a, 4) = w /\ entryIndex(a, 3) = x /\ entryIndex(a, 2) = y /\ entryIndex(a, 1) = z
    BY <1>3, <1>5, <1>10, <1>12, <1>14, <1>16
  <1>18. Offset(a) = o
    BY <1>5, <1>10
  <1> QED
    BY <1>17, <1>18 DEF a

LEMMA PageHasFields ==
  ASSUME NEW p \in Pages
  PROVE  \E w, x, y, z \in Indices : p = PageAt(w, x, y, z)
  <1> DEFINE E == EntriesPerTable
  <1>1. E \in Nat \ {0} /\ Shift[4] = E * E * E * E /\ Indices = 0 .. (E - 1)
    BY Sizes DEF Indices
  <1>2. PICK n \in 0 .. (Shift[4] - 1) : p = n * kPageSize
    BY DEF Pages
  <1> HIDE DEF E
  <1>3. E * E \in Nat \ {0} /\ E * E * E \in Nat \ {0}
    <2>1. \A c, d \in Nat \ {0} : c * d \in Nat \ {0}
      OBVIOUS
    <2> QED
      BY <1>1, <2>1
  <1>4. PICK a \in 0 .. (E * E * E - 1), z \in 0 .. (E - 1) : n = a * E + z
    <2> DEFINE c == E * E * E
    <2>1. n \in 0 .. (c * E - 1) /\ c \in Nat \ {0}
      BY <1>1, <1>2, <1>3
    <2> HIDE DEF c
    <2>2. n = (n \div E) * E + (n % E) /\ n \div E \in 0 .. (c - 1) /\ n % E \in 0 .. (E - 1)
      BY <1>1, <2>1, Divided
    <2> QED
      BY <2>2 DEF c
  <1>5. PICK b \in 0 .. (E * E - 1), y \in 0 .. (E - 1) : a = b * E + y
    BY <1>1, <1>3, Divided
  <1>6. PICK w \in 0 .. (E - 1), x \in 0 .. (E - 1) : b = w * E + x
    BY <1>1, Divided
  <1>7. p = (((w * E + x) * E + y) * E + z) * kPageSize
    BY <1>2, <1>4, <1>5, <1>6
  <1> QED
    BY <1>1, <1>7 DEF PageAt, E

-----------------------------------------------------------------------------
(* The addresses the kernel computes, as pages with indices. *)
Last == EntriesPerTable - 1

LEMMA SpaceSizes ==
  /\ tablesStart = PageAt(Last, 0, 0, 0)
  /\ pml4Address = PageAt(Last, Last, Last, Last)
  /\ AddressSpaceSize \in Nat
  /\ \A w, x, y, z \in Indices : \A o \in 0 .. (kPageSize - 1) :
       PageAt(w, x, y, z) + o \in 0 .. (AddressSpaceSize - 1)
  <1> DEFINE E == EntriesPerTable
  <1> DEFINE P == kPageSize
  <1> DEFINE A == AddressSpaceSize
  <1>1. E \in Nat \ {0} /\ P \in Nat \ {0}
    BY Sizes
  <1>2. A = P * (E * E * E * E) /\ tablesStart = A - A \div E /\ pml4Address = A - P
    BY Sizes DEF AddressSpaceSize, tablesStart, pml4Address
  <1>3. /\ PageAt(Last, 0, 0, 0) = ((((E - 1) * E + 0) * E + 0) * E + 0) * P
        /\ PageAt(Last, Last, Last, Last)
             = ((((E - 1) * E + (E - 1)) * E + (E - 1)) * E + (E - 1)) * P
        /\ \A w, x, y, z : PageAt(w, x, y, z) = (((w * E + x) * E + y) * E + z) * P
    BY DEF PageAt, Last
  <1>4. Indices = 0 .. (E - 1)
    BY DEF Indices
  <1> HIDE DEF E, P, A
  <1>5. E * E * E \in Nat \ {0} /\ E * E \in Nat \ {0} /\ E * E * E * E \in Nat \ {0}
    <2>1. \A c, d \in Nat \ {0} : c * d \in Nat \ {0}
      OBVIOUS
    <2> QED
      BY <1>1, <2>1
  <1>6. tablesStart = PageAt(Last, 0, 0, 0)
    <2> DEFINE q == P * (E * E * E)
    <2>1. q \in Nat /\ A = q * E + 0
      BY <1>1, <1>2, <1>5
    <2>2. A \div E = q
      <3> HIDE DEF q
      <3>1. 0 \in 0 .. (E - 1)
        BY <1>1
      <3>2. (q * E + 0) \div E = q
        BY <1>1, <2>1, <3>1, Divide
      <3> QED
        BY <2>1, <3>2
    <2>3. A - q = ((((E - 1) * E + 0) * E + 0) * E + 0) * P
      BY <1>1, <1>2
    <2> QED
      BY <1>2, <1>3, <2>2, <2>3
  <1>7. pml4Address = PageAt(Last, Last, Last, Last)
    <2>1. A - P = ((((E - 1) * E + (E - 1)) * E + (E - 1)) * E + (E - 1)) * P
      BY <1>1, <1>2
    <2> QED
      BY <1>2, <1>3, <2>1
  <1>8. A \in Nat
    BY <1>1, <1>2, <1>5
  <1>9. ASSUME NEW w \in Indices, NEW x \in Indices, NEW y \in Indices, NEW z \in Indices,
               NEW o \in 0 .. (P - 1)
        PROVE  PageAt(w, x, y, z) + o \in 0 .. (A - 1)
    <2>1. w * E + x \in 0 .. (E * E - 1)
      BY <1>1, <1>4, Within
    <2>2. (w * E + x) * E + y \in 0 .. ((E * E) * E - 1)
      BY <1>1, <1>4, <1>5, <2>1, Within
    <2>3. ((w * E + x) * E + y) * E + z \in 0 .. ((E * E * E) * E - 1)
      BY <1>1, <1>4, <1>5, <2>2, Within
    <2>4. (((w * E + x) * E + y) * E + z) * P + o \in 0 .. ((E * E * E * E) * P - 1)
      BY <1>1, <1>4, <1>5, <2>3, Within
    <2>5. (E * E * E * E) * P = A
      BY <1>1, <1>2, <1>5
    <2> QED
      BY <1>3, <2>4, <2>5
  <1> QED
    BY <1>6, <1>7, <1>8, <1>9 DEF A, P

(* The pages below the tables are those of the root's other entries. *)
LEMMA BelowTables ==
  \A w, x, y, z \in Indices : PageAt(w, x, y, z) < tablesStart <=> w # Last
  <1> SUFFICES ASSUME NEW w \in Indices, NEW x \in Indices, NEW y \in Indices, NEW z \in Indices
               PROVE  PageAt(w, x, y, z) < tablesStart <=> w # Last
    OBVIOUS
  <1> DEFINE E == EntriesPerTable
  <1> DEFINE P == kPageSize
  <1>1. E \in Nat \ {0} /\ P \in Nat \ {0} /\ Indices = 0 .. (E - 1)
    BY Sizes DEF Indices
  <1>2. /\ PageAt(w, x, y, z) = (((w * E + x) * E + y) * E + z) * P
        /\ tablesStart = ((((E - 1) * E + 0) * E + 0) * E + 0) * P
        /\ Last = E - 1
    BY SpaceSizes DEF PageAt, Last
  <1> HIDE DEF E, P
  <1>3. E * E \in Nat \ {0} /\ E * E * E \in Nat \ {0}
    <2>1. \A c, d \in Nat \ {0} : c * d \in Nat \ {0}
      OBVIOUS
    <2> QED
      BY <1>1, <2>1
  <1> DEFINE low == (x * E + y) * E + z
  <1>4. low \in 0 .. ((E * E) * E - 1)
    <2>1. x * E + y \in 0 .. (E * E - 1)
      BY <1>1, Within
    <2> QED
      BY <1>1, <1>3, <2>1, Within
  <1>5. ((w * E + x) * E + y) * E + z = w * (E * E * E) + low
    BY <1>1
  <1> HIDE DEF low
  <1> DEFINE c == E * E * E
  <1>6. c \in Nat \ {0} /\ low \in 0 .. (c - 1)
    BY <1>1, <1>3, <1>4
  <1>7. /\ PageAt(w, x, y, z) = (w * c + low) * P
        /\ tablesStart = ((E - 1) * c) * P
    BY <1>1, <1>2, <1>5
  <1> HIDE DEF c
  <1>8. CASE w = Last
    <2>1. (w * c + low) * P >= ((E - 1) * c) * P
      BY <1>1, <1>2, <1>6, <1>8
    <2>2. (w * c + low) * P \in Int /\ ((E - 1) * c) * P \in Int
      BY <1>1, <1>6
    <2> QED
      BY <1>7, <1>8, <2>1, <2>2
  <1>9. CASE w # Last
    <2>1. w * c + low < (E - 1) * c
      <3>1. w + 1 <= E - 1 /\ w \in Nat
        BY <1>1, <1>2, <1>9
      <3>2. (w + 1) * c <= (E - 1) * c
        BY <1>1, <1>6, <3>1
      <3>3. (w + 1) * c = w * c + c /\ w * c \in Nat /\ (E - 1) * c \in Nat
        BY <1>1, <1>6, <3>1
      <3> QED
        BY <1>6, <3>2, <3>3
    <2>2. w * c + low \in Nat /\ (E - 1) * c \in Nat
      BY <1>1, <1>6
    <2>3. \A u, v \in Nat : u < v => u * P < v * P
      BY <1>1
    <2> QED
      BY <1>7, <1>9, <2>1, <2>2, <2>3
  <1> QED
    BY <1>8, <1>9

LEMMA LastIsIndex == Last \in Indices /\ 0 \in Indices /\ 0 \in 0 .. (kPageSize - 1)
  BY Sizes DEF Last, Indices

LEMMA PageAtIsPage == \A w, x, y, z \in Indices : PageAt(w, x, y, z) \in Pages
  <1> SUFFICES ASSUME NEW w \in Indices, NEW x \in Indices, NEW y \in Indices, NEW z \in Indices
               PROVE  PageAt(w, x, y, z) \in Pages
    OBVIOUS
  <1> DEFINE E == EntriesPerTable
  <1>1. E \in Nat \ {0} /\ Indices = 0 .. (E - 1) /\ Shift[4] = (E * E * E) * E
    BY Sizes DEF Indices
  <1>2. PageAt(w, x, y, z) = (((w * E + x) * E + y) * E + z) * kPageSize
    BY DEF PageAt
  <1> HIDE DEF E
  <1>3. E * E \in Nat \ {0} /\ E * E * E \in Nat \ {0}
    <2>1. \A c, d \in Nat \ {0} : c * d \in Nat \ {0}
      OBVIOUS
    <2> QED
      BY <1>1, <2>1
  <1>4. w * E + x \in 0 .. (E * E - 1)
    BY <1>1, Within
  <1>5. (w * E + x) * E + y \in 0 .. ((E * E) * E - 1)
    BY <1>1, <1>3, <1>4, Within
  <1>6. ((w * E + x) * E + y) * E + z \in 0 .. (Shift[4] - 1)
    BY <1>1, <1>3, <1>5, Within
  <1> QED
    BY <1>2, <1>6 DEF Pages

(* The entry of a page is at its last index in the page that the recursive
   entry makes of its last table.                                         *)
LEMMA EntryOfPage ==
  ASSUME NEW w \in Indices, NEW x \in Indices, NEW y \in Indices, NEW z \in Indices
  PROVE  /\ entryAddr(PageAt(w, x, y, z)) = PageAt(Last, w, x, y) + z * EntryBytes
         /\ tableAddress(PageAt(w, x, y, z), 1) = PageAt(Last, w, x, y) + z * EntryBytes
         /\ z * EntryBytes \in 0 .. (kPageSize - 1)
         /\ (z * EntryBytes) \div EntryBytes = z
  <1> DEFINE E == EntriesPerTable
  <1> DEFINE B == EntryBytes
  <1> DEFINE n == ((w * E + x) * E + y) * E + z
  <1> DEFINE p == PageAt(w, x, y, z)
  <1>1. /\ E \in Nat \ {0} /\ B \in Nat \ {0} /\ Indices = 0 .. (E - 1)
        /\ kPageSize = E * B
    BY Sizes DEF Indices
  <1>2. p = n * (E * B)
    BY <1>1 DEF PageAt
  <1>3. PageAt(Last, w, x, y) = ((((E - 1) * E + w) * E + x) * E + y) * (E * B)
    BY <1>1 DEF PageAt, Last
  <1>4. tablesStart = ((((E - 1) * E + 0) * E + 0) * E + 0) * (E * B)
    BY <1>1, SpaceSizes DEF PageAt, Last
  <1>5. /\ entryAddr(p) = tablesStart + ((p \div E) \div B) * B
        /\ tableAddress(p, 1) = tablesStart + p \div E
    BY Sizes DEF entryAddr, tableAddress, tablesStart
  <1> HIDE DEF p, E, B
  <1>6. n \in Nat /\ n * B \in Nat
    <2>1. w * E + x \in Nat
      BY <1>1
    <2>2. (w * E + x) * E + y \in Nat
      BY <1>1, <2>1
    <2>3. n \in Nat
      BY <1>1, <2>2
    <2> HIDE DEF n
    <2> QED
      BY <1>1, <2>3
  <1>7. (p \div E) = n * B /\ (n * B) \div B = n
    <2> HIDE DEF n
    <2>1. p = (n * B) * E + 0 /\ n * B = n * B + 0
      BY <1>1, <1>2, <1>6
    <2>2. 0 \in 0 .. (E - 1) /\ 0 \in 0 .. (B - 1)
      BY <1>1
    <2>3. ((n * B) * E + 0) \div E = n * B
      BY <1>1, <1>6, <2>2, Divide
    <2>4. (n * B + 0) \div B = n
      BY <1>1, <1>6, <2>2, Divide
    <2> QED
      BY <2>1, <2>3, <2>4
  <1>8. tablesStart + n * B = PageAt(Last, w, x, y) + z * B
    BY <1>1, <1>3, <1>4
  <1>9. z * B \in 0 .. (E * B - 1) /\ (z * B) \div B = z
    <2>1. 0 \in 0 .. (B - 1) /\ z \in Nat
      BY <1>1
    <2>2. z * B + 0 \in 0 .. (E * B - 1)
      BY <1>1, <2>1, Within
    <2>3. (z * B + 0) \div B = z
      BY <1>1, <2>1, Divide
    <2>4. z * B + 0 = z * B
      BY <1>1, <2>1
    <2> QED
      BY <2>2, <2>3, <2>4
  <1> QED
    BY <1>1, <1>5, <1>7, <1>8, <1>9 DEF p, B, E

(* Near the page with which an entry of the root begins, the addresses of the
   tables above the last are pages.                                       *)
LEMMA TablesOfAligned ==
  ASSUME NEW w \in Indices, NEW x \in Indices, NEW z \in Indices, z * EntryBytes < EntriesPerTable
  PROVE  /\ tableAddress(PageAt(w, x, 0, z), 2) = PageAt(Last, Last, w, x)
         /\ tableAddress(PageAt(w, 0, 0, z), 3) = PageAt(Last, Last, Last, w)
  <1> DEFINE E == EntriesPerTable
  <1> DEFINE B == EntryBytes
  <1> DEFINE P == kPageSize
  <1> DEFINE A == AddressSpaceSize
  <1>1. /\ E \in Nat \ {0, 1} /\ B \in Nat \ {0} /\ Indices = 0 .. (E - 1) /\ P = E * B
        /\ A = P * (E * E * E * E) /\ Shift[2] = E * E /\ Shift[3] = E * E * E
        /\ z * B \in 0 .. (E - 1)
    <2>1. z * B \in Nat
      BY Sizes DEF Indices
    <2> QED
      BY <2>1, Sizes DEF Indices, AddressSpaceSize
  <1>2. /\ PageAt(w, x, 0, z) = (((w * E + x) * E + 0) * E + z) * P
        /\ PageAt(w, 0, 0, z) = (((w * E + 0) * E + 0) * E + z) * P
        /\ PageAt(Last, Last, w, x) = ((((E - 1) * E + (E - 1)) * E + w) * E + x) * P
        /\ PageAt(Last, Last, Last, w) = ((((E - 1) * E + (E - 1)) * E + (E - 1)) * E + w) * P
    BY DEF PageAt, Last
  <1>3. \A v : /\ tableAddress(v, 2) = (A - A \div Shift[2]) + v \div Shift[2]
               /\ tableAddress(v, 3) = (A - A \div Shift[3]) + v \div Shift[3]
    BY DEF tableAddress
  <1> DEFINE zB == z * B
  <1> DEFINE wx == w * E + x
  <1>4. wx \in Nat /\ w \in Nat /\ z \in Nat /\ zB \in 0 .. (E - 1)
    BY <1>1
  <1> HIDE DEF E, B, P, A
  <1>5. E * E \in Nat \ {0} /\ E * E * E \in Nat \ {0} /\ P \in Nat \ {0}
    <2>1. \A c, d \in Nat \ {0} : c * d \in Nat \ {0}
      OBVIOUS
    <2> QED
      BY <1>1, <2>1
  <1>6. zB * E + 0 \in 0 .. (E * E - 1)
    <2>1. 0 \in 0 .. (E - 1) /\ E \in Nat \ {0}
      BY <1>1
    <2> HIDE DEF zB
    <2> QED
      BY <1>4, <2>1, Within
  <1>7. zB * E \in 0 .. (E * E - 1) /\ zB * E \in 0 .. (E * E * E - 1)
    <2> HIDE DEF zB
    <2>1. zB * E \in 0 .. (E * E - 1)
      BY <1>1, <1>4, <1>6
    <2>2. E * E <= E * (E * E)
      BY <1>1, <1>5
    <2> QED
      BY <1>1, <1>5, <2>1, <2>2
  <1>8. tableAddress(PageAt(w, x, 0, z), 2) = PageAt(Last, Last, w, x)
    <2>1. PageAt(w, x, 0, z) = (wx * P) * (E * E) + zB * E
      BY <1>1, <1>2
    <2>2. PageAt(w, x, 0, z) \div (E * E) = wx * P
      <3> HIDE DEF wx, zB
      <3>1. wx * P \in Nat
        BY <1>4, <1>5
      <3>2. ((wx * P) * (E * E) + zB * E) \div (E * E) = wx * P
        BY <1>5, <1>7, <3>1, Divide
      <3> QED
        BY <2>1, <3>2
    <2>3. A \div (E * E) = P * (E * E)
      <3> DEFINE c == E * E
      <3> DEFINE q == P * c
      <3>1. c \in Nat \ {0} /\ q \in Nat /\ A = q * c + 0 /\ 0 \in 0 .. (c - 1)
        BY <1>1, <1>5
      <3>2. (q * c + 0) \div c = q
        <4> HIDE DEF q, c
        <4> QED
          BY <3>1, Divide
      <3> QED
        BY <3>1, <3>2
    <2>4. (A - P * (E * E)) + wx * P = ((((E - 1) * E + (E - 1)) * E + w) * E + x) * P
      BY <1>1
    <2> QED
      BY <1>1, <1>2, <1>3, <2>2, <2>3, <2>4
  <1>9. tableAddress(PageAt(w, 0, 0, z), 3) = PageAt(Last, Last, Last, w)
    <2>1. PageAt(w, 0, 0, z) = (w * P) * (E * E * E) + zB * E
      BY <1>1, <1>2
    <2>2. PageAt(w, 0, 0, z) \div (E * E * E) = w * P
      <3> HIDE DEF zB
      <3>1. w * P \in Nat
        BY <1>4, <1>5
      <3>2. ((w * P) * (E * E * E) + zB * E) \div (E * E * E) = w * P
        BY <1>5, <1>7, <3>1, Divide
      <3> QED
        BY <2>1, <3>2
    <2>3. A \div (E * E * E) = P * E
      <3> DEFINE c == E * E * E
      <3> DEFINE q == P * E
      <3>1. c \in Nat \ {0} /\ q \in Nat /\ A = q * c + 0 /\ 0 \in 0 .. (c - 1)
        BY <1>1, <1>5
      <3>2. (q * c + 0) \div c = q
        <4> HIDE DEF q, c
        <4> QED
          BY <3>1, Divide
      <3> QED
        BY <3>1, <3>2
    <2>4. (A - P * E) + w * P = ((((E - 1) * E + (E - 1)) * E + (E - 1)) * E + w) * P
      BY <1>1
    <2> QED
      BY <1>1, <1>2, <1>3, <2>2, <2>3, <2>4
  <1> QED
    BY <1>8, <1>9

LEMMA PagesAfterAligned ==
  ASSUME NEW w \in Indices, NEW k \in Indices
  PROVE  PageAt(w, 0, 0, 0) + k * kPageSize = PageAt(w, 0, 0, k)
  <1>1. EntriesPerTable \in Nat /\ kPageSize \in Nat /\ w \in Nat /\ k \in Nat
    BY Sizes DEF Indices
  <1> QED
    BY <1>1 DEF PageAt

-----------------------------------------------------------------------------
(* The walk, one step at a time. *)
LEMMA WalkSteps ==
  ASSUME NEW m, NEW a
  PROVE  /\ TableOf(m, RootFrame, a, 4) = RootFrame /\ RootFrame # Absent
         /\ \A l \in 1 .. 3 :
              TableOf(m, RootFrame, a, l)
                = IF TableOf(m, RootFrame, a, l + 1) = Absent THEN Absent
                  ELSE m[TableOf(m, RootFrame, a, l + 1)][entryIndex(a, l + 1)]
         /\ Translate(m, RootFrame, a)
              = IF TableOf(m, RootFrame, a, 1) = Absent THEN Absent
                ELSE m[TableOf(m, RootFrame, a, 1)][entryIndex(a, 1)]
  <1>1. RootFrame # Absent
    BY RequestAssumption, PagingAssumption
  <1>2. TableOf(m, RootFrame, a, 4) = RootFrame
    BY DEF TableOf
  <1>3. TableOf(m, RootFrame, a, 3) = m[RootFrame][entryIndex(a, 4)]
    BY <1>1 DEF TableOf
  <1>4. TableOf(m, RootFrame, a, 2)
          = IF TableOf(m, RootFrame, a, 3) = Absent THEN Absent
            ELSE m[TableOf(m, RootFrame, a, 3)][entryIndex(a, 3)]
    BY <1>1 DEF TableOf
  <1>5. TableOf(m, RootFrame, a, 1)
          = IF TableOf(m, RootFrame, a, 2) = Absent THEN Absent
            ELSE m[TableOf(m, RootFrame, a, 2)][entryIndex(a, 2)]
    BY <1>1 DEF TableOf
  <1>6. Translate(m, RootFrame, a)
          = IF TableOf(m, RootFrame, a, 1) = Absent THEN Absent
            ELSE m[TableOf(m, RootFrame, a, 1)][entryIndex(a, 1)]
    BY DEF Translate
  <1> QED
    BY <1>1, <1>2, <1>3, <1>4, <1>5, <1>6

-----------------------------------------------------------------------------
(* The types that every step keeps, whatever the requests. *)
LEMMA WalkTypes ==
  ASSUME NEW m \in Memories, NEW a \in Int
  PROVE  /\ \A l \in 1 .. 4 : entryIndex(a, l) \in Indices
         /\ \A l \in 1 .. 4 : TableOf(m, RootFrame, a, l) \in Entries
         /\ FrameAt(m, a) \in Entries
         /\ Offset(a) \in 0 .. (kPageSize - 1)
         /\ Offset(a) \div EntryBytes \in Indices
  <1>1. \A l \in 1 .. 4 : entryIndex(a, l) \in Indices
    <2>1. ASSUME NEW l \in 1 .. 4 PROVE entryIndex(a, l) \in Indices
      <3>1. a \div Reach(l) \in Int
        BY Sizes, Remainder
      <3> QED
        BY <3>1, Sizes, Remainder DEF entryIndex, Indices
    <2> QED
      BY <2>1
  <1>2. \A f \in Frames : \A i \in Indices : m[f][i] \in Entries
    BY DEF Memories
  <1>3. RootFrame \in Frames /\ Absent \notin Frames /\ Entries = Frames \cup {Absent}
    BY RequestAssumption, PagingAssumption DEF Entries
  <1>4. /\ TableOf(m, RootFrame, a, 4) \in Entries
        /\ \A l \in 1 .. 3 : TableOf(m, RootFrame, a, l + 1) \in Entries
                               => TableOf(m, RootFrame, a, l) \in Entries
        /\ TableOf(m, RootFrame, a, 1) \in Entries => Translate(m, RootFrame, a) \in Entries
    <2>1. TableOf(m, RootFrame, a, 4) \in Entries
      BY <1>3, WalkSteps
    <2>2. ASSUME NEW l \in 1 .. 3, TableOf(m, RootFrame, a, l + 1) \in Entries
          PROVE  TableOf(m, RootFrame, a, l) \in Entries
      <3>1. entryIndex(a, l + 1) \in Indices
        BY <1>1
      <3> QED
        BY <1>2, <1>3, <2>2, <3>1, WalkSteps
    <2>3. ASSUME TableOf(m, RootFrame, a, 1) \in Entries
          PROVE  Translate(m, RootFrame, a) \in Entries
      BY <1>1, <1>2, <1>3, <2>3, WalkSteps
    <2> QED
      BY <2>1, <2>2, <2>3
  <1>5. \A l \in 1 .. 4 : TableOf(m, RootFrame, a, l) \in Entries
    <2>1. TableOf(m, RootFrame, a, 3) \in Entries
      BY <1>4
    <2>2. TableOf(m, RootFrame, a, 2) \in Entries
      BY <1>4, <2>1
    <2>3. TableOf(m, RootFrame, a, 1) \in Entries
      BY <1>4, <2>2
    <2> QED
      BY <1>4, <2>1, <2>2, <2>3
  <1>6. FrameAt(m, a) \in Entries
    BY <1>4, <1>5 DEF FrameAt
  <1>7. Offset(a) \in 0 .. (kPageSize - 1)
    BY Sizes, Remainder DEF Offset
  <1>8. Offset(a) \div EntryBytes \in Indices
    BY <1>7, Sizes, Divided DEF Indices
  <1> QED
    BY <1>1, <1>5, <1>6, <1>7, <1>8

LEMMA WriteTypes ==
  ASSUME NEW m \in Memories, NEW a \in Int, NEW f \in Frames
  PROVE  WriteEntry(m, a, f) \in Memories
  BY WalkTypes DEF WriteEntry, Memories, Entries

LEMMA ZeroedTypes ==
  ASSUME NEW entries \in [Indices -> Entries], NEW first, NEW last,
         NEW cleared \in Zeroed(entries, first, last)
  PROVE  cleared \in [Indices -> Entries]
  <1>1. PICK left \in Entries :
          cleared = [i \in Indices |-> IF i * EntryBytes \in first .. last THEN Absent
                                       ELSE IF i = first \div EntryBytes THEN left ELSE entries[i]]
    BY DEF Zeroed, Entries
  <1> QED
    BY <1>1 DEF Entries

LEMMA AddressTypes ==
  /\ tablesStart \in Int /\ pml4Address \in Int /\ AddressSpaceSize \in Int
  /\ Pages \subseteq Int
  /\ \A v \in Int : entryAddr(v) \in Int /\ \A l \in 1 .. 4 : tableAddress(v, l) \in Int
  <1>1. AddressSpaceSize \in Int
    BY SpaceSizes
  <1>2. tablesStart \in Int /\ pml4Address \in Int
    BY <1>1, Sizes, Remainder DEF tablesStart, pml4Address
  <1>3. Pages \subseteq Int
    <2>1. \A n \in 0 .. (Shift[4] - 1) : n * kPageSize \in Int
      BY Sizes
    <2> QED
      BY <2>1 DEF Pages
  <1>4. ASSUME NEW v \in Int PROVE entryAddr(v) \in Int
    <2>1. v \div EntriesPerTable \in Int
      BY Sizes, Remainder
    <2>2. (v \div EntriesPerTable) \div EntryBytes \in Int
      BY <2>1, Sizes, Remainder
    <2> QED
      BY <1>2, <2>2, Sizes DEF entryAddr
  <1>5. ASSUME NEW v \in Int, NEW l \in 1 .. 4 PROVE tableAddress(v, l) \in Int
    <2>1. Shift[l] \in Nat \ {0}
      BY Sizes
    <2>2. AddressSpaceSize \div Shift[l] \in Int /\ v \div Shift[l] \in Int
      BY <1>1, <2>1, Remainder
    <2> QED
      BY <1>1, <2>2 DEF tableAddress
  <1> QED
    BY <1>1, <1>2, <1>3, <1>4, <1>5

(* The type invariant, with that of the table's address. *)
WalkTypeOK == PagesTypeOK /\ table \in Int

LEMMA VirtAddrTypes ==
  ASSUME WalkTypeOK
  PROVE  /\ virtAddr \in Int
         /\ \A l \in 2 .. 4 : tableAddress(virtAddr, l - 1) \in Int
         /\ level \in 2 .. 4 => entry \in Int
         /\ done < request.count => physFrame \in Frames
  <1>1. request \in Requests /\ request.vaddr \in Int /\ request.count \in Nat
        /\ done \in 0 .. request.count /\ table \in Int
    BY AddressTypes, RequestAssumption DEF WalkTypeOK, PagesTypeOK
  <1>2. virtAddr \in Int
    <2>1. done \in Int /\ kPageSize \in Int
      BY <1>1, Sizes
    <2>2. done * kPageSize \in Int
      BY <2>1
    <2> QED
      BY <1>1, <2>2 DEF virtAddr
  <1>3. \A l \in 2 .. 4 : tableAddress(virtAddr, l - 1) \in Int
    BY <1>2, AddressTypes
  <1>4. level \in 2 .. 4 => entry \in Int
    <2> SUFFICES ASSUME level \in 2 .. 4 PROVE entry \in Int
      OBVIOUS
    <2>0. Reach(level) \in Nat \ {0}
      BY Sizes
    <2>1. virtAddr \div Reach(level) \in Int
      BY <1>2, <2>0, Remainder
    <2>2. entryIndex(virtAddr, level) \in Int
      BY <2>1, Sizes, Remainder DEF entryIndex
    <2>3. entryIndex(virtAddr, level) * EntryBytes \in Int
      BY <2>2, Sizes
    <2>4. AddressSpaceSize \in Nat \ {0}
      <3>1. AddressSpaceSize = kPageSize * Shift[4]
        BY DEF AddressSpaceSize
      <3>2. kPageSize \in Nat \ {0} /\ Shift[4] \in Nat \ {0}
        BY Sizes
      <3> QED
        BY <3>1, <3>2
    <2>5. table + entryIndex(virtAddr, level) * EntryBytes \in Int
      BY <1>1, <2>3
    <2>6. (table + entryIndex(virtAddr, level) * EntryBytes) % AddressSpaceSize
            \in 0 .. (AddressSpaceSize - 1)
      BY <2>4, <2>5, Remainder
    <2> QED
      BY <2>4, <2>6 DEF entry
  <1>5. done < request.count => physFrame \in Frames
    BY <1>1, RequestAssumption DEF physFrame
  <1> QED
    BY <1>2, <1>3, <1>4, <1>5

LEMMA InitTypes == Init => WalkTypeOK
  <1> SUFFICES ASSUME Init PROVE WalkTypeOK
    OBVIOUS
  <1>1. request \in Requests /\ done = request.count /\ request.count \in Nat
    BY RequestAssumption DEF Init
  <1>2. mem \in Memories /\ free \subseteq Frames
    BY RequestAssumption DEF Init
  <1>3. table \in Int
    BY AddressTypes DEF Init
  <1> QED
    BY <1>1, <1>2, <1>3 DEF Init, WalkTypeOK, PagesTypeOK

LEMMA TypesKept == WalkTypeOK /\ [Next]_vars => WalkTypeOK'
  <1> SUFFICES ASSUME WalkTypeOK, [Next]_vars PROVE WalkTypeOK'
    OBVIOUS
  <1> USE DEF WalkTypeOK, PagesTypeOK
  <1>1. /\ request.count \in Nat /\ pml4Address \in Int
        /\ \A f \in Frames : mem[f] \in [Indices -> Entries]
    BY AddressTypes, RequestAssumption DEF Memories
  <1>2. ASSUME NEW r \in Requests, map(r) PROVE WalkTypeOK'
    <2>1. r.count \in Nat
      BY RequestAssumption
    <2> QED
      BY <1>1, <1>2, <2>1 DEF map, AtRoot
  <1>3. CASE ReadFault
    BY <1>3 DEF ReadFault, Fault
  <1>4. ASSUME Mapping, level > 1, Descend PROVE level' \in 1 .. 4 /\ table' \in Int
    <2>1. level \in 2 .. 4
      BY <1>4
    <2>2. tableAddress(virtAddr, level - 1) \in Int
      BY <2>1, VirtAddrTypes
    <2> QED
      BY <1>4, <2>1, <2>2 DEF Descend, subtable
  <1>5. CASE UseSubtable
    BY <1>4, <1>5 DEF UseSubtable, AtEntry
  <1>6. CASE RefuseSubtable
    BY <1>6 DEF RefuseSubtable
  <1>7. CASE CreateSubtable
    <2> DEFINE there == Accessible(mem, entryAddr(subtable))
    <2>1. PICK frame \in free :
            /\ free' = free \ {frame}
            /\ there =>
                 /\ \E entries \in Zeroed(mem[frame], Offset(subtable), kPageSize - 1) :
                      mem' = [WriteEntry(mem, entryAddr(subtable), frame) EXCEPT ![frame] = entries]
                 /\ pc' \in {"map", "overrun"}
                 /\ Descend
            /\ ~there => pc' = "fault" /\ UNCHANGED <<mem, level, table>>
      BY <1>7 DEF CreateSubtable
    <2>2. UNCHANGED <<request, done, reply>> /\ Mapping /\ level > 1
      BY <1>7 DEF CreateSubtable, AtEntry
    <2>3. CASE there
      <3>1. entryAddr(subtable) \in Int
        <4>1. tableAddress(virtAddr, level - 1) \in Int
          BY <2>2, VirtAddrTypes
        <4> QED
          BY <4>1, AddressTypes DEF subtable
      <3>2. WriteEntry(mem, entryAddr(subtable), frame) \in Memories
        BY <2>1, <3>1, WriteTypes
      <3>3. PICK entries \in [Indices -> Entries] :
              mem' = [WriteEntry(mem, entryAddr(subtable), frame) EXCEPT ![frame] = entries]
        BY <1>1, <2>1, <2>3, ZeroedTypes
      <3>4. mem' \in Memories
        <4> DEFINE linked == WriteEntry(mem, entryAddr(subtable), frame)
        <4>1. linked \in Memories /\ mem' = [linked EXCEPT ![frame] = entries]
          BY <3>2, <3>3
        <4> HIDE DEF linked
        <4> QED
          BY <3>3, <4>1 DEF Memories
      <3> QED
        BY <1>4, <2>1, <2>2, <2>3, <3>4
    <2>4. CASE ~there
      BY <2>1, <2>2, <2>4
    <2> QED
      BY <2>3, <2>4
  <1>8. CASE ClearOverrun
    <2>1. UNCHANGED <<free, request, done, level, table, reply>>
      BY <1>8 DEF ClearOverrun
    <2>2. CASE Accessible(mem, PageAfter)
      <3>1. PICK cleared \in [Indices -> Entries] :
              mem' = [mem EXCEPT ![FrameAt(mem, PageAfter)] = cleared]
        <4>1. table \in Int /\ Offset(table) \in Int /\ AddressSpaceSize \in Nat \ {0}
          <5>1. AddressSpaceSize = kPageSize * Shift[4] /\ kPageSize \in Nat \ {0}
                /\ Shift[4] \in Nat \ {0}
            BY Sizes DEF AddressSpaceSize
          <5>2. \A c, d \in Nat \ {0} : c * d \in Nat \ {0}
            OBVIOUS
          <5> QED
            BY <5>1, <5>2, WalkTypes
        <4>2. table - Offset(table) + kPageSize \in Int
          BY <4>1, Sizes
        <4>3. PageAfter \in Int
          BY <4>1, <4>2, Remainder DEF PageAfter
        <4>4. FrameAt(mem, PageAfter) \in Frames
          BY <2>2, <4>3, WalkTypes DEF Accessible, Entries
        <4> QED
          BY <1>1, <1>8, <2>2, <4>4, ZeroedTypes DEF ClearOverrun
      <3>2. mem' \in Memories
        BY <3>1 DEF Memories
      <3>3. pc' = "map"
        BY <1>8, <2>2 DEF ClearOverrun
      <3> QED
        BY <2>1, <3>2, <3>3
    <2>3. CASE ~Accessible(mem, PageAfter)
      BY <1>8, <2>1, <2>3 DEF ClearOverrun
    <2> QED
      BY <2>2, <2>3
  <1>9. CASE SetEntry
    <2>1. /\ mem' = WriteEntry(mem, entryAddr(virtAddr), physFrame) /\ done' = done + 1
          /\ done < request.count /\ level' = 4 /\ table' = pml4Address
          /\ UNCHANGED <<free, pc, request, reply>>
      BY <1>9 DEF SetEntry, Mapping, AtRoot
    <2>2. mem' \in Memories
      <3>1. entryAddr(virtAddr) \in Int /\ physFrame \in Frames
        BY <2>1, VirtAddrTypes, AddressTypes
      <3> QED
        BY <2>1, <3>1, WriteTypes
    <2>3. done' \in 0 .. request.count
      BY <1>1, <2>1
    <2> QED
      BY <1>1, <2>1, <2>2, <2>3
  <1>10. CASE WriteFault
    BY <1>10 DEF WriteFault, Fault
  <1>11. CASE Return
    BY <1>11 DEF Return
  <1>12. CASE UNCHANGED vars
    BY <1>12 DEF vars
  <1> QED
    BY <1>2, <1>3, <1>5, <1>6, <1>7, <1>8, <1>9, <1>10, <1>11, <1>12 DEF Next

(* Whatever is asked for, wherever the tables are and whatever their frames
   held, entries only ever hold frames that exist and map never counts a page
   beyond those it was asked for (the loop of PageTables::map, 36-78).     *)
THEOREM PagesTypesCorrect == Spec => []PagesTypeOK
  <1>1. Spec => []WalkTypeOK
    BY InitTypes, TypesKept, PTL DEF Spec
  <1>2. WalkTypeOK => PagesTypeOK
    BY DEF WalkTypeOK
  <1> QED
    BY <1>1, <1>2, PTL

-----------------------------------------------------------------------------
(* The kernel's accesses, as the processor translates them. *)
LEMMA PlainFields ==
  ASSUME NEW w \in Indices, NEW x \in Indices, NEW y \in Indices, NEW z \in Indices
  PROVE  /\ entryIndex(PageAt(w, x, y, z), 4) = w /\ entryIndex(PageAt(w, x, y, z), 3) = x
         /\ entryIndex(PageAt(w, x, y, z), 2) = y /\ entryIndex(PageAt(w, x, y, z), 1) = z
         /\ Offset(PageAt(w, x, y, z)) = 0
  <1>1. PageAt(w, x, y, z) \in Int /\ 0 \in 0 .. (kPageSize - 1)
    BY PageAtIsPage, AddressTypes, LastIsIndex
  <1>2. PageAt(w, x, y, z) + 0 = PageAt(w, x, y, z)
    BY <1>1
  <1>3. /\ entryIndex(PageAt(w, x, y, z) + 0, 4) = w /\ entryIndex(PageAt(w, x, y, z) + 0, 3) = x
        /\ entryIndex(PageAt(w, x, y, z) + 0, 2) = y /\ entryIndex(PageAt(w, x, y, z) + 0, 1) = z
        /\ Offset(PageAt(w, x, y, z) + 0) = 0
    BY <1>1, FieldsOfPage
  <1> QED
    BY <1>2, <1>3

(* A page is its indices. *)
LEMMA FieldsDetermine ==
  ASSUME NEW p \in Pages, NEW q \in Pages,
         \A l \in 1 .. 4 : entryIndex(p, l) = entryIndex(q, l)
  PROVE  p = q
  <1>1. PICK w, x, y, z \in Indices : p = PageAt(w, x, y, z)
    BY PageHasFields
  <1>2. PICK s, t, u, v \in Indices : q = PageAt(s, t, u, v)
    BY PageHasFields
  <1>3. w = s /\ x = t /\ y = u /\ z = v
    <2>1. /\ entryIndex(p, 4) = w /\ entryIndex(p, 3) = x
          /\ entryIndex(p, 2) = y /\ entryIndex(p, 1) = z
      BY <1>1, PlainFields
    <2>2. /\ entryIndex(q, 4) = s /\ entryIndex(q, 3) = t
          /\ entryIndex(q, 2) = u /\ entryIndex(q, 1) = v
      BY <1>2, PlainFields
    <2> QED
      BY <2>1, <2>2
  <1> QED
    BY <1>1, <1>2, <1>3

(* The indices above a level find its table. *)
LEMMA TablesByIndices ==
  ASSUME NEW m, NEW a, NEW b, NEW l \in 1 .. 4,
         \A k \in (l + 1) .. 4 : entryIndex(a, k) = entryIndex(b, k)
  PROVE  TableOf(m, RootFrame, a, l) = TableOf(m, RootFrame, b, l)
  <1>1. \A k \in 1 .. 3 :
          /\ TableOf(m, RootFrame, a, k + 1) = TableOf(m, RootFrame, b, k + 1)
          /\ entryIndex(a, k + 1) = entryIndex(b, k + 1)
          => TableOf(m, RootFrame, a, k) = TableOf(m, RootFrame, b, k)
    BY WalkSteps
  <1>2. TableOf(m, RootFrame, a, 4) = TableOf(m, RootFrame, b, 4)
    BY WalkSteps
  <1>3. l <= 3 => TableOf(m, RootFrame, a, 3) = TableOf(m, RootFrame, b, 3)
    BY <1>1, <1>2
  <1>4. l <= 2 => TableOf(m, RootFrame, a, 2) = TableOf(m, RootFrame, b, 2)
    BY <1>1, <1>3
  <1>5. l <= 1 => TableOf(m, RootFrame, a, 1) = TableOf(m, RootFrame, b, 1)
    BY <1>1, <1>4
  <1> QED
    BY <1>2, <1>3, <1>4, <1>5

(* The last entry of the root points at the root. *)
Recursive(m) == m \in Memories /\ m[RootFrame][Last] = RootFrame

(* One last index in front of an address brings up its last table, two the
   table above, and so on.                                                *)
LEMMA ThroughRoot ==
  ASSUME NEW m, Recursive(m),
         NEW w \in Indices, NEW x \in Indices, NEW y \in Indices, NEW z \in Indices,
         NEW o \in 0 .. (kPageSize - 1)
  PROVE  /\ FrameAt(m, PageAt(Last, w, x, y) + o) = TableOf(m, RootFrame, PageAt(w, x, y, z), 1)
         /\ FrameAt(m, PageAt(Last, Last, w, x) + o) = TableOf(m, RootFrame, PageAt(w, x, y, z), 2)
         /\ FrameAt(m, PageAt(Last, Last, Last, w) + o) = TableOf(m, RootFrame, PageAt(w, x, y, z), 3)
         /\ FrameAt(m, PageAt(Last, Last, Last, Last) + o) = RootFrame
         /\ \A s, t, u, v \in Indices : Offset(PageAt(s, t, u, v) + o) = o
  <1> DEFINE p == PageAt(w, x, y, z)
  <1> DEFINE R == RootFrame
  <1>1. m[R][Last] = R /\ R # Absent /\ Last \in Indices
    BY WalkSteps, LastIsIndex DEF Recursive
  <1>2. \A s, t, u, v \in Indices :
          LET a == PageAt(s, t, u, v) + o IN
          /\ entryIndex(a, 4) = s /\ entryIndex(a, 3) = t
          /\ entryIndex(a, 2) = u /\ entryIndex(a, 1) = v
          /\ Offset(a) = o
    BY FieldsOfPage
  <1>3. /\ entryIndex(p, 4) = w /\ entryIndex(p, 3) = x
        /\ entryIndex(p, 2) = y /\ entryIndex(p, 1) = z
    BY PlainFields
  <1> DEFINE read(t, i) == IF t = Absent THEN Absent ELSE m[t][i]
  <1>4. \A a : /\ TableOf(m, R, a, 4) = R
               /\ TableOf(m, R, a, 3) = read(R, entryIndex(a, 4))
               /\ TableOf(m, R, a, 2) = read(TableOf(m, R, a, 3), entryIndex(a, 3))
               /\ TableOf(m, R, a, 1) = read(TableOf(m, R, a, 2), entryIndex(a, 2))
               /\ FrameAt(m, a) = read(TableOf(m, R, a, 1), entryIndex(a, 1))
    BY WalkSteps DEF FrameAt
  <1>5. read(R, Last) = R
    BY <1>1
  <1> HIDE DEF p, R, read
  <1>6. \A s, t, u, v \in Indices :
          FrameAt(m, PageAt(s, t, u, v) + o) = read(read(read(read(R, s), t), u), v)
    BY <1>2, <1>4
  <1>7. /\ TableOf(m, R, p, 3) = read(R, w)
        /\ TableOf(m, R, p, 2) = read(read(R, w), x)
        /\ TableOf(m, R, p, 1) = read(read(read(R, w), x), y)
    BY <1>3, <1>4
  <1>8. FrameAt(m, PageAt(Last, w, x, y) + o) = TableOf(m, R, p, 1)
    BY <1>1, <1>5, <1>6, <1>7
  <1>9. FrameAt(m, PageAt(Last, Last, w, x) + o) = TableOf(m, R, p, 2)
    BY <1>1, <1>5, <1>6, <1>7
  <1>10. FrameAt(m, PageAt(Last, Last, Last, w) + o) = TableOf(m, R, p, 3)
    BY <1>1, <1>5, <1>6, <1>7
  <1>11. FrameAt(m, PageAt(Last, Last, Last, Last) + o) = R
    BY <1>1, <1>5, <1>6
  <1> QED
    BY <1>2, <1>8, <1>9, <1>10, <1>11 DEF p, R

(* The address the kernel writes for a page is translated, by the tables it
   writes to, to the entry the processor reads for that page.              *)
THEOREM EntryAddressIsEntry ==
  ASSUME NEW m, Recursive(m), NEW p \in Pages
  PROVE  /\ FrameAt(m, entryAddr(p)) = TableOf(m, RootFrame, p, 1)
         /\ Offset(entryAddr(p)) \div EntryBytes = entryIndex(p, 1)
  <1>1. PICK w, x, y, z \in Indices : p = PageAt(w, x, y, z)
    BY PageHasFields
  <1>2. /\ entryAddr(p) = PageAt(Last, w, x, y) + z * EntryBytes
        /\ z * EntryBytes \in 0 .. (kPageSize - 1)
        /\ (z * EntryBytes) \div EntryBytes = z
    BY <1>1, EntryOfPage
  <1>3. /\ FrameAt(m, entryAddr(p)) = TableOf(m, RootFrame, p, 1)
        /\ Offset(entryAddr(p)) = z * EntryBytes
    BY <1>1, <1>2, ThroughRoot, LastIsIndex
  <1>4. entryIndex(p, 1) = z
    BY <1>1, PlainFields
  <1> QED
    BY <1>2, <1>3, <1>4

-----------------------------------------------------------------------------
(* What the two ways of writing an entry do to the walks. *)
LEMMA MappableFacts ==
  /\ MappablePages \subseteq Pages /\ MappablePages \subseteq Int
  /\ \A p \in MappablePages : entryIndex(p, 4) # Last
  /\ PageAt(0, 0, 0, 0) \in MappablePages
  <1>1. MappablePages \subseteq Pages /\ MappablePages \subseteq Int
    BY AddressTypes DEF MappablePages
  <1>2. ASSUME NEW p \in MappablePages PROVE entryIndex(p, 4) # Last
    <2>1. PICK w, x, y, z \in Indices : p = PageAt(w, x, y, z)
      BY <1>1, PageHasFields
    <2>2. w # Last
      BY <2>1, BelowTables DEF MappablePages
    <2> QED
      BY <2>1, <2>2, PlainFields
  <1>3. PageAt(0, 0, 0, 0) \in MappablePages
    <2>1. 0 # Last
      BY Sizes DEF Last
    <2> QED
      BY <2>1, BelowTables, LastIsIndex, PageAtIsPage DEF MappablePages
  <1> QED
    BY <1>1, <1>2, <1>3

(* Memory m with frame f at address a's entry in its table of level l. *)
Put(m, a, l, f) == [m EXCEPT ![TableOf(m, RootFrame, a, l)][entryIndex(a, l)] = f]

Cleared == [j \in Indices |-> Absent]

Read(m, t, i) == IF t = Absent THEN Absent ELSE m[t][i]

LEMMA WalkReads ==
  \A m, a :
    /\ \A l \in 1 .. 3 :
         TableOf(m, RootFrame, a, l)
           = Read(m, TableOf(m, RootFrame, a, l + 1), entryIndex(a, l + 1))
    /\ Translate(m, RootFrame, a) = Read(m, TableOf(m, RootFrame, a, 1), entryIndex(a, 1))
  BY WalkSteps DEF Read

(* Memory n has the tables of m, and translates only v anew. *)
OnlyTranslates(m, n, v, f) ==
  \A q \in MappablePages :
    /\ \A l \in 1 .. 4 : TableOf(n, RootFrame, q, l) = TableOf(m, RootFrame, q, l)
    /\ Translate(n, RootFrame, q) = IF q = v THEN f ELSE Translate(m, RootFrame, q)

(* Memory n translates as m does, with one table more, f, below v's table of
   level top.                                                             *)
OnlyLinks(m, n, v, top, f) ==
  \A q \in MappablePages :
    /\ \A l \in 1 .. 4 :
         TableOf(n, RootFrame, q, l)
           = IF l = top - 1 /\ \A j \in top .. 4 : entryIndex(q, j) = entryIndex(v, j)
             THEN f ELSE TableOf(m, RootFrame, q, l)
    /\ Translate(n, RootFrame, q) = Translate(m, RootFrame, q)

(* An entry of a last table changes the translation of its page alone. *)
LEMMA SetOne ==
  ASSUME NEW m, Recursive(m), TablesApart(m), NEW v \in MappablePages, NEW f \in Frames,
         TableOf(m, RootFrame, v, 1) # Absent,
         NEW n, n = Put(m, v, 1, f)
  PROVE  Recursive(n) /\ OnlyTranslates(m, n, v, f)
  <1> DEFINE t == TableOf(m, RootFrame, v, 1)
  <1> DEFINE i == entryIndex(v, 1)
  <1>1. m \in Memories /\ m[RootFrame][Last] = RootFrame /\ v \in Int /\ v \in Pages
    BY MappableFacts DEF Recursive
  <1>2. t \in Frames /\ i \in Indices /\ RootFrame \in Frames
    BY <1>1, WalkTypes, RequestAssumption DEF Entries
  <1>3. ASSUME NEW q \in MappablePages, NEW l \in 2 .. 4 PROVE TableOf(m, RootFrame, q, l) # t
    BY <1>3 DEF TablesApart
  <1>4. n \in Memories /\ \A g \in Frames : g # t => n[g] = m[g]
    <2>1. n = [m EXCEPT ![t] = [m[t] EXCEPT ![i] = f]]
      BY DEF Put
    <2> HIDE DEF t, i
    <2>2. [m[t] EXCEPT ![i] = f] \in [Indices -> Entries]
      BY <1>1, <1>2 DEF Memories, Entries
    <2> QED
      BY <1>1, <1>2, <2>1, <2>2 DEF Memories
  <1>5. n[t][i] = f /\ \A j \in Indices : j # i => n[t][j] = m[t][j]
    <2> HIDE DEF t, i
    <2>1. n = [m EXCEPT ![t][i] = f]
      BY DEF t, i, Put
    <2> QED
      BY <1>1, <1>2, <2>1 DEF Memories
  <1>6. RootFrame # t
    BY <1>3, MappableFacts, WalkSteps
  <1>7. Recursive(n)
    BY <1>1, <1>2, <1>4, <1>6 DEF Recursive
  <1>8. ASSUME NEW q \in MappablePages
        PROVE  \A l \in 1 .. 4 : TableOf(n, RootFrame, q, l) = TableOf(m, RootFrame, q, l)
    <2>1. q \in Int
      BY MappableFacts
    <2>2. ASSUME NEW l \in 1 .. 3,
                 TableOf(n, RootFrame, q, l + 1) = TableOf(m, RootFrame, q, l + 1)
          PROVE  TableOf(n, RootFrame, q, l) = TableOf(m, RootFrame, q, l)
      <3> DEFINE g == TableOf(m, RootFrame, q, l + 1)
      <3>1. g # t
        BY <1>3
      <3>2. g # Absent => g \in Frames
        BY <1>1, <2>1, WalkTypes DEF Entries
      <3>3. g # Absent => n[g] = m[g]
        BY <1>4, <3>1, <3>2
      <3>4. /\ TableOf(n, RootFrame, q, l) = Read(n, g, entryIndex(q, l + 1))
            /\ TableOf(m, RootFrame, q, l) = Read(m, g, entryIndex(q, l + 1))
        BY <2>2, WalkReads, Zenon
      <3> QED
        BY <3>3, <3>4 DEF Read
    <2>3. TableOf(n, RootFrame, q, 4) = TableOf(m, RootFrame, q, 4)
      BY WalkSteps
    <2>4. TableOf(n, RootFrame, q, 3) = TableOf(m, RootFrame, q, 3)
      BY <2>2, <2>3
    <2>5. TableOf(n, RootFrame, q, 2) = TableOf(m, RootFrame, q, 2)
      BY <2>2, <2>4
    <2>6. TableOf(n, RootFrame, q, 1) = TableOf(m, RootFrame, q, 1)
      BY <2>2, <2>5
    <2> QED
      BY <2>3, <2>4, <2>5, <2>6
  <1>9. ASSUME NEW q \in MappablePages
        PROVE  Translate(n, RootFrame, q) = IF q = v THEN f ELSE Translate(m, RootFrame, q)
    <2> DEFINE g == TableOf(m, RootFrame, q, 1)
    <2>1. /\ Translate(n, RootFrame, q) = IF g = Absent THEN Absent ELSE n[g][entryIndex(q, 1)]
          /\ Translate(m, RootFrame, q) = IF g = Absent THEN Absent ELSE m[g][entryIndex(q, 1)]
      <3>1. 1 \in 1 .. 4
        OBVIOUS
      <3>2. TableOf(n, RootFrame, q, 1) = g
        BY <1>8, <3>1, Zenon
      <3>3. /\ Translate(n, RootFrame, q) = Read(n, g, entryIndex(q, 1))
            /\ Translate(m, RootFrame, q) = Read(m, g, entryIndex(q, 1))
        BY <3>2, WalkReads, Zenon
      <3> QED
        BY <3>3, Zenon DEF Read
    <2>2. g \in Entries /\ entryIndex(q, 1) \in Indices /\ q \in Int /\ q \in Pages
      BY <1>1, WalkTypes, MappableFacts
    <2>3. CASE q = v
      BY <1>2, <1>5, <2>1, <2>3
    <2>4. CASE q # v /\ g = t
      <3>1. \A j \in 2 .. 4 : entryIndex(q, j) = entryIndex(v, j)
        BY <2>4 DEF TablesApart
      <3>2. entryIndex(q, 1) # i
        BY <1>1, <2>2, <2>4, <3>1, FieldsDetermine
      <3> QED
        BY <1>5, <2>1, <2>2, <2>4, <3>2
    <2>5. CASE g # t
      <3>1. g # Absent => g \in Frames
        BY <2>2 DEF Entries
      <3>2. q # v
        BY <2>5
      <3> QED
        BY <1>4, <2>1, <2>5, <3>1, <3>2
    <2> QED
      BY <2>3, <2>4, <2>5
  <1> QED
    BY <1>7, <1>8, <1>9 DEF OnlyTranslates

(* A cleared frame linked in where a table is absent brings no page with it. *)
LEMMA LinkOne ==
  ASSUME NEW m, Recursive(m), TablesApart(m), NEW v \in MappablePages, NEW f \in Frames,
         TablesAvoid(m, {f}), NEW top \in 2 .. 4,
         TableOf(m, RootFrame, v, top) # Absent, TableOf(m, RootFrame, v, top - 1) = Absent,
         NEW n, n = [Put(m, v, top, f) EXCEPT ![f] = Cleared]
  PROVE  Recursive(n) /\ OnlyLinks(m, n, v, top, f)
  <1> DEFINE R == RootFrame
  <1> DEFINE t == TableOf(m, R, v, top)
  <1> DEFINE i == entryIndex(v, top)
  <1> DEFINE same(q) == \A j \in top .. 4 : entryIndex(q, j) = entryIndex(v, j)
  <1>1. m \in Memories /\ m[R][Last] = R /\ v \in Int
    BY MappableFacts DEF Recursive
  <1>2. t \in Frames /\ i \in Indices /\ R \in Frames /\ Absent \notin Frames
    BY <1>1, WalkTypes, RequestAssumption, PagingAssumption DEF Entries
  <1>3. /\ f # t /\ f # R
        /\ \A q \in MappablePages : \A l \in 1 .. 4 : TableOf(m, R, q, l) # f
    BY WalkSteps DEF TablesAvoid
  <1>4. /\ n \in Memories
        /\ \A g \in Frames : g # t /\ g # f => n[g] = m[g]
        /\ n[t] = [m[t] EXCEPT ![i] = f]
        /\ n[f] = [j \in Indices |-> Absent]
    <2> HIDE DEF t, i
    <2>1. n = [[m EXCEPT ![t][i] = f] EXCEPT ![f] = [j \in Indices |-> Absent]]
      BY DEF t, i, Put, Cleared
    <2>2. m \in [Frames -> [Indices -> Entries]] /\ f \in Entries /\ Absent \in Entries
      BY <1>1 DEF Memories, Entries
    <2>3. [m[t] EXCEPT ![i] = f] \in [Indices -> Entries]
      BY <1>2, <2>2
    <2>4. [m EXCEPT ![t][i] = f] \in [Frames -> [Indices -> Entries]]
      BY <1>2, <2>2, <2>3
    <2>5. /\ \A g \in Frames : g # t => [m EXCEPT ![t][i] = f][g] = m[g]
          /\ [m EXCEPT ![t][i] = f][t] = [m[t] EXCEPT ![i] = f]
      BY <1>2, <2>2
    <2>6. [j \in Indices |-> Absent] \in [Indices -> Entries]
      BY <2>2
    <2> QED
      BY <1>2, <1>3, <2>1, <2>4, <2>5, <2>6 DEF Memories
  <1>5. /\ n[t][i] = f /\ \A j \in Indices : j # i => n[t][j] = m[t][j]
        /\ \A j \in Indices : n[f][j] = Absent
    <2> HIDE DEF t, i
    <2>1. m[t] \in [Indices -> Entries]
      BY <1>1, <1>2 DEF Memories
    <2>2. [m[t] EXCEPT ![i] = f][i] = f
      BY <1>2, <2>1
    <2>3. \A j \in Indices : j # i => [m[t] EXCEPT ![i] = f][j] = m[t][j]
      BY <2>1
    <2>4. \A j \in Indices : [k \in Indices |-> Absent][j] = Absent
      OBVIOUS
    <2>5. n[t] = [m[t] EXCEPT ![i] = f] /\ n[f] = [k \in Indices |-> Absent]
      BY <1>4 DEF t, i
    <2> QED
      BY <2>2, <2>3, <2>4, <2>5, Zenon
  <1>6. Recursive(n)
    <2>1. n[R][Last] = R
      <3>1. CASE R = t
        <4>1. i # Last
          <5>1. top = 4
            BY <3>1, WalkSteps DEF TablesApart
          <5> QED
            BY <5>1, MappableFacts
        <4> QED
          BY <1>1, <1>5, <3>1, <4>1, LastIsIndex
      <3>2. CASE R # t
        BY <1>1, <1>2, <1>3, <1>4, <3>2
      <3> QED
        BY <3>1, <3>2
    <2> QED
      BY <1>4, <2>1 DEF Recursive
  <1>7. ASSUME NEW q \in MappablePages
        PROVE  /\ \A l \in 1 .. 4 : entryIndex(q, l) \in Indices
               /\ \A l \in 1 .. 4 : TableOf(m, R, q, l) \in Entries /\ TableOf(m, R, q, l) # f
    <2>1. q \in Int
      BY MappableFacts
    <2> QED
      BY <1>1, <1>3, <2>1, WalkTypes
  <1>8. ASSUME NEW q \in MappablePages, NEW l \in 1 .. 4
        PROVE  TableOf(n, R, q, l) = IF l = top - 1 /\ same(q) THEN f ELSE TableOf(m, R, q, l)
    <2> DEFINE good(k) ==
          TableOf(n, R, q, k) = IF k = top - 1 /\ same(q) THEN f ELSE TableOf(m, R, q, k)
    <2> DEFINE g(k) == TableOf(m, R, q, k)
    <2>1. good(4)
      BY WalkSteps
    <2>2. ASSUME NEW k \in 1 .. 3, good(k + 1) PROVE good(k)
      <3>1. /\ g(k) = Read(m, g(k + 1), entryIndex(q, k + 1))
            /\ TableOf(n, R, q, k) = Read(n, TableOf(n, R, q, k + 1), entryIndex(q, k + 1))
        BY WalkReads, Zenon
      <3>2. entryIndex(q, k + 1) \in Indices /\ g(k + 1) \in Entries /\ g(k + 1) # f
        BY <1>7
      <3>3. CASE k + 1 = top - 1 /\ same(q)
        <4>1. TableOf(n, R, q, k) = Absent
          BY <1>2, <1>5, <2>2, <3>1, <3>2, <3>3 DEF Read
        <4>2. g(k + 1) = Absent
          <5>1. TableOf(m, R, q, top - 1) = TableOf(m, R, v, top - 1)
            BY <3>3, TablesByIndices
          <5> QED
            BY <3>3, <5>1
        <4>3. k # top - 1
          BY <3>3
        <4> QED
          BY <3>1, <4>1, <4>2, <4>3 DEF Read
      <3>4. CASE ~(k + 1 = top - 1 /\ same(q))
        <4>1. TableOf(n, R, q, k + 1) = g(k + 1)
          BY <2>2, <3>4
        <4>2. CASE g(k + 1) = t
          <5>1. k + 1 = top /\ \A j \in (top + 1) .. 4 : entryIndex(q, j) = entryIndex(v, j)
            BY <4>2 DEF TablesApart
          <5>2. same(q) <=> entryIndex(q, top) = i
            <6>1. \A j \in top .. 4 : j = top \/ j \in (top + 1) .. 4
              OBVIOUS
            <6> QED
              BY <5>1, <6>1
          <5>3. k = top - 1
            BY <5>1
          <5>4. TableOf(n, R, q, k) = n[t][entryIndex(q, top)] /\ g(k) = m[t][entryIndex(q, top)]
            BY <1>2, <3>1, <4>1, <4>2, <5>1 DEF Read
          <5> QED
            BY <1>5, <3>2, <5>1, <5>2, <5>3, <5>4
        <4>3. CASE g(k + 1) # t
          <5>1. TableOf(n, R, q, k) = g(k)
            <6>1. g(k + 1) # Absent => n[g(k + 1)] = m[g(k + 1)]
              BY <1>4, <3>2, <4>3 DEF Entries
            <6> QED
              BY <3>1, <4>1, <6>1 DEF Read
          <5>2. ~(k = top - 1 /\ same(q))
            <6>1. ASSUME k = top - 1, same(q) PROVE FALSE
              <7>1. k + 1 = top /\ \A j \in (top + 1) .. 4 : entryIndex(q, j) = entryIndex(v, j)
                BY <6>1
              <7>2. TableOf(m, R, q, top) = t
                BY <7>1, TablesByIndices
              <7> QED
                BY <4>3, <7>1, <7>2
            <6> QED
              BY <6>1
          <5> QED
            BY <5>1, <5>2
        <4> QED
          BY <4>2, <4>3
      <3> QED
        BY <3>3, <3>4
    <2> HIDE DEF good
    <2>3. good(3)
      BY <2>1, <2>2
    <2>4. good(2)
      BY <2>2, <2>3
    <2>5. good(1)
      BY <2>2, <2>4
    <2>6. l = 1 \/ l = 2 \/ l = 3 \/ l = 4
      OBVIOUS
    <2>7. good(l)
      BY <2>1, <2>3, <2>4, <2>5, <2>6
    <2> QED
      BY <2>7 DEF good
  <1>9. ASSUME NEW q \in MappablePages
        PROVE  Translate(n, R, q) = Translate(m, R, q)
    <2> DEFINE g == TableOf(m, R, q, 1)
    <2>1. /\ Translate(n, R, q)
               = IF TableOf(n, R, q, 1) = Absent THEN Absent
                 ELSE n[TableOf(n, R, q, 1)][entryIndex(q, 1)]
          /\ Translate(m, R, q) = IF g = Absent THEN Absent ELSE m[g][entryIndex(q, 1)]
      BY WalkSteps
    <2>2. entryIndex(q, 1) \in Indices /\ g \in Entries /\ g # f
      BY <1>7
    <2>3. CASE 1 = top - 1 /\ same(q)
      <3>1. TableOf(n, R, q, 1) = f
        <4>1. 1 \in 1 .. 4
          OBVIOUS
        <4> QED
          BY <1>8, <2>3, <4>1, Zenon
      <3>2. g = Absent
        <4>1. TableOf(m, R, q, top - 1) = TableOf(m, R, v, top - 1)
          BY <2>3, TablesByIndices
        <4> QED
          BY <2>3, <4>1
      <3> QED
        BY <1>2, <1>5, <2>1, <2>2, <3>1, <3>2
    <2>4. CASE ~(1 = top - 1 /\ same(q))
      <3>1. TableOf(n, R, q, 1) = g
        <4>1. 1 \in 1 .. 4
          OBVIOUS
        <4> QED
          BY <1>8, <2>4, <4>1, Zenon
      <3>2. g # t
        BY DEF TablesApart
      <3>3. g # Absent => n[g] = m[g]
        BY <1>4, <2>2, <3>2 DEF Entries
      <3> QED
        BY <2>1, <3>1, <3>3
    <2> QED
      BY <2>3, <2>4
  <1> QED
    BY <1>6, <1>8, <1>9 DEF OnlyLinks

-----------------------------------------------------------------------------
(* The walk of a range that begins at an entry of the root: the addresses the
   kernel uses at each level are those of the tables the processor uses.   *)
LEMMA EntryIsWhole ==
  ASSUME NEW w \in Indices, NEW x \in Indices, NEW y \in Indices, NEW z \in Indices, NEW j \in Indices
  PROVE  /\ (PageAt(w, x, y, z) + j * EntryBytes) % EntryBytes = 0
         /\ (PageAt(w, x, y, z) + j * EntryBytes) % AddressSpaceSize = PageAt(w, x, y, z) + j * EntryBytes
         /\ j * EntryBytes \in 0 .. (kPageSize - 1) /\ (j * EntryBytes) \div EntryBytes = j
  <1> DEFINE a == PageAt(w, x, y, z) + j * EntryBytes
  <1>1. j * EntryBytes \in 0 .. (kPageSize - 1) /\ (j * EntryBytes) \div EntryBytes = j
    BY EntryOfPage
  <1>2. a % EntryBytes = 0
    <2> DEFINE E == EntriesPerTable
    <2> DEFINE B == EntryBytes
    <2> DEFINE n == ((w * E + x) * E + y) * E + z
    <2>1. E \in Nat /\ B \in Nat \ {0} /\ kPageSize = E * B /\ Indices \subseteq Nat
      BY Sizes DEF Indices
    <2>2. a = n * (E * B) + j * B
      BY <2>1 DEF PageAt
    <2> HIDE DEF a, E, B
    <2>3. n \in Nat
      <3>1. w * E + x \in Nat
        BY <2>1
      <3>2. (w * E + x) * E + y \in Nat
        BY <2>1, <3>1
      <3> QED
        BY <2>1, <3>2
    <2> HIDE DEF n
    <2> DEFINE q == n * E + j
    <2>4. q \in Nat /\ a = q * B + 0 /\ 0 \in 0 .. (B - 1)
      BY <2>1, <2>2, <2>3
    <2>5. (q * B + 0) % B = 0
      <3> HIDE DEF q
      <3> QED
        BY <2>1, <2>4, Divide
    <2> QED
      BY <2>4, <2>5 DEF B
  <1>3. a \in 0 .. (AddressSpaceSize - 1) /\ AddressSpaceSize \in Nat
    BY <1>1, SpaceSizes
  <1>4. a % AddressSpaceSize = a
    <2> HIDE DEF a
    <2>1. \A c \in Nat : \A b \in 0 .. (c - 1) : b % c = b
      OBVIOUS
    <2> QED
      BY <1>3, <2>1
  <1> QED
    BY <1>1, <1>2, <1>4

(* The address at which the kernel believes the current table to be. *)
Believed(v, l) == IF l = 4 THEN pml4Address ELSE tableAddress(v, l)

LEMMA AlignedWalk ==
  ASSUME NEW m, Recursive(m), NEW w \in Indices, NEW z \in Indices,
         z * EntryBytes < EntriesPerTable, NEW l \in 2 .. 4
  PROVE  LET v == PageAt(w, 0, 0, z)
             e == (Believed(v, l) + entryIndex(v, l) * EntryBytes) % AddressSpaceSize
             sub == tableAddress(v, l - 1)
         IN /\ FrameAt(m, e) = TableOf(m, RootFrame, v, l)
            /\ Offset(e) \div EntryBytes = entryIndex(v, l)
            /\ e % EntryBytes = 0
            /\ (l = 2 => z = 0)
               => /\ FrameAt(m, entryAddr(sub)) = TableOf(m, RootFrame, v, l)
                  /\ Offset(entryAddr(sub)) \div EntryBytes = entryIndex(v, l)
                  /\ Offset(sub) = 0
  <1> DEFINE v == PageAt(w, 0, 0, z)
  <1> DEFINE e == (Believed(v, l) + entryIndex(v, l) * EntryBytes) % AddressSpaceSize
  <1> DEFINE sub == tableAddress(v, l - 1)
  <1> DEFINE j == entryIndex(v, l)
  <1> DEFINE S == CASE l = 4 -> PageAt(Last, Last, Last, Last)
                    [] l = 3 -> PageAt(Last, Last, Last, w)
                    [] l = 2 -> PageAt(Last, Last, w, 0)
  <1>1. Last \in Indices /\ 0 \in Indices
    BY LastIsIndex
  <1>2. /\ entryIndex(v, 4) = w /\ entryIndex(v, 3) = 0 /\ entryIndex(v, 2) = 0
        /\ j \in Indices
    BY <1>1, PlainFields
  <1>3. /\ tableAddress(v, 3) = PageAt(Last, Last, Last, w)
        /\ tableAddress(v, 2) = PageAt(Last, Last, w, 0)
        /\ tableAddress(v, 1) = PageAt(Last, w, 0, 0) + z * EntryBytes
    BY <1>1, TablesOfAligned, EntryOfPage
  <1>4. Believed(v, l) = S
    BY <1>3, SpaceSizes DEF Believed
  <1>5. \E s, t, x, y \in Indices : S = PageAt(s, t, x, y)
    BY <1>1
  <1>6. /\ e = S + j * EntryBytes /\ e % EntryBytes = 0
        /\ j * EntryBytes \in 0 .. (kPageSize - 1) /\ (j * EntryBytes) \div EntryBytes = j
    <2> HIDE DEF S, j, v
    <2>1. PICK s, t, x, y \in Indices : S = PageAt(s, t, x, y)
      BY <1>5
    <2>2. e = (PageAt(s, t, x, y) + j * EntryBytes) % AddressSpaceSize
      BY <1>4, <2>1 DEF j
    <2> QED
      BY <1>2, <2>1, <2>2, EntryIsWhole
  <1>7. FrameAt(m, S + j * EntryBytes) = TableOf(m, RootFrame, v, l)
    <2> DEFINE o == j * EntryBytes
    <2>1. o \in 0 .. (kPageSize - 1)
      BY <1>6
    <2> HIDE DEF o, j
    <2>2. /\ FrameAt(m, PageAt(Last, Last, Last, Last) + o) = RootFrame
          /\ FrameAt(m, PageAt(Last, Last, Last, w) + o) = TableOf(m, RootFrame, v, 3)
          /\ FrameAt(m, PageAt(Last, Last, w, 0) + o) = TableOf(m, RootFrame, v, 2)
      BY <1>1, <2>1, ThroughRoot
    <2>3. TableOf(m, RootFrame, v, 4) = RootFrame
      BY WalkSteps
    <2>4. FrameAt(m, S + o) = TableOf(m, RootFrame, v, l)
      BY <2>2, <2>3
    <2> QED
      BY <2>4 DEF o
  <1>8. Offset(S + j * EntryBytes) = j * EntryBytes
    <2> DEFINE o == j * EntryBytes
    <2>1. o \in 0 .. (kPageSize - 1)
      BY <1>6
    <2> HIDE DEF o, j, S
    <2>2. Offset(S + o) = o
      BY <1>5, <2>1, FieldsOfPage
    <2> QED
      BY <2>2 DEF o
  <1>9. ASSUME l = 2 => z = 0
        PROVE  /\ entryAddr(sub) = S + j * EntryBytes
               /\ Offset(sub) = 0
    <2>1. /\ entryAddr(PageAt(Last, Last, Last, w)) = PageAt(Last, Last, Last, Last) + w * EntryBytes
          /\ entryAddr(PageAt(Last, Last, w, 0)) = PageAt(Last, Last, Last, w) + 0 * EntryBytes
          /\ entryAddr(PageAt(Last, w, 0, 0)) = PageAt(Last, Last, w, 0) + 0 * EntryBytes
      BY <1>1, EntryOfPage
    <2>2. /\ Offset(PageAt(Last, Last, Last, w)) = 0
          /\ Offset(PageAt(Last, Last, w, 0)) = 0
          /\ Offset(PageAt(Last, w, 0, 0)) = 0
      BY <1>1, PlainFields
    <2>3. CASE l = 4
      <3>1. sub = PageAt(Last, Last, Last, w) /\ j = w
        BY <1>2, <1>3, <2>3
      <3> QED
        BY <2>1, <2>2, <2>3, <3>1
    <2>4. CASE l = 3
      <3>1. sub = PageAt(Last, Last, w, 0) /\ j = 0
        BY <1>2, <1>3, <2>4
      <3> QED
        BY <2>1, <2>2, <2>4, <3>1
    <2>5. CASE l = 2
      <3>1. PageAt(Last, w, 0, 0) \in Int /\ EntryBytes \in Int
        <4>1. PageAt(Last, w, 0, 0) \in Pages
          BY <1>1, PageAtIsPage
        <4>2. EntryBytes \in Int
          BY Sizes
        <4> QED
          BY <4>1, <4>2, AddressTypes, Zenon
      <3>2. tableAddress(v, 1) = PageAt(Last, w, 0, 0)
        <4>1. z * EntryBytes = 0
          BY <1>9, <2>5, <3>1
        <4> QED
          BY <1>3, <3>1, <4>1
      <3>3. sub = PageAt(Last, w, 0, 0) /\ j = 0
        BY <1>2, <2>5, <3>2
      <3> QED
        BY <2>1, <2>2, <2>5, <3>3
    <2> QED
      BY <2>3, <2>4, <2>5
  <1>10. /\ FrameAt(m, e) = TableOf(m, RootFrame, v, l)
         /\ Offset(e) \div EntryBytes = j
         /\ e % EntryBytes = 0
    <2> HIDE DEF S, j, e, v
    <2> QED
      BY <1>6, <1>7, <1>8
  <1>11. ASSUME l = 2 => z = 0
         PROVE  /\ FrameAt(m, entryAddr(sub)) = TableOf(m, RootFrame, v, l)
                /\ Offset(entryAddr(sub)) \div EntryBytes = j
                /\ Offset(sub) = 0
    <2> HIDE DEF S, j, e, v, sub
    <2> QED
      BY <1>6, <1>7, <1>8, <1>9, <1>11
  <1> QED
    BY <1>10, <1>11

-----------------------------------------------------------------------------
(* The tables as a tree, and what each setting adds.  In both nothing that map
   clears lies outside the new table; where ranges begin at entries of the
   root, the walk of map and the processor's also stay together.          *)
TreeInv ==
  /\ WalkTypeOK
  /\ Recursive(mem) /\ TablesApart(mem) /\ TablesAvoid(mem, free)
  /\ pc # "overrun"

FixedInv == free = {} /\ RangeBelow(request)

WalkTogether ==
  /\ table = Believed(virtAddr, level)
  /\ TableOf(mem, RootFrame, virtAddr, level) # Absent

GrowingInv ==
  /\ RangeAtRoot(request)
  /\ pc # "fault"
  /\ Mapping => WalkTogether
  /\ pc = "map" /\ done > 0 => TableOf(mem, RootFrame, request.vaddr, 1) # Absent

(* The pages of a range that begins at an entry of the root. *)
LEMMA RangeAtRootPages ==
  ASSUME NEW r \in Requests, RangeAtRoot(r)
  PROVE  \E w \in Indices \ {Last} :
           /\ r.vaddr = PageAt(w, 0, 0, 0)
           /\ \A k \in 0 .. (r.count - 1) :
                /\ k \in Indices /\ k * EntryBytes < EntriesPerTable
                /\ r.vaddr + k * kPageSize = PageAt(w, 0, 0, k)
                /\ r.vaddr + k * kPageSize \in MappablePages
  <1>1. r.vaddr \in Pages /\ r.count \in Nat
    BY RequestAssumption
  <1>2. PICK w, x, y, z \in Indices : r.vaddr = PageAt(w, x, y, z)
    BY <1>1, PageHasFields
  <1>3. x = 0 /\ y = 0 /\ z = 0
    <2>1. \A l \in 1 .. 3 : entryIndex(r.vaddr, l) = 0
      BY DEF RangeAtRoot
    <2>2. /\ entryIndex(r.vaddr, 3) = x /\ entryIndex(r.vaddr, 2) = y
          /\ entryIndex(r.vaddr, 1) = z
      BY <1>2, PlainFields
    <2> QED
      BY <2>1, <2>2
  <1>4. r.vaddr = PageAt(w, 0, 0, 0)
    BY <1>2, <1>3, Zenon
  <1>5. w # Last
    <2>1. PageAt(w, 0, 0, 0) < tablesStart
      BY <1>4 DEF RangeAtRoot
    <2> QED
      BY <2>1, LastIsIndex, BelowTables
  <1>6. ASSUME NEW k \in 0 .. (r.count - 1)
        PROVE  /\ k \in Indices /\ k * EntryBytes < EntriesPerTable
               /\ r.vaddr + k * kPageSize = PageAt(w, 0, 0, k)
               /\ r.vaddr + k * kPageSize \in MappablePages
    <2>1. k * EntryBytes < EntriesPerTable
      <3> DEFINE B == EntryBytes
      <3> DEFINE E == EntriesPerTable
      <3> DEFINE c == r.count
      <3>1. B \in Nat \ {0} /\ E \in Nat /\ c \in Nat /\ c * B <= E /\ k \in 0 .. (c - 1)
        BY <1>1, Sizes DEF RangeAtRoot
      <3> HIDE DEF B, E, c
      <3>2. (k + 1) * B <= c * B
        BY <3>1
      <3>3. k * B < (k + 1) * B
        BY <3>1
      <3>4. k * B \in Nat /\ (k + 1) * B \in Nat /\ c * B \in Nat
        BY <3>1
      <3>5. k * B < E
        BY <3>1, <3>2, <3>3, <3>4
      <3> QED
        BY <3>5 DEF B, E
    <2>2. k \in Indices
      <3>1. \A b \in Nat \ {0} : k <= k * b
        OBVIOUS
      <3>2. k <= k * EntryBytes /\ EntriesPerTable \in Nat /\ k * EntryBytes \in Nat
        BY <3>1, Sizes
      <3> QED
        BY <2>1, <3>2 DEF Indices
    <2>3. r.vaddr + k * kPageSize = PageAt(w, 0, 0, k)
      BY <1>4, <2>2, PagesAfterAligned
    <2>4. PageAt(w, 0, 0, k) \in MappablePages
      BY <1>5, <2>2, LastIsIndex, BelowTables, PageAtIsPage DEF MappablePages
    <2> QED
      BY <2>1, <2>2, <2>3, <2>4
  <1> QED
    BY <1>4, <1>5, <1>6

LEMMA AtRootIsBelow == \A r \in Requests : RangeAtRoot(r) => RangeBelow(r)
  BY RangeAtRootPages DEF RangeBelow

(* The page being mapped. *)
LEMMA CurrentPage ==
  ASSUME WalkTypeOK, RangeBelow(request), Mapping
  PROVE  virtAddr \in MappablePages /\ virtAddr \in Pages /\ physFrame \in Frames
  <1>1. done \in 0 .. (request.count - 1) /\ request \in Requests
    BY RequestAssumption DEF WalkTypeOK, PagesTypeOK, Mapping
  <1>2. virtAddr \in MappablePages
    BY <1>1 DEF RangeBelow, virtAddr
  <1>3. physFrame \in Frames
    BY <1>1, RequestAssumption DEF physFrame
  <1> QED
    BY <1>2, <1>3, MappableFacts

(* SetEntry, in any setting. *)
LEMMA SetEntryKeeps ==
  ASSUME TreeInv, RangeBelow(request), SetEntry
  PROVE  /\ Recursive(mem') /\ TablesApart(mem') /\ TablesAvoid(mem', free')
         /\ OnlyTranslates(mem, mem', virtAddr, physFrame)
  <1>1. /\ Mapping /\ Accessible(mem, entryAddr(virtAddr))
        /\ mem' = WriteEntry(mem, entryAddr(virtAddr), physFrame) /\ free' = free
    BY DEF SetEntry
  <1>2. /\ virtAddr \in MappablePages /\ virtAddr \in Pages /\ physFrame \in Frames
        /\ Recursive(mem) /\ TablesApart(mem) /\ TablesAvoid(mem, free)
    BY <1>1, CurrentPage DEF TreeInv
  <1>3. /\ FrameAt(mem, entryAddr(virtAddr)) = TableOf(mem, RootFrame, virtAddr, 1)
        /\ Offset(entryAddr(virtAddr)) \div EntryBytes = entryIndex(virtAddr, 1)
    BY <1>2, EntryAddressIsEntry
  <1>4. /\ TableOf(mem, RootFrame, virtAddr, 1) # Absent
        /\ mem' = [mem EXCEPT ![TableOf(mem, RootFrame, virtAddr, 1)][entryIndex(virtAddr, 1)]
                                = physFrame]
    BY <1>1, <1>3 DEF Accessible, WriteEntry
  <1>5. Recursive(mem') /\ OnlyTranslates(mem, mem', virtAddr, physFrame)
    <2>1. mem' = Put(mem, virtAddr, 1, physFrame)
      BY <1>4 DEF Put
    <2> QED
      BY <1>2, <1>4, <2>1, SetOne
  <1>6. TablesApart(mem') /\ TablesAvoid(mem', free')
    BY <1>1, <1>2, <1>5 DEF TablesApart, TablesAvoid, OnlyTranslates
  <1> QED
    BY <1>5, <1>6

(* Where ranges begin at entries of the root, map reads the entry that the
   processor's walk uses, and finds the place of a table that is absent.   *)
LEMMA GrowingPage ==
  ASSUME TreeInv, GrowingInv, Mapping
  PROVE  \E w \in Indices : /\ request.vaddr = PageAt(w, 0, 0, 0)
                            /\ virtAddr = PageAt(w, 0, 0, done)
                            /\ done \in Indices /\ done * EntryBytes < EntriesPerTable
                            /\ virtAddr \in MappablePages /\ physFrame \in Frames
  <1>1. WalkTypeOK /\ request \in Requests /\ RangeAtRoot(request)
    BY DEF TreeInv, WalkTypeOK, PagesTypeOK, GrowingInv
  <1>2. done \in 0 .. (request.count - 1)
    BY <1>1, RequestAssumption DEF WalkTypeOK, PagesTypeOK, Mapping
  <1>3. RangeBelow(request)
    BY <1>1, AtRootIsBelow
  <1>4. virtAddr \in MappablePages /\ physFrame \in Frames
    BY <1>1, <1>3, CurrentPage
  <1> QED
    BY <1>1, <1>2, <1>4, RangeAtRootPages DEF virtAddr

LEMMA GrowingWalk ==
  ASSUME TreeInv, GrowingInv, Mapping, level > 1
  PROVE  LET below == TableOf(mem, RootFrame, virtAddr, level - 1) IN
         /\ Accessible(mem, entry)
         /\ TRUE \in PresentBits(entry) <=> below # Absent
         /\ FALSE \in PresentBits(entry) <=> below = Absent
         /\ subtable = Believed(virtAddr, level - 1)
         /\ below = Absent
            => /\ FrameAt(mem, entryAddr(subtable)) = TableOf(mem, RootFrame, virtAddr, level)
               /\ Offset(entryAddr(subtable)) \div EntryBytes = entryIndex(virtAddr, level)
               /\ Offset(subtable) = 0
  <1> DEFINE below == TableOf(mem, RootFrame, virtAddr, level - 1)
  <1>1. PICK w \in Indices : /\ request.vaddr = PageAt(w, 0, 0, 0)
                             /\ virtAddr = PageAt(w, 0, 0, done)
                             /\ done \in Indices /\ done * EntryBytes < EntriesPerTable
    BY GrowingPage
  <1>2. Recursive(mem) /\ level \in 2 .. 4 /\ WalkTogether
    BY DEF TreeInv, WalkTypeOK, PagesTypeOK, GrowingInv
  <1>3. /\ FrameAt(mem, entry) = TableOf(mem, RootFrame, virtAddr, level)
        /\ Offset(entry) \div EntryBytes = entryIndex(virtAddr, level)
        /\ entry % EntryBytes = 0
        /\ (level = 2 => done = 0)
           => /\ FrameAt(mem, entryAddr(subtable)) = TableOf(mem, RootFrame, virtAddr, level)
              /\ Offset(entryAddr(subtable)) \div EntryBytes = entryIndex(virtAddr, level)
              /\ Offset(subtable) = 0
    <2>1. entry = (Believed(virtAddr, level) + entryIndex(virtAddr, level) * EntryBytes)
                    % AddressSpaceSize
      BY <1>2 DEF entry, WalkTogether
    <2>2. subtable = tableAddress(virtAddr, level - 1)
      BY DEF subtable
    <2> QED
      BY <1>1, <1>2, <2>1, <2>2, AlignedWalk, Zenon
  <1>4. EntryAt(mem, entry) = below
    <2>1. level - 1 \in 1 .. 3 /\ (level - 1) + 1 = level
      BY <1>2
    <2>2. below = Read(mem, TableOf(mem, RootFrame, virtAddr, level), entryIndex(virtAddr, level))
      BY <2>1, WalkReads
    <2>3. TableOf(mem, RootFrame, virtAddr, level) # Absent
      BY <1>2 DEF WalkTogether
    <2>4. EntryAt(mem, entry) = mem[TableOf(mem, RootFrame, virtAddr, level)][entryIndex(virtAddr, level)]
      BY <1>3 DEF EntryAt
    <2> QED
      BY <2>2, <2>3, <2>4 DEF Read
  <1>5. Accessible(mem, entry)
    BY <1>2, <1>3 DEF Accessible, WalkTogether
  <1>6. /\ TRUE \in PresentBits(entry) <=> below # Absent
        /\ FALSE \in PresentBits(entry) <=> below = Absent
    <2>1. PresentBits(entry) = IF below = Absent THEN {FALSE} ELSE {TRUE}
      BY <1>3, <1>4 DEF PresentBits
    <2>2. CASE below = Absent
      BY <2>1, <2>2
    <2>3. CASE below # Absent
      BY <2>1, <2>3
    <2> QED
      BY <2>2, <2>3
  <1>7. subtable = Believed(virtAddr, level - 1)
    BY <1>2 DEF subtable, Believed
  <1>8. below = Absent /\ level = 2 => done = 0
    <2>1. ASSUME below = Absent, level = 2, done # 0 PROVE FALSE
      <3>1. done > 0 /\ pc = "map"
        BY <1>1, <2>1 DEF Indices, Mapping
      <3>2. TableOf(mem, RootFrame, request.vaddr, 1) # Absent
        BY <3>1 DEF GrowingInv
      <3>3. \A k \in 2 .. 4 : entryIndex(virtAddr, k) = entryIndex(request.vaddr, k)
        BY <1>1, PlainFields, LastIsIndex
      <3>4. TableOf(mem, RootFrame, virtAddr, 1) = TableOf(mem, RootFrame, request.vaddr, 1)
        BY <3>3, TablesByIndices
      <3>5. level - 1 = 1
        BY <2>1
      <3> QED
        BY <2>1, <3>2, <3>4, <3>5
    <2> QED
      BY <2>1
  <1> QED
    <2>1. below = Absent
          => /\ FrameAt(mem, entryAddr(subtable)) = TableOf(mem, RootFrame, virtAddr, level)
             /\ Offset(entryAddr(subtable)) \div EntryBytes = entryIndex(virtAddr, level)
             /\ Offset(subtable) = 0
      <3> HIDE DEF below
      <3> QED
        BY <1>3, <1>8, Zenon
    <2> QED
      BY <1>5, <1>6, <1>7, <2>1, Zenon

LEMMA ZeroedWhole ==
  ASSUME NEW entries, NEW cleared \in Zeroed(entries, 0, kPageSize - 1)
  PROVE  cleared = Cleared
  <1>1. PICK left : cleared = [i \in Indices |-> IF i * EntryBytes \in 0 .. (kPageSize - 1) THEN Absent
                                                 ELSE IF i = 0 \div EntryBytes THEN left
                                                 ELSE entries[i]]
    BY DEF Zeroed
  <1>2. \A i \in Indices : i * EntryBytes \in 0 .. (kPageSize - 1)
    BY EntryIsWhole, LastIsIndex
  <1> QED
    BY <1>1, <1>2 DEF Cleared

(* The tables of the new memory still hang from one entry each. *)
LEMMA LinkKeepsApart ==
  ASSUME NEW m, TablesApart(m), NEW v \in MappablePages, NEW f \in Frames, NEW spare,
         TablesAvoid(m, spare), f \in spare, NEW top \in 2 .. 4,
         NEW n, OnlyLinks(m, n, v, top, f)
  PROVE  TablesApart(n) /\ TablesAvoid(n, spare \ {f})
  <1> DEFINE here(q, l) == l = top - 1 /\ \A j \in top .. 4 : entryIndex(q, j) = entryIndex(v, j)
  <1>1. \A q \in MappablePages : \A l \in 1 .. 4 :
          /\ here(q, l) => TableOf(n, RootFrame, q, l) = f
          /\ ~here(q, l) => TableOf(n, RootFrame, q, l) = TableOf(m, RootFrame, q, l)
          /\ TableOf(m, RootFrame, q, l) # f
          /\ TableOf(m, RootFrame, q, l) \notin spare
    BY DEF OnlyLinks, TablesAvoid
  <1>2. ASSUME NEW p \in MappablePages, NEW q \in MappablePages, NEW l \in 1 .. 4, NEW k \in 1 .. 4,
               TableOf(n, RootFrame, p, l) # Absent,
               TableOf(n, RootFrame, p, l) = TableOf(n, RootFrame, q, k)
        PROVE  l = k /\ \A j \in (l + 1) .. 4 : entryIndex(p, j) = entryIndex(q, j)
    <2>1. CASE here(p, l) /\ here(q, k)
      BY <2>1
    <2>2. CASE ~here(p, l) /\ ~here(q, k)
      <3>1. /\ TableOf(m, RootFrame, p, l) # Absent
            /\ TableOf(m, RootFrame, p, l) = TableOf(m, RootFrame, q, k)
        BY <1>1, <1>2, <2>2
      <3> HIDE DEF here
      <3> QED
        BY <3>1 DEF TablesApart
    <2>3. CASE here(p, l) /\ ~here(q, k)
      <3> HIDE DEF here
      <3> QED
        BY <1>1, <1>2, <2>3
    <2>4. CASE ~here(p, l) /\ here(q, k)
      <3> HIDE DEF here
      <3> QED
        BY <1>1, <1>2, <2>4
    <2> QED
      BY <2>1, <2>2, <2>3, <2>4
  <1>3. TablesApart(n)
    BY <1>2 DEF TablesApart
  <1>4. TablesAvoid(n, spare \ {f})
    <2> HIDE DEF here
    <2> QED
      BY <1>1 DEF TablesAvoid
  <1> QED
    BY <1>3, <1>4

(* What creating a table does. *)
Linked(f) ==
  /\ f \in free /\ free' = free \ {f}
  /\ TableOf(mem, RootFrame, virtAddr, level - 1) = Absent
  /\ Recursive(mem') /\ TablesApart(mem') /\ TablesAvoid(mem', free')
  /\ OnlyLinks(mem, mem', virtAddr, level, f)
  /\ pc' = "map" /\ Descend
  /\ UNCHANGED <<request, done, reply>>

LEMMA CreateSubtableLinks ==
  ASSUME TreeInv, GrowingInv, CreateSubtable
  PROVE  \E f \in Frames : Linked(f)
  <1>1. /\ Mapping /\ level > 1 /\ FALSE \in PresentBits(entry)
        /\ UNCHANGED <<request, done, reply>>
    BY DEF CreateSubtable, AtEntry
  <1>2. /\ level \in 2 .. 4 /\ free \subseteq Frames /\ WalkTogether
        /\ Recursive(mem) /\ TablesApart(mem) /\ TablesAvoid(mem, free)
    BY <1>1 DEF TreeInv, WalkTypeOK, PagesTypeOK, GrowingInv
  <1>3. /\ TableOf(mem, RootFrame, virtAddr, level - 1) = Absent
        /\ FrameAt(mem, entryAddr(subtable)) = TableOf(mem, RootFrame, virtAddr, level)
        /\ Offset(entryAddr(subtable)) \div EntryBytes = entryIndex(virtAddr, level)
        /\ Offset(subtable) = 0
    BY <1>1, GrowingWalk
  <1>4. TableOf(mem, RootFrame, virtAddr, level) # Absent
    BY <1>2 DEF WalkTogether
  <1>5. virtAddr \in MappablePages
    BY <1>1, GrowingPage
  <1>6. Accessible(mem, entryAddr(subtable))
    BY <1>3, <1>4 DEF Accessible
  <1>7. PICK f \in free :
          /\ free' = free \ {f}
          /\ \E entries \in Zeroed(mem[f], Offset(subtable), kPageSize - 1) :
               mem' = [WriteEntry(mem, entryAddr(subtable), f) EXCEPT ![f] = entries]
          /\ pc' = IF Offset(subtable) = 0 THEN "map" ELSE "overrun"
          /\ Descend
    BY <1>6 DEF CreateSubtable
  <1>8. f \in Frames /\ pc' = "map"
    BY <1>2, <1>3, <1>7
  <1>9. WriteEntry(mem, entryAddr(subtable), f) = Put(mem, virtAddr, level, f)
    BY <1>3 DEF WriteEntry, Put
  <1>10. mem' = [Put(mem, virtAddr, level, f) EXCEPT ![f] = Cleared]
    <2>1. PICK entries \in Zeroed(mem[f], 0, kPageSize - 1) :
            mem' = [Put(mem, virtAddr, level, f) EXCEPT ![f] = entries]
      BY <1>3, <1>7, <1>9
    <2>2. entries = Cleared
      BY <2>1, ZeroedWhole
    <2> QED
      BY <2>1, <2>2
  <1>11. TablesAvoid(mem, {f})
    BY <1>2, <1>7 DEF TablesAvoid
  <1>12. Recursive(mem') /\ OnlyLinks(mem, mem', virtAddr, level, f)
    BY <1>2, <1>3, <1>4, <1>5, <1>8, <1>10, <1>11, LinkOne
  <1>13. TablesApart(mem') /\ TablesAvoid(mem', free')
    <2>1. TablesApart(mem') /\ TablesAvoid(mem', free \ {f})
      BY <1>2, <1>5, <1>7, <1>8, <1>12, LinkKeepsApart
    <2> QED
      BY <1>7, <2>1
  <1> QED
    BY <1>1, <1>3, <1>7, <1>8, <1>12, <1>13 DEF Linked

-----------------------------------------------------------------------------
(* The invariants, step by step. *)
LEMMA TreeUnchanged ==
  TreeInv /\ WalkTypeOK' /\ UNCHANGED <<mem, free>> /\ pc' # "overrun" => TreeInv'
  BY DEF TreeInv

LEMMA SetEntryTree ==
  TreeInv /\ RangeBelow(request) /\ SetEntry /\ WalkTypeOK' => TreeInv'
  <1> SUFFICES ASSUME TreeInv, RangeBelow(request), SetEntry, WalkTypeOK' PROVE TreeInv'
    OBVIOUS
  <1>1. Recursive(mem') /\ TablesApart(mem') /\ TablesAvoid(mem', free')
    BY SetEntryKeeps
  <1>2. pc' # "overrun"
    BY DEF SetEntry, TreeInv
  <1> QED
    BY <1>1, <1>2 DEF TreeInv

LEMMA FixedStep ==
  TreeInv /\ FixedInv /\ [Next]_vars /\ RangeBelow(request') => TreeInv' /\ FixedInv'
  <1> SUFFICES ASSUME TreeInv, FixedInv, [Next]_vars, RangeBelow(request')
               PROVE  TreeInv' /\ FixedInv'
    OBVIOUS
  <1>1. WalkTypeOK'
    BY TypesKept DEF TreeInv
  <1>2. free = {} /\ RangeBelow(request) /\ pc # "overrun"
    BY DEF FixedInv, TreeInv
  <1>3. CASE SetEntry
    <2>1. TreeInv'
      BY <1>1, <1>2, <1>3, SetEntryTree
    <2> QED
      BY <1>2, <1>3, <2>1 DEF SetEntry, FixedInv
  <1>4. CASE CreateSubtable \/ ClearOverrun
    BY <1>2, <1>4 DEF CreateSubtable, ClearOverrun
  <1>5. CASE UNCHANGED <<mem, free>> /\ pc' # "overrun"
    BY <1>1, <1>2, <1>5, TreeUnchanged DEF FixedInv
  <1>6. ASSUME ~SetEntry, ~CreateSubtable, ~ClearOverrun
        PROVE  UNCHANGED <<mem, free>> /\ pc' # "overrun"
    <2>1. CASE \E r \in Requests : map(r)
      BY <2>1 DEF map
    <2>2. CASE ReadFault \/ WriteFault
      BY <2>2 DEF ReadFault, WriteFault, Fault
    <2>3. CASE UseSubtable
      BY <1>2, <2>3 DEF UseSubtable
    <2>4. CASE RefuseSubtable
      BY <2>4 DEF RefuseSubtable
    <2>5. CASE Return
      BY <2>5 DEF Return
    <2>6. CASE UNCHANGED vars
      BY <1>2, <2>6 DEF vars
    <2> QED
      BY <1>6, <2>1, <2>2, <2>3, <2>4, <2>5, <2>6 DEF Next
  <1> QED
    BY <1>3, <1>4, <1>5, <1>6

LEMMA GrowingStep ==
  TreeInv /\ GrowingInv /\ [Next]_vars /\ RangeAtRoot(request') => TreeInv' /\ GrowingInv'
  <1> SUFFICES ASSUME TreeInv, GrowingInv, [Next]_vars, RangeAtRoot(request')
               PROVE  TreeInv' /\ GrowingInv'
    OBVIOUS
  <1>1. /\ WalkTypeOK' /\ WalkTypeOK
        /\ request \in Requests /\ request.vaddr \in Pages /\ done \in Nat /\ level \in 1 .. 4
    BY TypesKept, RequestAssumption DEF TreeInv, WalkTypeOK, PagesTypeOK
  <1>2. /\ pc # "overrun" /\ pc # "fault" /\ RangeAtRoot(request)
        /\ Recursive(mem)
        /\ Mapping => WalkTogether
        /\ pc = "map" /\ done > 0 => TableOf(mem, RootFrame, request.vaddr, 1) # Absent
    BY DEF GrowingInv, TreeInv
  <1>3. request.vaddr \in MappablePages /\ RangeBelow(request)
    BY <1>1, <1>2, AtRootIsBelow DEF RangeAtRoot, MappablePages
  <1>4. ASSUME level' = 4, table' = pml4Address PROVE WalkTogether'
    <2>1. table' = Believed(virtAddr', level')
      BY <1>4 DEF Believed
    <2>2. TableOf(mem', RootFrame, virtAddr', level') # Absent
      BY <1>4, WalkSteps
    <2> QED
      BY <2>1, <2>2 DEF WalkTogether
  <1>5. ASSUME NEW r \in Requests, map(r) PROVE TreeInv' /\ GrowingInv'
    <2>1. TreeInv'
      BY <1>1, <1>5, TreeUnchanged DEF map
    <2>2. pc' = "map" /\ ~(done' > 0) /\ WalkTogether'
      BY <1>4, <1>5 DEF map, AtRoot
    <2> QED
      BY <2>1, <2>2 DEF GrowingInv
  <1>6. CASE ReadFault
    BY <1>6, GrowingWalk DEF ReadFault
  <1>7. ASSUME Descend, level > 1, UNCHANGED <<request, done>>, Mapping,
               TableOf(mem', RootFrame, virtAddr, level - 1) # Absent
        PROVE  WalkTogether'
    <2>1. level' = level - 1 /\ table' = Believed(virtAddr, level - 1)
      BY <1>7, GrowingWalk DEF Descend
    <2>2. virtAddr' = virtAddr
      BY <1>7 DEF virtAddr
    <2> QED
      BY <1>7, <2>1, <2>2 DEF WalkTogether
  <1>8. CASE UseSubtable
    <2>1. /\ Mapping /\ level > 1 /\ TRUE \in PresentBits(entry) /\ Descend
          /\ UNCHANGED <<mem, free, pc, request, done, reply>>
      BY <1>8 DEF UseSubtable, AtEntry
    <2>2. TableOf(mem', RootFrame, virtAddr, level - 1) # Absent
      BY <2>1, GrowingWalk
    <2>3. WalkTogether'
      BY <1>7, <2>1, <2>2
    <2>4. TreeInv'
      BY <1>1, <1>2, <2>1, TreeUnchanged
    <2> QED
      BY <1>2, <2>1, <2>3, <2>4 DEF GrowingInv
  <1>9. CASE RefuseSubtable
    <2>1. UNCHANGED <<mem, free>> /\ pc' = "idle"
      BY <1>9 DEF RefuseSubtable
    <2>2. TreeInv'
      BY <1>1, <2>1, TreeUnchanged
    <2> QED
      BY <2>1, <2>2 DEF GrowingInv, Mapping
  <1>10. CASE CreateSubtable
    <2>1. PICK f \in Frames : Linked(f)
      BY <1>10, CreateSubtableLinks
    <2>2. Mapping /\ level > 1
      BY <1>10 DEF CreateSubtable, AtEntry
    <2>3. TreeInv'
      BY <1>1, <2>1 DEF Linked, TreeInv
    <2>4. f # Absent
      BY PagingAssumption
    <2>5. virtAddr \in MappablePages
      BY <2>2, GrowingPage
    <2>6. TableOf(mem', RootFrame, virtAddr, level - 1) = f
      <3>1. level - 1 \in 1 .. 4
        BY <1>1, <2>2
      <3> QED
        BY <2>1, <2>5, <3>1 DEF Linked, OnlyLinks
    <2>7. WalkTogether'
      BY <1>7, <2>1, <2>2, <2>4, <2>6 DEF Linked
    <2>8. done > 0 => TableOf(mem', RootFrame, request.vaddr, 1) # Absent
      <3> SUFFICES ASSUME done > 0 PROVE TableOf(mem', RootFrame, request.vaddr, 1) # Absent
        OBVIOUS
      <3>1. TableOf(mem, RootFrame, request.vaddr, 1) # Absent
        BY <1>2, <2>2 DEF Mapping
      <3>2. TableOf(mem', RootFrame, request.vaddr, 1)
              \in {f, TableOf(mem, RootFrame, request.vaddr, 1)}
        BY <1>3, <2>1 DEF Linked, OnlyLinks
      <3> QED
        BY <2>4, <3>1, <3>2
    <2>9. pc' = "map" /\ UNCHANGED <<request, done>>
      BY <2>1 DEF Linked
    <2> QED
      BY <1>2, <2>3, <2>7, <2>8, <2>9 DEF GrowingInv
  <1>11. CASE ClearOverrun
    BY <1>2, <1>11 DEF ClearOverrun
  <1>12. CASE SetEntry
    <2>1. /\ Mapping /\ level = 1 /\ level' = 4 /\ table' = pml4Address
          /\ UNCHANGED <<pc, request>>
      BY <1>12 DEF SetEntry, AtRoot
    <2>2. TreeInv' /\ OnlyTranslates(mem, mem', virtAddr, physFrame)
      BY <1>1, <1>3, <1>12, SetEntryTree, SetEntryKeeps
    <2>3. WalkTogether'
      BY <1>4, <2>1
    <2>4. TableOf(mem', RootFrame, request.vaddr, 1) # Absent
      <3>1. TableOf(mem, RootFrame, virtAddr, 1) # Absent
        BY <1>2, <2>1 DEF WalkTogether
      <3>2. PICK w \in Indices : /\ request.vaddr = PageAt(w, 0, 0, 0)
                                 /\ virtAddr = PageAt(w, 0, 0, done) /\ done \in Indices
        BY <2>1, GrowingPage
      <3>3. \A k \in 2 .. 4 : entryIndex(virtAddr, k) = entryIndex(request.vaddr, k)
        BY <3>2, PlainFields, LastIsIndex
      <3>4. TableOf(mem, RootFrame, virtAddr, 1) = TableOf(mem, RootFrame, request.vaddr, 1)
        BY <3>3, TablesByIndices
      <3>5. TableOf(mem', RootFrame, request.vaddr, 1) = TableOf(mem, RootFrame, request.vaddr, 1)
        BY <1>3, <2>2 DEF OnlyTranslates
      <3> QED
        BY <3>1, <3>4, <3>5
    <2> QED
      BY <1>2, <2>1, <2>2, <2>3, <2>4 DEF GrowingInv
  <1>13. CASE WriteFault
    <2>1. Mapping /\ level = 1 /\ ~Accessible(mem, entryAddr(virtAddr))
      BY <1>13 DEF WriteFault
    <2>2. TableOf(mem, RootFrame, virtAddr, 1) # Absent
      BY <1>2, <2>1 DEF WalkTogether
    <2>3. virtAddr \in Pages
      BY <2>1, GrowingPage, MappableFacts
    <2>4. FrameAt(mem, entryAddr(virtAddr)) = TableOf(mem, RootFrame, virtAddr, 1)
      BY <1>2, <2>3, EntryAddressIsEntry
    <2> QED
      BY <2>1, <2>2, <2>4 DEF Accessible
  <1>14. CASE Return
    <2>1. UNCHANGED <<mem, free>> /\ pc' = "idle"
      BY <1>14 DEF Return
    <2>2. TreeInv'
      BY <1>1, <2>1, TreeUnchanged
    <2> QED
      BY <2>1, <2>2 DEF GrowingInv, Mapping
  <1>15. CASE UNCHANGED vars
    <2>1. UNCHANGED <<mem, free, pc, request, done, level, table>>
      BY <1>15 DEF vars
    <2>2. TreeInv'
      BY <1>1, <1>2, <2>1, TreeUnchanged
    <2>3. Mapping' = Mapping /\ (WalkTogether <=> WalkTogether')
      BY <2>1 DEF Mapping, WalkTogether, virtAddr
    <2> QED
      BY <1>2, <2>1, <2>2, <2>3 DEF GrowingInv
  <1> QED
    BY <1>5, <1>6, <1>8, <1>9, <1>10, <1>11, <1>12, <1>13, <1>14, <1>15 DEF Next

LEMMA InitTree ==
  /\ Init /\ Fixed(InitialStates, Requests) => TreeInv /\ FixedInv
  /\ Init /\ Growing(InitialStates, Requests) => TreeInv /\ GrowingInv
  <1>1. Init => WalkTypeOK /\ Recursive(mem) /\ pc = "idle" /\ request \in Requests
    <2> SUFFICES ASSUME Init PROVE WalkTypeOK /\ Recursive(mem) /\ pc = "idle" /\ request \in Requests
      OBVIOUS
    <2>1. WalkTypeOK
      BY InitTypes
    <2>2. Recursive(mem)
      BY RequestAssumption DEF Init, Recursive, Last
    <2> QED
      BY <2>1, <2>2 DEF Init
  <1>2. Init /\ Fixed(InitialStates, Requests) => TreeInv /\ FixedInv
    <2> SUFFICES ASSUME Init, Fixed(InitialStates, Requests) PROVE TreeInv /\ FixedInv
      OBVIOUS
    <2>1. TablesApart(mem) /\ free = {}
      BY DEF Init, Fixed
    <2>2. TablesAvoid(mem, free)
      BY <2>1 DEF TablesAvoid
    <2>3. RangeBelow(request)
      BY <1>1 DEF Fixed
    <2> QED
      BY <1>1, <2>1, <2>2, <2>3 DEF TreeInv, FixedInv
  <1>3. Init /\ Growing(InitialStates, Requests) => TreeInv /\ GrowingInv
    <2> SUFFICES ASSUME Init, Growing(InitialStates, Requests) PROVE TreeInv /\ GrowingInv
      OBVIOUS
    <2>1. TablesApart(mem) /\ TablesAvoid(mem, free)
      BY DEF Init, Growing
    <2>2. RangeAtRoot(request)
      BY <1>1 DEF Growing
    <2> QED
      BY <1>1, <2>1, <2>2 DEF TreeInv, GrowingInv, Mapping
  <1> QED
    BY <1>2, <1>3

(* A step maps the next page asked for or changes no translation. *)
LEMMA StepMaps ==
  TreeInv /\ (FixedInv \/ GrowingInv) /\ [Next]_vars
    => \/ mapping' = mapping
       \/ /\ SetEntry /\ virtAddr \in MappablePages
          /\ mapping' = [mapping EXCEPT ![virtAddr] = physFrame]
  <1> SUFFICES ASSUME TreeInv, FixedInv \/ GrowingInv, [Next]_vars
               PROVE  \/ mapping' = mapping
                      \/ /\ SetEntry /\ virtAddr \in MappablePages
                         /\ mapping' = [mapping EXCEPT ![virtAddr] = physFrame]
    OBVIOUS
  <1>1. RangeBelow(request) /\ WalkTypeOK /\ pc # "overrun"
    BY AtRootIsBelow DEF FixedInv, GrowingInv, TreeInv, WalkTypeOK, PagesTypeOK
  <1>2. mapping = [p \in MappablePages |-> Translate(mem, RootFrame, p)]
        /\ mapping' = [p \in MappablePages |-> Translate(mem', RootFrame, p)]
    BY DEF mapping
  <1>3. CASE SetEntry
    <2>1. virtAddr \in MappablePages
      BY <1>1, <1>3, CurrentPage DEF SetEntry
    <2>2. OnlyTranslates(mem, mem', virtAddr, physFrame)
      BY <1>1, <1>3, SetEntryKeeps
    <2>3. mapping' = [mapping EXCEPT ![virtAddr] = physFrame]
      <3>1. \A q \in MappablePages :
              Translate(mem', RootFrame, q)
                = IF q = virtAddr THEN physFrame ELSE Translate(mem, RootFrame, q)
        BY <2>2 DEF OnlyTranslates
      <3> QED
        BY <1>2, <2>1, <3>1
    <2> QED
      BY <1>3, <2>1, <2>3
  <1>4. CASE CreateSubtable
    <2>1. free # {}
      BY <1>4 DEF CreateSubtable
    <2>2. PICK f \in Frames : Linked(f)
      BY <1>4, <2>1, CreateSubtableLinks DEF FixedInv
    <2>3. \A q \in MappablePages : Translate(mem', RootFrame, q) = Translate(mem, RootFrame, q)
      BY <2>2 DEF Linked, OnlyLinks
    <2> QED
      BY <1>2, <2>3
  <1>5. CASE ClearOverrun
    BY <1>1, <1>5 DEF ClearOverrun
  <1>6. ASSUME ~SetEntry, ~CreateSubtable, ~ClearOverrun PROVE mem' = mem
    <2>1. CASE \E r \in Requests : map(r)
      BY <2>1 DEF map
    <2>2. CASE ReadFault \/ WriteFault
      BY <2>2 DEF ReadFault, WriteFault, Fault
    <2>3. CASE UseSubtable \/ RefuseSubtable \/ Return
      BY <2>3 DEF UseSubtable, RefuseSubtable, Return
    <2>4. CASE UNCHANGED vars
      BY <2>4 DEF vars
    <2> QED
      BY <1>6, <2>1, <2>2, <2>3, <2>4 DEF Next
  <1>7. mem' = mem => mapping' = mapping
    BY <1>2
  <1> QED
    BY <1>3, <1>4, <1>5, <1>6, <1>7

LEMMA StepIsSpace ==
  TreeInv /\ (FixedInv \/ GrowingInv) /\ [Next]_vars => [Space!Next]_(Space!spaceVars)
  <1> SUFFICES ASSUME TreeInv, FixedInv \/ GrowingInv, [Next]_vars
               PROVE  [Space!Next]_(Space!spaceVars)
    OBVIOUS
  <1>1. CASE SetEntry
    <2>1. done < request.count /\ done' = done + 1 /\ request' = request
      BY <1>1 DEF SetEntry, Mapping
    <2>2. CASE mapping' = [mapping EXCEPT ![virtAddr] = physFrame]
      <3>1. mapping' = [mapping EXCEPT ![request.vaddr + done * kPageSize] = request.frame + done]
        BY <2>2 DEF virtAddr, physFrame
      <3>2. Space!MapNext
        BY <2>1, <3>1 DEF Space!MapNext
      <3> QED
        BY <3>2 DEF Space!Next
    <2>3. CASE mapping' = mapping
      <3>1. virtAddr \in MappablePages /\ mapping' = [mapping EXCEPT ![virtAddr] = physFrame]
        <4>1. RangeBelow(request) /\ WalkTypeOK
          BY AtRootIsBelow DEF FixedInv, GrowingInv, TreeInv, WalkTypeOK, PagesTypeOK
        <4>2. virtAddr \in MappablePages
          BY <1>1, <4>1, CurrentPage DEF SetEntry
        <4>3. OnlyTranslates(mem, mem', virtAddr, physFrame)
          BY <1>1, <4>1, SetEntryKeeps
        <4>4. \A q \in MappablePages :
                Translate(mem', RootFrame, q)
                  = IF q = virtAddr THEN physFrame ELSE Translate(mem, RootFrame, q)
          BY <4>3 DEF OnlyTranslates
        <4> QED
          BY <4>2, <4>4 DEF mapping
      <3> QED
        BY <2>2, <3>1
    <2> QED
      BY <2>2, <2>3, StepMaps
  <1>2. CASE ~SetEntry
    <2>1. mapping' = mapping
      BY <1>2, StepMaps
    <2>2. CASE \E r \in Requests : map(r)
      <3>1. PICK r \in Requests : request' = r /\ done' = 0
        BY <2>2 DEF map
      <3>2. Space!Ask(r)
        BY <2>1, <3>1 DEF Space!Ask
      <3> QED
        BY <3>2 DEF Space!Next
    <2>3. CASE ~\E r \in Requests : map(r)
      <3>1. UNCHANGED <<request, done>>
        <4>1. CASE ReadFault \/ WriteFault
          BY <4>1 DEF ReadFault, WriteFault, Fault
        <4>2. CASE UseSubtable \/ RefuseSubtable \/ Return
          BY <4>2 DEF UseSubtable, RefuseSubtable, Return
        <4>3. CASE CreateSubtable
          BY <4>3 DEF CreateSubtable
        <4>4. CASE ClearOverrun
          BY <4>4 DEF ClearOverrun
        <4>5. CASE UNCHANGED vars
          BY <4>5 DEF vars
        <4> QED
          BY <1>2, <2>3, <4>1, <4>2, <4>3, <4>4, <4>5 DEF Next
      <3> QED
        BY <2>1, <3>1 DEF Space!spaceVars
    <2> QED
      BY <2>2, <2>3
  <1> QED
    BY <1>1, <1>2

LEMMA RequestsStayBelow ==
  WalkTypeOK' => /\ Fixed(InitialStates, Requests) => RangeBelow(request')
                 /\ Growing(InitialStates, Requests) => RangeAtRoot(request')
  BY DEF WalkTypeOK, PagesTypeOK, Fixed, Growing

LEMMA SettingsKept ==
  /\ Fixed(InitialStates, Requests) /\ TreeInv /\ FixedInv /\ [Next]_vars
       => TreeInv' /\ FixedInv'
  /\ Growing(InitialStates, Requests) /\ TreeInv /\ GrowingInv /\ [Next]_vars
       => TreeInv' /\ GrowingInv'
  <1>1. TreeInv /\ [Next]_vars => WalkTypeOK'
    BY TypesKept DEF TreeInv
  <1> QED
    BY <1>1, RequestsStayBelow, FixedStep, GrowingStep

(* In the settings in which map is right, the tables below the root's own
   entry stay a tree, of frames the allocator no longer has, through every
   step of map, and the root's last entry stays its own (36-78).           *)
THEOREM TablesStayTree ==
  ASSUME Fixed(InitialStates, Requests) \/ Growing(InitialStates, Requests)
  PROVE  Spec => [](TreeInv /\ (FixedInv \/ GrowingInv))
  <1>1. CASE Fixed(InitialStates, Requests)
    <2>1. Init => TreeInv /\ FixedInv
      BY <1>1, InitTree
    <2>2. TreeInv /\ FixedInv /\ [Next]_vars => TreeInv' /\ FixedInv'
      BY <1>1, SettingsKept
    <2>3. Spec => [](TreeInv /\ FixedInv)
      BY <2>1, <2>2, PTL DEF Spec
    <2> QED
      BY <2>3, PTL
  <1>2. CASE Growing(InitialStates, Requests)
    <2>1. Init => TreeInv /\ GrowingInv
      BY <1>2, InitTree
    <2>2. TreeInv /\ GrowingInv /\ [Next]_vars => TreeInv' /\ GrowingInv'
      BY <1>2, SettingsKept
    <2>3. Spec => [](TreeInv /\ GrowingInv)
      BY <2>1, <2>2, PTL DEF Spec
    <2> QED
      BY <2>3, PTL
  <1> QED
    BY <1>1, <1>2

(* The kernel's tables implement AddressSpace: a range is mapped page by page,
   in order, each page to the frame asked for; whatever tables have to be
   created on the way, and whatever their frames held, no other page below
   the tables ever changes (36-78 and the loop of PageTables::map).        *)
THEOREM TablesImplementAddressSpace ==
  ASSUME Fixed(InitialStates, Requests) \/ Growing(InitialStates, Requests)
  PROVE  Spec => AddressSpaceSpec
  <1>1. Init => Space!Init
    BY DEF Init, Space!Init
  <1> QED
    BY <1>1, StepIsSpace, TablesStayTree, PTL DEF Spec, AddressSpaceSpec, Space!Spec

(* The promise to callers: a page becomes accessible only when it is mapped,
   and at the frame asked for (36-78).                                     *)
THEOREM OnlyAskedPagesAppear ==
  ASSUME Fixed(InitialStates, Requests) \/ Growing(InitialStates, Requests)
  PROVE  Spec => OnlyAskedAppears
  <1> DEFINE asked == \A p \in MappablePages :
                        \/ mapping'[p] \in {mapping[p], Absent}
                        \/ p = virtAddr /\ mapping'[p] = physFrame
  <1>1. TreeInv /\ (FixedInv \/ GrowingInv) /\ [Next]_vars => [asked]_vars
    <2> SUFFICES ASSUME TreeInv, FixedInv \/ GrowingInv, [Next]_vars PROVE asked
      OBVIOUS
    <2>1. DOMAIN mapping = MappablePages
      BY DEF mapping
    <2>2. CASE mapping' = mapping
      BY <2>2
    <2>3. CASE mapping' = [mapping EXCEPT ![virtAddr] = physFrame] /\ virtAddr \in MappablePages
      <3>1. mapping = [p \in MappablePages |-> Translate(mem, RootFrame, p)]
        BY DEF mapping
      <3>2. \A p \in MappablePages :
              mapping'[p] = IF p = virtAddr THEN physFrame ELSE mapping[p]
        BY <2>3, <3>1
      <3> QED
        BY <3>2
    <2> QED
      BY <2>2, <2>3, StepMaps
  <1> QED
    BY <1>1, TablesStayTree, PTL DEF Spec, OnlyAskedAppears

(* For ranges that begin at an entry of the root, map finds every table it
   needs or creates it, and touches no address that is not mapped (36-78). *)
THEOREM GrowingNeverFaults ==
  ASSUME Growing(InitialStates, Requests)
  PROVE  Spec => []NoFault
  <1>1. Init => TreeInv /\ GrowingInv
    BY InitTree
  <1>2. TreeInv /\ GrowingInv /\ [Next]_vars => TreeInv' /\ GrowingInv'
    BY SettingsKept
  <1>3. GrowingInv => NoFault
    BY DEF GrowingInv, NoFault
  <1> QED
    BY <1>1, <1>2, <1>3, PTL DEF Spec

-----------------------------------------------------------------------------
(* The tree counted: Tables and Links, by the walks that pass through them. *)
LEMMA PageWith ==
  ASSUME NEW p \in MappablePages, NEW l \in 1 .. 4, NEW i \in Indices, l = 4 => i # Last
  PROVE  \E q \in MappablePages :
           /\ entryIndex(q, l) = i
           /\ \A k \in 1 .. 4 : k # l => entryIndex(q, k) = entryIndex(p, k)
  <1>1. PICK w, x, y, z \in Indices : p = PageAt(w, x, y, z)
    BY MappableFacts, PageHasFields
  <1>2. /\ entryIndex(p, 4) = w /\ entryIndex(p, 3) = x
        /\ entryIndex(p, 2) = y /\ entryIndex(p, 1) = z /\ w # Last
    BY <1>1, PlainFields, MappableFacts
  <1> DEFINE q == PageAt(IF l = 4 THEN i ELSE w, IF l = 3 THEN i ELSE x,
                         IF l = 2 THEN i ELSE y, IF l = 1 THEN i ELSE z)
  <1>3. /\ entryIndex(q, 4) = IF l = 4 THEN i ELSE w
        /\ entryIndex(q, 3) = IF l = 3 THEN i ELSE x
        /\ entryIndex(q, 2) = IF l = 2 THEN i ELSE y
        /\ entryIndex(q, 1) = IF l = 1 THEN i ELSE z
    BY PlainFields
  <1>4. q \in MappablePages
    <2> DEFINE w1 == IF l = 4 THEN i ELSE w
    <2>1. w1 \in Indices /\ w1 # Last
      BY <1>2
    <2>2. \A x1, y1, z1 \in Indices :
            PageAt(w1, x1, y1, z1) \in Pages /\ PageAt(w1, x1, y1, z1) < tablesStart
      BY <2>1, PageAtIsPage, BelowTables
    <2> HIDE DEF w1
    <2>3. q = PageAt(w1, IF l = 3 THEN i ELSE x, IF l = 2 THEN i ELSE y, IF l = 1 THEN i ELSE z)
      BY DEF w1
    <2> QED
      BY <2>2, <2>3 DEF MappablePages
  <1> HIDE DEF q
  <1>5. entryIndex(q, l) = i /\ \A k \in 1 .. 4 : k # l => entryIndex(q, k) = entryIndex(p, k)
    <2>1. \A k \in 1 .. 4 : k = 1 \/ k = 2 \/ k = 3 \/ k = 4
      OBVIOUS
    <2> QED
      BY <1>2, <1>3, <2>1
  <1> QED
    BY <1>4, <1>5

(* The tables of a level. *)
TablesOf(l) == {TableOf(mem, RootFrame, p, l) : p \in MappablePages} \ {Absent}

(* A link leads from a walk's table to the walk's next. *)
LEMMA LinkIsStep ==
  ASSUME Recursive(mem), TablesApart(mem), NEW l \in 1 .. 3, NEW link \in Links(TablesOf(l + 1))
  PROVE  \E q \in MappablePages : /\ TableOf(mem, RootFrame, q, l + 1) = link[1]
                                  /\ entryIndex(q, l + 1) = link[2]
                                  /\ TableOf(mem, RootFrame, q, l) = mem[link[1]][link[2]]
                                  /\ mem[link[1]][link[2]] # Absent
  <1>1. /\ link[1] \in TablesOf(l + 1) /\ link[2] \in Indices
        /\ mem[link[1]][link[2]] # Absent /\ link # <<RootFrame, EntriesPerTable - 1>>
        /\ link = <<link[1], link[2]>>
    BY DEF Links
  <1>2. PICK p \in MappablePages : TableOf(mem, RootFrame, p, l + 1) = link[1] /\ link[1] # Absent
    BY <1>1 DEF TablesOf
  <1>3. l + 1 = 4 => link[2] # Last
    <2>1. l + 1 = 4 => link[1] = RootFrame
      BY <1>2, WalkSteps
    <2> QED
      BY <1>1, <2>1 DEF Last
  <1>4. l + 1 \in 1 .. 4
    OBVIOUS
  <1>5. PICK q \in MappablePages :
          /\ entryIndex(q, l + 1) = link[2]
          /\ \A k \in 1 .. 4 : k # l + 1 => entryIndex(q, k) = entryIndex(p, k)
    BY <1>1, <1>3, <1>4, PageWith
  <1>6. TableOf(mem, RootFrame, q, l + 1) = link[1]
    <2>1. \A k \in ((l + 1) + 1) .. 4 : entryIndex(q, k) = entryIndex(p, k)
      BY <1>5
    <2> QED
      BY <1>2, <1>4, <2>1, TablesByIndices
  <1>7. TableOf(mem, RootFrame, q, l) = mem[link[1]][link[2]]
    <2>1. TableOf(mem, RootFrame, q, l) = Read(mem, link[1], link[2])
      BY <1>5, <1>6, WalkReads
    <2> QED
      BY <1>2, <2>1 DEF Read
  <1> QED
    BY <1>1, <1>5, <1>6, <1>7

LEMMA StepIsLink ==
  ASSUME Recursive(mem), TablesApart(mem), NEW l \in 1 .. 3, NEW q \in MappablePages,
         TableOf(mem, RootFrame, q, l) # Absent
  PROVE  /\ <<TableOf(mem, RootFrame, q, l + 1), entryIndex(q, l + 1)>> \in Links(TablesOf(l + 1))
         /\ TableOf(mem, RootFrame, q, l)
              = mem[TableOf(mem, RootFrame, q, l + 1)][entryIndex(q, l + 1)]
  <1> DEFINE t == TableOf(mem, RootFrame, q, l + 1)
  <1> DEFINE i == entryIndex(q, l + 1)
  <1>1. l + 1 \in 1 .. 4 /\ q \in Int /\ mem \in Memories
    BY MappableFacts DEF Recursive
  <1>2. t # Absent /\ TableOf(mem, RootFrame, q, l) = mem[t][i]
    <2>1. TableOf(mem, RootFrame, q, l) = Read(mem, t, i)
      BY WalkReads
    <2> QED
      BY <2>1 DEF Read
  <1>3. t \in TablesOf(l + 1) /\ i \in Indices
    BY <1>1, <1>2, WalkTypes DEF TablesOf
  <1>4. ~(t = RootFrame /\ i = EntriesPerTable - 1)
    <2>1. ASSUME t = RootFrame PROVE i # Last
      <3>1. t = TableOf(mem, RootFrame, q, 4)
        BY <2>1, WalkSteps
      <3>2. l + 1 = 4
        BY <1>1, <1>2, <3>1 DEF TablesApart
      <3>3. entryIndex(q, 4) # Last
        BY MappableFacts
      <3> QED
        BY <3>2, <3>3
    <2> QED
      BY <2>1 DEF Last
  <1> HIDE DEF t, i
  <1>5. <<t, i>> \in Links(TablesOf(l + 1))
    BY <1>2, <1>3, <1>4 DEF Links
  <1> QED
    BY <1>2, <1>5 DEF t, i

LEMMA TablesByWalk ==
  Recursive(mem) /\ TablesApart(mem)
    => /\ TablesOf(4) = {RootFrame}
       /\ Level3 = TablesOf(3) /\ Level2 = TablesOf(2) /\ Level1 = TablesOf(1)
  <1> SUFFICES ASSUME Recursive(mem), TablesApart(mem)
               PROVE  /\ TablesOf(4) = {RootFrame}
                      /\ Level3 = TablesOf(3) /\ Level2 = TablesOf(2) /\ Level1 = TablesOf(1)
    OBVIOUS
  <1>1. TablesOf(4) = {RootFrame}
    <2>1. \A p \in MappablePages : TableOf(mem, RootFrame, p, 4) = RootFrame /\ RootFrame # Absent
      BY WalkSteps
    <2> QED
      BY <2>1, MappableFacts DEF TablesOf
  <1>2. ASSUME NEW l \in 1 .. 3 PROVE Below(TablesOf(l + 1)) = TablesOf(l)
    <2>1. ASSUME NEW f \in Below(TablesOf(l + 1)) PROVE f \in TablesOf(l)
      <3>1. PICK link \in Links(TablesOf(l + 1)) : f = mem[link[1]][link[2]]
        BY <2>1 DEF Below
      <3> QED
        BY <3>1, LinkIsStep DEF TablesOf
    <2>2. ASSUME NEW f \in TablesOf(l) PROVE f \in Below(TablesOf(l + 1))
      <3>1. PICK q \in MappablePages : f = TableOf(mem, RootFrame, q, l) /\ f # Absent
        BY <2>2 DEF TablesOf
      <3> DEFINE link == <<TableOf(mem, RootFrame, q, l + 1), entryIndex(q, l + 1)>>
      <3>2. link \in Links(TablesOf(l + 1)) /\ f = mem[link[1]][link[2]]
        BY <3>1, StepIsLink
      <3> QED
        BY <3>2 DEF Below
    <2> QED
      BY <2>1, <2>2
  <1>3. Level3 = TablesOf(3)
    <2>1. Below(TablesOf(3 + 1)) = TablesOf(3)
      BY <1>2
    <2> QED
      BY <1>1, <2>1 DEF Level3
  <1>4. Level2 = TablesOf(2)
    <2>1. Below(TablesOf(2 + 1)) = TablesOf(2)
      BY <1>2
    <2> QED
      BY <1>3, <2>1 DEF Level2
  <1>5. Level1 = TablesOf(1)
    <2>1. Below(TablesOf(1 + 1)) = TablesOf(1)
      BY <1>2
    <2> QED
      BY <1>4, <2>1 DEF Level1
  <1> QED
    BY <1>1, <1>3, <1>4, <1>5

LEMMA LinksFinite ==
  ASSUME NEW ts, IsFiniteSet(ts)
  PROVE  IsFiniteSet(Links(ts)) /\ IsFiniteSet(Below(ts))
  <1>1. IsFiniteSet(Indices)
    BY Sizes, FS_Interval DEF Indices
  <1>2. IsFiniteSet(ts \X Indices) /\ Links(ts) \in SUBSET (ts \X Indices)
    BY <1>1, FS_Product DEF Links
  <1>3. IsFiniteSet(Links(ts))
    BY <1>2, FS_Subset
  <1> DEFINE F == [link \in Links(ts) |-> mem[link[1]][link[2]]]
  <1>4. F \in Surjection(Links(ts), Below(ts))
    BY DEF Surjection, Below
  <1>5. IsFiniteSet(Below(ts))
    BY <1>3, <1>4, FS_Surjection
  <1> QED
    BY <1>3, <1>5

LEMMA IsInjection ==
  ASSUME NEW S, NEW T, NEW F \in [S -> T], \A a, b \in S : F[a] = F[b] => a = b
  PROVE  F \in Injection(S, T)
  BY DEF Injection, IsInjective

(* Every table but the root has exactly one link. *)
LEMMA TreeCounted ==
  Recursive(mem) /\ TablesApart(mem)
    => Cardinality(Links({RootFrame} \cup Level3 \cup Level2)) = Cardinality(Tables) - 1
  <1> SUFFICES ASSUME Recursive(mem), TablesApart(mem)
               PROVE  Cardinality(Links({RootFrame} \cup Level3 \cup Level2)) = Cardinality(Tables) - 1
    OBVIOUS
  <1> DEFINE L == Links({RootFrame} \cup Level3 \cup Level2)
  <1> DEFINE S == Level3 \cup Level2 \cup Level1
  <1> DEFINE F == [link \in L |-> mem[link[1]][link[2]]]
  <1>1. /\ {RootFrame} = TablesOf(4)
        /\ Level3 = TablesOf(3) /\ Level2 = TablesOf(2) /\ Level1 = TablesOf(1)
    BY TablesByWalk
  <1>2. L = Links(TablesOf(4)) \cup Links(TablesOf(3)) \cup Links(TablesOf(2))
    <2>1. \A A, B, C : Links(A \cup B \cup C) = Links(A) \cup Links(B) \cup Links(C)
      BY DEF Links
    <2>2. L = Links(TablesOf(4) \cup TablesOf(3) \cup TablesOf(2))
      BY <1>1
    <2>3. Links(TablesOf(4) \cup TablesOf(3) \cup TablesOf(2))
            = Links(TablesOf(4)) \cup Links(TablesOf(3)) \cup Links(TablesOf(2))
      BY <2>1
    <2> HIDE DEF L
    <2> QED
      BY <2>2, <2>3
  <1>3. \A link \in L : \E l \in 1 .. 3 : link \in Links(TablesOf(l + 1))
    <2>1. 1 + 1 = 2 /\ 2 + 1 = 3 /\ 3 + 1 = 4 /\ 1 \in 1 .. 3 /\ 2 \in 1 .. 3 /\ 3 \in 1 .. 3
      OBVIOUS
    <2> HIDE DEF L
    <2> QED
      BY <1>2, <2>1
  <1>4. \A l \in 1 .. 3 : Links(TablesOf(l + 1)) \subseteq L /\ TablesOf(l) \subseteq S
    <2>1. \A l \in 1 .. 3 : (l = 1 /\ l + 1 = 2) \/ (l = 2 /\ l + 1 = 3) \/ (l = 3 /\ l + 1 = 4)
      OBVIOUS
    <2>2. /\ Links(TablesOf(2)) \subseteq L /\ Links(TablesOf(3)) \subseteq L
          /\ Links(TablesOf(4)) \subseteq L
      <3> HIDE DEF L
      <3> QED
        BY <1>2
    <2>3. TablesOf(1) \subseteq S /\ TablesOf(2) \subseteq S /\ TablesOf(3) \subseteq S
      BY <1>1
    <2> HIDE DEF L, S
    <2> QED
      BY <2>1, <2>2, <2>3
  <1>5. \A t \in S : \E l \in 1 .. 3 : t \in TablesOf(l)
    BY <1>1
  <1> HIDE DEF L, S
  <1>6. \A link \in L : \E l \in 1 .. 3 : \E q \in MappablePages :
          /\ TableOf(mem, RootFrame, q, l + 1) = link[1] /\ entryIndex(q, l + 1) = link[2]
          /\ TableOf(mem, RootFrame, q, l) = F[link] /\ F[link] # Absent
    <2>1. ASSUME NEW link \in L
          PROVE  \E l \in 1 .. 3 : \E q \in MappablePages :
                    /\ TableOf(mem, RootFrame, q, l + 1) = link[1] /\ entryIndex(q, l + 1) = link[2]
                    /\ TableOf(mem, RootFrame, q, l) = F[link] /\ F[link] # Absent
      <3>1. PICK l \in 1 .. 3 : link \in Links(TablesOf(l + 1))
        BY <1>3
      <3>2. F[link] = mem[link[1]][link[2]]
        OBVIOUS
      <3> HIDE DEF F
      <3> QED
        BY <3>1, <3>2, LinkIsStep
    <2> QED
      BY <2>1
  <1>7. F \in [L -> S]
    <2>1. \A link \in L : F[link] \in S
      <3> HIDE DEF F
      <3> QED
        BY <1>4, <1>6 DEF TablesOf
    <2> QED
      BY <2>1
  <1>8. \A t \in S : \E link \in L : F[link] = t
    <2>1. ASSUME NEW t \in S PROVE \E link \in L : F[link] = t
      <3>1. PICK l \in 1 .. 3 : t \in TablesOf(l)
        BY <1>5
      <3>2. PICK q \in MappablePages : t = TableOf(mem, RootFrame, q, l) /\ t # Absent
        BY <3>1 DEF TablesOf
      <3> DEFINE link == <<TableOf(mem, RootFrame, q, l + 1), entryIndex(q, l + 1)>>
      <3>3. link \in Links(TablesOf(l + 1)) /\ t = mem[link[1]][link[2]]
        BY <3>2, StepIsLink
      <3>4. link \in L
        BY <1>4, <3>3
      <3> HIDE DEF link
      <3> QED
        BY <3>3, <3>4
    <2> QED
      BY <2>1
  <1>9. \A a, b \in L : F[a] = F[b] => a = b
    <2>1. ASSUME NEW a \in L, NEW b \in L, F[a] = F[b] PROVE a = b
      <3> HIDE DEF F
      <3>1. PICK l \in 1 .. 3, q \in MappablePages :
              /\ TableOf(mem, RootFrame, q, l + 1) = a[1] /\ entryIndex(q, l + 1) = a[2]
              /\ TableOf(mem, RootFrame, q, l) = F[a] /\ F[a] # Absent
        BY <1>6
      <3>2. PICK k \in 1 .. 3, r \in MappablePages :
              /\ TableOf(mem, RootFrame, r, k + 1) = b[1] /\ entryIndex(r, k + 1) = b[2]
              /\ TableOf(mem, RootFrame, r, k) = F[b] /\ F[b] # Absent
        BY <1>6
      <3>3. l = k /\ \A j \in (l + 1) .. 4 : entryIndex(q, j) = entryIndex(r, j)
        BY <2>1, <3>1, <3>2 DEF TablesApart
      <3>4. TableOf(mem, RootFrame, q, l + 1) = TableOf(mem, RootFrame, r, l + 1)
        <4>1. \A j \in ((l + 1) + 1) .. 4 : entryIndex(q, j) = entryIndex(r, j)
          BY <3>3
        <4>2. l + 1 \in 1 .. 4
          OBVIOUS
        <4> QED
          BY <4>1, <4>2, TablesByIndices
      <3>5. a[1] = b[1] /\ a[2] = b[2]
        BY <3>1, <3>2, <3>3, <3>4
      <3>6. a = <<a[1], a[2]>> /\ b = <<b[1], b[2]>>
        BY DEF L, Links
      <3> QED
        BY <3>5, <3>6
    <2> QED
      BY <2>1
  <1>10. F \in Surjection(L, S) /\ F \in Injection(L, S)
    <2> HIDE DEF F
    <2>1. F \in Surjection(L, S)
      BY <1>7, <1>8, Zenon DEF Surjection
    <2>2. F \in Injection(L, S)
      BY <1>7, <1>9, IsInjection
    <2> QED
      BY <2>1, <2>2
  <1>11. IsFiniteSet(L)
    <2>1. IsFiniteSet({RootFrame})
      BY FS_Singleton
    <2>2. IsFiniteSet(Level3) /\ IsFiniteSet(Level2)
      BY <2>1, LinksFinite DEF Level3, Level2
    <2>3. IsFiniteSet({RootFrame} \cup Level3 \cup Level2)
      BY <2>1, <2>2, FS_Union
    <2> QED
      BY <2>3, LinksFinite DEF L
  <1>12. IsFiniteSet(S) /\ Cardinality(S) = Cardinality(L)
    <2> HIDE DEF F
    <2> QED
      BY <1>10, <1>11, FS_Surjection
  <1>13. RootFrame \notin S
    <2>1. ASSUME NEW l \in 1 .. 3, RootFrame \in TablesOf(l) PROVE FALSE
      <3>1. PICK q \in MappablePages : TableOf(mem, RootFrame, q, l) = RootFrame
        BY <2>1 DEF TablesOf
      <3>2. TableOf(mem, RootFrame, q, 4) = RootFrame /\ RootFrame # Absent
        BY WalkSteps
      <3> QED
        BY <3>1, <3>2 DEF TablesApart
    <2> QED
      BY <1>5, <2>1
  <1>14. Tables = S \cup {RootFrame}
    BY DEF Tables, S
  <1>15. Cardinality(Tables) = Cardinality(S) + 1 /\ Cardinality(S) \in Nat
    BY <1>12, <1>13, <1>14, FS_AddElement, FS_CardinalityType
  <1>16. Cardinality(L) = Cardinality(Tables) - 1
    BY <1>12, <1>15
  <1> QED
    BY <1>16 DEF L

LEMMA TreeForms == TreeInv => TablesFormTree
  <1> SUFFICES ASSUME TreeInv PROVE TablesFormTree
    OBVIOUS
  <1>1. Recursive(mem) /\ TablesApart(mem) /\ TablesAvoid(mem, free)
    BY DEF TreeInv
  <1>2. \A l \in 1 .. 4 : TablesOf(l) \cap free = {}
    BY <1>1 DEF TablesOf, TablesAvoid
  <1>3. Tables = TablesOf(4) \cup TablesOf(3) \cup TablesOf(2) \cup TablesOf(1)
    BY <1>1, TablesByWalk DEF Tables
  <1>4. Tables \cap free = {}
    <2>1. /\ TablesOf(1) \cap free = {} /\ TablesOf(2) \cap free = {}
          /\ TablesOf(3) \cap free = {} /\ TablesOf(4) \cap free = {}
      BY <1>2
    <2> QED
      BY <1>3, <2>1, Zenon
  <1> QED
    BY <1>1, <1>4, TreeCounted DEF TablesFormTree

(* Every table but the root hangs from one entry, and none is a page the
   allocator may still give away, in every state map can reach in the
   settings in which it is right (36-78).                                  *)
THEOREM TablesAlwaysFormTree ==
  ASSUME Fixed(InitialStates, Requests) \/ Growing(InitialStates, Requests)
  PROVE  Spec => []TablesFormTree
  BY TreeForms, TablesStayTree, PTL

-----------------------------------------------------------------------------
(* A frame is a table when some walk passes through it. *)
TablesWalked ==
  \A f : f \in Tables
     <=> f # Absent /\ \E l \in 1 .. 4 : \E q \in MappablePages : f = TableOf(mem, RootFrame, q, l)

LEMMA TablesMembers == TreeInv => TablesWalked
  <1> SUFFICES ASSUME TreeInv PROVE TablesWalked
    OBVIOUS
  <1>1. Tables = TablesOf(4) \cup TablesOf(3) \cup TablesOf(2) \cup TablesOf(1)
    BY TablesByWalk DEF Tables, TreeInv
  <1>2. \A f : \A l : f \in TablesOf(l)
          <=> f # Absent /\ \E q \in MappablePages : f = TableOf(mem, RootFrame, q, l)
    BY DEF TablesOf
  <1>3. \A l \in 1 .. 4 : l = 1 \/ l = 2 \/ l = 3 \/ l = 4
    OBVIOUS
  <1>4. \A f : f \in Tables <=> \E l \in 1 .. 4 : f \in TablesOf(l)
    BY <1>1, <1>3
  <1> QED
    BY <1>2, <1>4 DEF TablesWalked

LEMMA FramesAccountedStep ==
  TreeInv /\ TreeInv' /\ (FixedInv \/ GrowingInv) /\ [Next]_vars
    => Tables' \cup free' = Tables \cup free
  <1>0. TreeInv' => TablesWalked'
    BY TablesMembers, PTL
  <1> SUFFICES ASSUME TreeInv, TreeInv', FixedInv \/ GrowingInv, [Next]_vars
               PROVE  Tables' \cup free' = Tables \cup free
    OBVIOUS
  <1>1. \A f : f \in Tables
          <=> f # Absent /\ \E l \in 1 .. 4 : \E q \in MappablePages : f = TableOf(mem, RootFrame, q, l)
    BY TablesMembers DEF TablesWalked
  <1>2. TablesWalked'
    BY <1>0
  <1>3. \A f : f \in Tables'
          <=> f # Absent /\ \E l \in 1 .. 4 : \E q \in MappablePages : f = TableOf(mem', RootFrame, q, l)
    BY <1>2 DEF TablesWalked
  <1>4. RangeBelow(request) /\ pc # "overrun"
    BY AtRootIsBelow DEF FixedInv, GrowingInv, TreeInv, WalkTypeOK, PagesTypeOK
  <1>5. CASE CreateSubtable
    <2>1. free # {}
      BY <1>5 DEF CreateSubtable
    <2>2. GrowingInv
      BY <2>1 DEF FixedInv
    <2>3. PICK f \in Frames : Linked(f)
      BY <1>5, <2>2, CreateSubtableLinks
    <2>4. level \in 2 .. 4 /\ virtAddr \in MappablePages
      <3>1. Mapping /\ level > 1
        BY <1>5 DEF CreateSubtable, AtEntry
      <3>2. level \in 1 .. 4
        BY DEF TreeInv, WalkTypeOK, PagesTypeOK
      <3> QED
        BY <2>2, <3>1, <3>2, GrowingPage
    <2>5. /\ f \in free /\ free' = free \ {f} /\ f # Absent
          /\ TableOf(mem, RootFrame, virtAddr, level - 1) = Absent
          /\ OnlyLinks(mem, mem', virtAddr, level, f)
      BY <2>3, PagingAssumption DEF Linked
    <2> DEFINE here(q, l) == l = level - 1 /\ \A j \in level .. 4 : entryIndex(q, j) = entryIndex(virtAddr, j)
    <2>6. \A q \in MappablePages : \A l \in 1 .. 4 :
            /\ here(q, l) => TableOf(mem', RootFrame, q, l) = f
            /\ ~here(q, l) => TableOf(mem', RootFrame, q, l) = TableOf(mem, RootFrame, q, l)
      BY <2>5 DEF OnlyLinks
    <2>7. \A q \in MappablePages : \A l \in 1 .. 4 :
            here(q, l) => TableOf(mem, RootFrame, q, l) = Absent
      <3>1. ASSUME NEW q \in MappablePages, NEW l \in 1 .. 4, here(q, l)
            PROVE  TableOf(mem, RootFrame, q, l) = Absent
        <4>1. \A j \in (l + 1) .. 4 : entryIndex(q, j) = entryIndex(virtAddr, j)
          BY <2>4, <3>1
        <4>2. TableOf(mem, RootFrame, q, l) = TableOf(mem, RootFrame, virtAddr, l)
          BY <4>1, TablesByIndices
        <4> QED
          BY <2>5, <3>1, <4>2
      <3> QED
        BY <3>1
    <2>8. here(virtAddr, level - 1) /\ level - 1 \in 1 .. 4
      BY <2>4
    <2> HIDE DEF here
    <2>9. f \in Tables'
      BY <1>3, <2>4, <2>5, <2>6, <2>8
    <2>10. Tables \subseteq Tables'
      BY <1>1, <1>3, <2>6, <2>7
    <2>11. Tables' \subseteq Tables \cup {f}
      BY <1>1, <1>3, <2>6
    <2> QED
      BY <2>5, <2>9, <2>10, <2>11
  <1>6. CASE SetEntry
    <2>1. OnlyTranslates(mem, mem', virtAddr, physFrame) /\ free' = free
      BY <1>4, <1>6, SetEntryKeeps DEF SetEntry
    <2>2. \A q \in MappablePages : \A l \in 1 .. 4 :
            TableOf(mem', RootFrame, q, l) = TableOf(mem, RootFrame, q, l)
      BY <2>1 DEF OnlyTranslates
    <2>3. Tables' = Tables
      BY <1>1, <1>3, <2>2
    <2> QED
      BY <2>1, <2>3
  <1>7. CASE ClearOverrun
    BY <1>4, <1>7 DEF ClearOverrun
  <1>8. ASSUME ~SetEntry, ~CreateSubtable, ~ClearOverrun PROVE UNCHANGED <<mem, free>>
    <2>1. CASE \E r \in Requests : map(r)
      BY <2>1 DEF map
    <2>2. CASE ReadFault \/ WriteFault
      BY <2>2 DEF ReadFault, WriteFault, Fault
    <2>3. CASE UseSubtable \/ RefuseSubtable \/ Return
      BY <2>3 DEF UseSubtable, RefuseSubtable, Return
    <2>4. CASE UNCHANGED vars
      BY <2>4 DEF vars
    <2> QED
      BY <1>8, <2>1, <2>2, <2>3, <2>4 DEF Next
  <1>9. CASE UNCHANGED <<mem, free>>
    <2>1. Tables' = Tables
      BY <1>1, <1>3, <1>9
    <2> QED
      BY <1>9, <2>1
  <1> QED
    BY <1>5, <1>6, <1>7, <1>8, <1>9

(* A page taken from the allocator becomes a table of the tree in the same
   step, so none is lost when map gives up halfway and is called again
   (36-78).                                                                *)
THEOREM NoFrameIsLost ==
  ASSUME Fixed(InitialStates, Requests) \/ Growing(InitialStates, Requests)
  PROVE  Spec => FramesAccounted
  <1>1. TreeInv /\ TreeInv' /\ (FixedInv \/ GrowingInv) /\ [Next]_vars
          => [Tables' \cup free' = Tables \cup free]_vars
    BY FramesAccountedStep
  <1> QED
    BY <1>1, TablesStayTree, PTL DEF Spec, FramesAccounted

-----------------------------------------------------------------------------
(* The scenarios of the model-checked instance are such settings, so that what
   its run checks follows, for every value of its constants that meets its
   assumption.                                                             *)
ScenarioInv ==
  /\ scenario \in Scenarios /\ request \in RequestsOf(scenario)
  /\ scenario = "fresh" => TreeInv /\ GrowingInv
  /\ scenario = "boot" => TreeInv /\ FixedInv

LEMMA ScenarioInit == MCInit => ScenarioInv /\ Space!Init
  <1> SUFFICES ASSUME MCInit PROVE ScenarioInv /\ Space!Init
    OBVIOUS
  <1>1. /\ scenario \in Scenarios /\ Init /\ request \in RequestsOf(scenario)
        /\ [mem |-> mem, free |-> free] \in StatesOf[scenario]
    BY DEF MCInit
  <1>2. Space!Init
    BY <1>1 DEF Init, Space!Init
  <1>3. /\ WalkTypeOK /\ Recursive(mem) /\ pc = "idle"
    <2>1. WalkTypeOK
      BY <1>1, InitTypes
    <2>2. Recursive(mem)
      BY <1>1, RequestAssumption DEF Init, Recursive, Last
    <2> QED
      BY <1>1, <2>1, <2>2 DEF Init
  <1>4. CASE scenario = "fresh"
    <2>1. [mem |-> mem, free |-> free] \in FreshStates /\ request \in AlignedRequests
      BY <1>1, <1>4 DEF StatesOf, RequestsOf
    <2>2. TablesApart(mem) /\ TablesAvoid(mem, free) /\ RangeAtRoot(request)
      <3> DEFINE s == [mem |-> mem, free |-> free]
      <3>1. TablesApart(s.mem) /\ TablesAvoid(s.mem, s.free) /\ RangeAtRoot(request)
        BY <2>1, ScenarioAssumption, Zenon DEF Growing
      <3> QED
        BY <3>1
    <2> QED
      BY <1>1, <1>3, <1>4, <1>2, <2>2 DEF ScenarioInv, TreeInv, GrowingInv, Mapping
  <1>5. CASE scenario = "boot"
    <2>1. [mem |-> mem, free |-> free] \in BootStates /\ request \in KernelRequests
      BY <1>1, <1>5 DEF StatesOf, RequestsOf
    <2>2. TablesApart(mem) /\ free = {} /\ RangeBelow(request)
      <3> DEFINE s == [mem |-> mem, free |-> free]
      <3>1. TablesApart(s.mem) /\ s.free = {} /\ RangeBelow(request)
        BY <2>1, ScenarioAssumption, Zenon DEF Fixed
      <3> QED
        BY <3>1
    <2>3. TablesAvoid(mem, free)
      BY <2>2 DEF TablesAvoid
    <2> QED
      BY <1>1, <1>2, <1>3, <1>5, <2>2, <2>3 DEF ScenarioInv, TreeInv, FixedInv
  <1>6. CASE scenario \notin {"fresh", "boot"}
    BY <1>1, <1>2, <1>6 DEF ScenarioInv
  <1> QED
    BY <1>4, <1>5, <1>6

LEMMA ScenarioStep ==
  ScenarioInv /\ [MCNext]_mcVars =>
    /\ ScenarioInv' /\ [Next]_vars /\ UNCHANGED scenario
  <1> SUFFICES ASSUME ScenarioInv, [MCNext]_mcVars
               PROVE  ScenarioInv' /\ [Next]_vars /\ UNCHANGED scenario
    OBVIOUS
  <1>1. /\ [Next]_vars /\ scenario' = scenario /\ scenario \in Scenarios
        /\ request' \in RequestsOf(scenario)
    <2>1. CASE MCNext
      BY <2>1 DEF MCNext, ScenarioInv
    <2>2. CASE UNCHANGED mcVars
      BY <2>2 DEF mcVars, vars, ScenarioInv
    <2> QED
      BY <2>1, <2>2
  <1>2. CASE scenario = "fresh"
    <2>1. RangeAtRoot(request')
      BY <1>1, <1>2, ScenarioAssumption DEF RequestsOf, Growing
    <2>2. TreeInv' /\ GrowingInv'
      BY <1>1, <1>2, <2>1, GrowingStep DEF ScenarioInv
    <2> QED
      BY <1>1, <1>2, <2>2 DEF ScenarioInv
  <1>3. CASE scenario = "boot"
    <2>1. RangeBelow(request')
      BY <1>1, <1>3, ScenarioAssumption DEF RequestsOf, Fixed
    <2>2. TreeInv' /\ FixedInv'
      BY <1>1, <1>3, <2>1, FixedStep DEF ScenarioInv
    <2> QED
      BY <1>1, <1>3, <2>2 DEF ScenarioInv
  <1>4. CASE scenario \notin {"fresh", "boot"}
    BY <1>1, <1>4 DEF ScenarioInv
  <1> QED
    BY <1>2, <1>3, <1>4

LEMMA ScenariosRight ==
  ScenarioInv /\ scenario # "zeroed" => TreeInv /\ (FixedInv \/ GrowingInv)
  BY ScenarioAssumption DEF ScenarioInv

(* Ranges that begin at entries of the root leave a tree of tables and touch
   no address that is not mapped (RecursivePageTables::map 36-78).         *)
THEOREM ScenariosKeepTree == MCSpec => []TreeWithoutFault
  <1>1. ScenarioInv /\ [MCNext]_mcVars => ScenarioInv'
    BY ScenarioStep
  <1>2. ScenarioInv => TreeWithoutFault
    BY TreeForms DEF ScenarioInv, GrowingInv, TreeWithoutFault, NoFault
  <1> QED
    BY ScenarioInit, <1>1, <1>2, PTL DEF MCSpec

(* No page taken for a table is lost when map gives up and is called again,
   unless a table is cleared beyond its page (RecursivePageTables::map).   *)
THEOREM ScenariosLoseNoFrame == MCSpec => NoFrameLost
  <1>1. ScenarioInv /\ [MCNext]_mcVars => ScenarioInv'
    BY ScenarioStep
  <1>2. ScenarioInv /\ ScenarioInv' /\ [MCNext]_mcVars
          => [scenario # "zeroed" => Tables' \cup free' = Tables \cup free]_mcVars
    <2> SUFFICES ASSUME ScenarioInv, ScenarioInv', [MCNext]_mcVars, scenario # "zeroed"
                 PROVE  Tables' \cup free' = Tables \cup free
      OBVIOUS
    <2>1. [Next]_vars /\ TreeInv /\ (FixedInv \/ GrowingInv)
      BY ScenarioStep, ScenariosRight
    <2>2. TreeInv'
      <3>1. scenario \in {"fresh", "boot"} /\ scenario' = scenario
        BY ScenarioStep, ScenarioAssumption DEF ScenarioInv
      <3> QED
        BY <3>1 DEF ScenarioInv
    <2> QED
      BY <2>1, <2>2, FramesAccountedStep
  <1> QED
    BY ScenarioInit, <1>1, <1>2, PTL DEF MCSpec, NoFrameLost

(* Every step leaves all translations alone or maps the next page asked for
   (the loop of PageTables::map, 36-78).                                   *)
THEOREM ScenariosKeepSpace == MCSpec => AddressSpaceKept
  <1>1. ScenarioInv /\ [MCNext]_mcVars => ScenarioInv'
    BY ScenarioStep
  <1>2. ScenarioInv /\ [MCNext]_mcVars
          => [scenario # "zeroed" => [Space!Next]_(Space!spaceVars)]_mcVars
    BY ScenarioStep, ScenariosRight, StepIsSpace
  <1> QED
    BY ScenarioInit, <1>1, <1>2, PTL DEF MCSpec, AddressSpaceKept
===============================================================================
