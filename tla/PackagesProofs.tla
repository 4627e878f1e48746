----------------------------- MODULE PackagesProofs -----------------------------
(***************************************************************************)
(* Proofs about Packages: for every archive, name looked for and number of *)
(* bytes the initrd was cut to; and for every text, setting of the         *)
(* compressor and way of calling it.  InflateProofs has the decompressor.  *)
(*                                                                         *)
(* The search: an entry takes a multiple of four bytes, so the offsets,    *)
(* sums of the sizes before them, are multiples of four too and grow, and  *)
(* rounding the pointer up gives the archiver's padding of one entry       *)
(* (WalkAgrees).  The pointer hence stands on some header, or past the     *)
(* last one, and no entry behind it has the name (Standing).               *)
(*                                                                         *)
(* The compressor: the dictionary has the byte of the text for every       *)
(* position less than DictSize behind the newest, its first cells twice    *)
(* (Filling).  A match is hence a stretch of the text seen before, though  *)
(* positions wrap in the chains (ProbeFinds), and writing it, as a literal *)
(* or a pair, extends what a decompressor has by the bytes passed over     *)
(* (RecordExtends).  TextOK says where each byte taken is: written,        *)
(* recorded, held back or ahead; every step keeps it (DeflateInv).         *)
(***************************************************************************)
EXTENDS Packages, NaturalLemmas

-----------------------------------------------------------------------------
(* The search in the initrd. *)
LEMMA CpioConstants ==
  ASSUME NEW ar \in Archives
  PROVE  /\ Len(ar) \in Nat /\ DOMAIN ar = 1 .. Len(ar)
         /\ \A k \in 1 .. Len(ar) : Len(ar[k].name) \in Nat /\ ar[k].filesize \in Nat
  BY PackagesAssumption DEF Cpio!CpioAssumption

(* The archiver's padding and the loader's agree where an entry begins at a
   multiple of four.                                                       *)
LEMMA PaddingsAgree ==
  ASSUME NEW n \in Nat
  PROVE  /\ Cpio!Padded(n) \in Nat /\ Cpio!Padded(n) % 4 = 0 /\ n <= Cpio!Padded(n)
         /\ Cpio!AlignUp(n) = Cpio!Padded(n)
  BY DEF Cpio!Padded, Cpio!AlignUp

LEMMA AlignUpFrom ==
  ASSUME NEW o \in Nat, o % 4 = 0, NEW n \in Nat
  PROVE  Cpio!AlignUp(o + n) = o + Cpio!AlignUp(n)
  BY DEF Cpio!AlignUp

LEMMA EntrySizes ==
  ASSUME NEW ar \in Archives, NEW k \in 1 .. Len(ar)
  PROVE  /\ Cpio!EntrySize(ar[k]) \in Nat /\ Cpio!EntrySize(ar[k]) % 4 = 0
         /\ Cpio!EntrySize(ar[k]) > 0
         /\ Cpio!Sizes(ar)[k] = Cpio!EntrySize(ar[k])
  <1> DEFINE e == ar[k]
             h == Cpio!HeaderSize + Cpio!Namesize(e)
  <1>1. Len(e.name) \in Nat /\ e.filesize \in Nat
    BY CpioConstants
  <1>2. h \in Nat /\ h > 0
    BY <1>1 DEF Cpio!HeaderSize, Cpio!Namesize
  <1>3. Cpio!EntrySize(e) = Cpio!Padded(h) + Cpio!Padded(e.filesize)
    BY DEF Cpio!EntrySize
  <1>4. Cpio!Sizes(ar)[k] = Cpio!EntrySize(e)
    BY CpioConstants DEF Cpio!Sizes
  <1> HIDE DEF e, h
  <1>5. /\ Cpio!Padded(h) \in Nat /\ Cpio!Padded(h) % 4 = 0 /\ h <= Cpio!Padded(h)
        /\ Cpio!Padded(e.filesize) \in Nat /\ Cpio!Padded(e.filesize) % 4 = 0
    BY <1>1, <1>2, PaddingsAgree
  <1>6. \A a_1, b_1 \in Nat : a_1 % 4 = 0 /\ b_1 % 4 = 0 => (a_1 + b_1) % 4 = 0
    OBVIOUS
  <1>7. (Cpio!Padded(h) + Cpio!Padded(e.filesize)) % 4 = 0
    BY <1>5, <1>6
  <1>8. Cpio!EntrySize(e) \in Nat /\ Cpio!EntrySize(e) > 0
    BY <1>2, <1>3, <1>5
  <1> QED
    BY <1>3, <1>4, <1>7, <1>8 DEF e

(* An entry begins where the one before it ends, and every later one there or
   behind it.                                                              *)
LEMMA OffsetsGrow ==
  ASSUME NEW ar \in Archives
  PROVE  /\ Cpio!Offset(ar, 1) = 0
         /\ \A k \in 1 .. Len(ar) :
              Cpio!Offset(ar, k + 1) = Cpio!Offset(ar, k) + Cpio!EntrySize(ar[k])
         /\ \A k \in 1 .. (Len(ar) + 1) : Cpio!Offset(ar, k) \in Nat
         /\ \A j, k \in 1 .. (Len(ar) + 1) : j < k => Cpio!Offset(ar, j) < Cpio!Offset(ar, k)
  <1> DEFINE g == Cpio!Sizes(ar)
             n == Len(ar)
  <1>1. n \in Nat /\ \A k \in 1 .. n : g[k] \in Nat /\ g[k] > 0 /\ g[k] = Cpio!EntrySize(ar[k])
    BY CpioConstants, EntrySizes
  <1>2. \A k : Cpio!Offset(ar, k) = SumTo(g, k - 1)
    BY DEF Cpio!Offset, Cpio!SumTo, SumTo
  <1> HIDE DEF g, n
  <1>3. Cpio!Offset(ar, 1) = 0
    <2>1. 1 - 1 = 0
      OBVIOUS
    <2> QED
      BY <1>2, <2>1, SumOfNone
  <1>4. ASSUME NEW k \in 1 .. n
        PROVE  Cpio!Offset(ar, k + 1) = Cpio!Offset(ar, k) + Cpio!EntrySize(ar[k])
    <2>1. k - 1 \in Nat /\ (k - 1) + 1 = k /\ (k + 1) - 1 = k
      BY <1>1
    <2>2. SumTo(g, (k - 1) + 1) = SumTo(g, k - 1) + g[(k - 1) + 1]
      BY <2>1, SumOfMore
    <2> QED
      BY <1>1, <1>2, <2>1, <2>2
  <1>5. ASSUME NEW k \in 1 .. (n + 1) PROVE Cpio!Offset(ar, k) \in Nat
    <2>1. k - 1 \in Nat /\ \A i \in 1 .. (k - 1) : g[i] \in Nat
      BY <1>1
    <2> QED
      BY <1>2, <2>1, SumIsNatural
  <1>6. ASSUME NEW j \in 1 .. (n + 1), NEW k \in 1 .. (n + 1), j < k
        PROVE  Cpio!Offset(ar, j) < Cpio!Offset(ar, k)
    <2>1. j - 1 \in 0 .. n /\ k - 1 \in 0 .. n /\ j - 1 < k - 1 /\ (j - 1) + 1 = j /\ j \in 1 .. n
      BY <1>1, <1>6
    <2>2. SumTo(g, j - 1) + g[(j - 1) + 1] <= SumTo(g, k - 1)
      BY <1>1, <2>1, SumsGrow
    <2>3. g[j] \in Nat /\ g[j] > 0
      BY <1>1, <2>1
    <2>4. Cpio!Offset(ar, j) \in Nat /\ Cpio!Offset(ar, k) \in Nat
      BY <1>5
    <2>5. Cpio!Offset(ar, j) + g[j] <= Cpio!Offset(ar, k)
      BY <1>2, <2>1, <2>2
    <2> QED
      BY <2>3, <2>4, <2>5
  <1> QED
    BY <1>3, <1>4, <1>5, <1>6 DEF n

(* At the offset of an entry lies its header, and nowhere else a header. *)
LEMMA HeaderAt ==
  ASSUME NEW ar \in Archives, NEW k \in 1 .. Len(ar)
  PROVE  /\ Cpio!Offset(ar, k) \in DOMAIN Cpio!Headers(ar)
         /\ Cpio!Headers(ar)[Cpio!Offset(ar, k)] = ar[k]
  <1> DEFINE o == Cpio!Offset(ar, k)
  <1>1. DOMAIN ar = 1 .. Len(ar) /\ Len(ar) \in Nat
    BY CpioConstants
  <1>2. \A j \in DOMAIN ar : Cpio!Offset(ar, j) = o => j = k
    <2> SUFFICES ASSUME NEW j \in DOMAIN ar, Cpio!Offset(ar, j) = o, j # k PROVE FALSE
      OBVIOUS
    <2>1. j \in 1 .. (Len(ar) + 1) /\ k \in 1 .. (Len(ar) + 1)
      BY <1>1
    <2>2. Cpio!Offset(ar, j) \in Nat /\ Cpio!Offset(ar, k) \in Nat
      BY <2>1, OffsetsGrow
    <2>3. CASE j < k
      BY <2>1, <2>2, <2>3, OffsetsGrow
    <2>4. CASE k < j
      BY <2>1, <2>2, <2>4, OffsetsGrow
    <2> QED
      BY <2>1, <2>3, <2>4
  <1>3. (CHOOSE j \in DOMAIN ar : Cpio!Offset(ar, j) = o) = k
    BY <1>1, <1>2
  <1>4. o \in {Cpio!Offset(ar, j) : j \in DOMAIN ar}
    BY <1>1
  <1> QED
    BY <1>3, <1>4 DEF Cpio!Headers

(* The pointer stands on entry k or behind the last, having passed over the
   entries before it because of their names; an answer is entry k's.       *)
Standing(k) ==
  /\ p = Cpio!Offset(archive, k) /\ p % 4 = 0
  /\ \A j \in 1 .. (k - 1) : archive[j].name # Filename
  /\ found # Cpio!None => k <= Len(archive) /\ Cpio!InBounds /\ Cpio!IsEntry(k)

CpioInv ==
  /\ archive \in Archives /\ size \in Int /\ contents = Cpio!Headers(archive)
  /\ \E k \in 1 .. (Len(archive) + 1) : Standing(k)

(* The pointer begins on the first header. *)
LEMMA CpioBegins == Cpio!Init => CpioInv
  <1> SUFFICES ASSUME Cpio!Init PROVE CpioInv
    OBVIOUS
  <1>1. archive \in Archives /\ contents = Cpio!Headers(archive) /\ p = 0 /\ found = Cpio!None
    BY DEF Cpio!Init
  <1>2. Len(archive) \in Nat /\ Len(archive) + 1 \in 1 .. (Len(archive) + 1)
    BY <1>1, CpioConstants
  <1>3. size \in Int
    <2>1. PICK cut \in Cuts : size = Cpio!Offset(archive, Len(archive) + 1) - cut
      BY DEF Cpio!Init
    <2>2. cut \in Nat /\ Cpio!Offset(archive, Len(archive) + 1) \in Nat
      BY <1>1, <1>2, <2>1, OffsetsGrow, PackagesAssumption DEF Cpio!CpioAssumption
    <2> QED
      BY <2>1, <2>2
  <1>4. Standing(1)
    BY <1>1, OffsetsGrow DEF Standing
  <1>5. 1 \in 1 .. (Len(archive) + 1)
    BY <1>2
  <1> QED
    BY <1>1, <1>3, <1>4, <1>5 DEF CpioInv

(* Where the pointer stands on entry k, that entry is what it reads. *)
LEMMA ReadsEntry ==
  ASSUME CpioInv, NEW k \in 1 .. (Len(archive) + 1), Standing(k)
  PROVE  /\ Cpio!IsHeader => k \in 1 .. Len(archive)
         /\ k \in 1 .. Len(archive) => contents[p] = archive[k] /\ p \in DOMAIN contents
  <1>1. archive \in Archives /\ contents = Cpio!Headers(archive) /\ p = Cpio!Offset(archive, k)
    BY DEF CpioInv, Standing
  <1>2. Len(archive) \in Nat /\ DOMAIN archive = 1 .. Len(archive)
    BY <1>1, CpioConstants
  <1>3. k \in 1 .. Len(archive) => contents[p] = archive[k] /\ p \in DOMAIN contents
    BY <1>1, HeaderAt
  <1>4. ASSUME Cpio!IsHeader PROVE k \in 1 .. Len(archive)
    <2>1. SUFFICES ASSUME k = Len(archive) + 1 PROVE FALSE
      BY <1>2
    <2>2. PICK j \in DOMAIN archive : p = Cpio!Offset(archive, j)
      BY <1>1, <1>4 DEF Cpio!IsHeader, Cpio!Headers
    <2>3. j \in 1 .. (Len(archive) + 1) /\ j < k
      BY <1>2, <2>1, <2>2
    <2>4. Cpio!Offset(archive, j) < Cpio!Offset(archive, k) /\ Cpio!Offset(archive, k) \in Nat
      BY <1>1, <2>3, OffsetsGrow
    <2> QED
      BY <1>1, <2>2, <2>4
  <1> QED
    BY <1>3, <1>4

(* The data found are those the archiver put there; the next header too. *)
LEMMA WalkAgrees ==
  ASSUME archive \in Archives, NEW k \in 1 .. Len(archive),
         p = Cpio!Offset(archive, k), p % 4 = 0
  PROVE  /\ Cpio!DataOf(archive[k])
              = p + Cpio!Padded(Cpio!HeaderSize + Cpio!Namesize(archive[k]))
         /\ Cpio!AlignUp(Cpio!DataOf(archive[k]) + archive[k].filesize)
              = Cpio!Offset(archive, k + 1)
         /\ Cpio!Offset(archive, k + 1) % 4 = 0
  <1> DEFINE e == archive[k]
             h == Cpio!HeaderSize + Cpio!Namesize(e)
             o == Cpio!Offset(archive, k + 1)
  <1>1. Len(e.name) \in Nat /\ e.filesize \in Nat /\ Len(archive) \in Nat
    BY CpioConstants
  <1>2. h \in Nat
    BY <1>1 DEF Cpio!HeaderSize, Cpio!Namesize
  <1>3. k \in 1 .. (Len(archive) + 1) /\ p \in Nat
    BY <1>1, OffsetsGrow
  <1>4. o = p + (Cpio!Padded(h) + Cpio!Padded(e.filesize))
    BY OffsetsGrow DEF Cpio!EntrySize
  <1>5. Cpio!EntrySize(e) % 4 = 0 /\ Cpio!EntrySize(e) \in Nat /\ o = p + Cpio!EntrySize(e)
    BY EntrySizes, OffsetsGrow
  <1>6. Cpio!DataOf(e) = Cpio!AlignUp(p + h)
    <2>1. p + Cpio!HeaderSize + Cpio!Namesize(e) = p + h
      BY <1>1, <1>3 DEF Cpio!HeaderSize, Cpio!Namesize
    <2> QED
      BY <2>1 DEF Cpio!DataOf
  <1>7. \A a_1, b_1 \in Nat : a_1 % 4 = 0 /\ b_1 % 4 = 0 => (a_1 + b_1) % 4 = 0
    OBVIOUS
  <1>8. o % 4 = 0
    BY <1>3, <1>5, <1>7
  <1> HIDE DEF e, h, o
  <1>9. /\ Cpio!Padded(h) \in Nat /\ Cpio!Padded(h) % 4 = 0
        /\ Cpio!AlignUp(h) = Cpio!Padded(h)
        /\ Cpio!Padded(e.filesize) \in Nat
        /\ Cpio!AlignUp(e.filesize) = Cpio!Padded(e.filesize)
    BY <1>1, <1>2, PaddingsAgree
  <1>10. Cpio!DataOf(e) = p + Cpio!Padded(h)
    BY <1>2, <1>3, <1>6, <1>9, AlignUpFrom
  <1>11. p + Cpio!Padded(h) \in Nat /\ (p + Cpio!Padded(h)) % 4 = 0
    BY <1>3, <1>7, <1>9
  <1> DEFINE q == p + Cpio!Padded(h)
  <1>12. q \in Nat /\ q % 4 = 0
    BY <1>11
  <1> HIDE DEF q
  <1>13. Cpio!AlignUp(q + e.filesize) = q + Cpio!Padded(e.filesize)
    BY <1>1, <1>9, <1>12, AlignUpFrom
  <1>14. q + Cpio!Padded(e.filesize) = o
    BY <1>3, <1>4, <1>9 DEF q
  <1> QED
    BY <1>8, <1>10, <1>13, <1>14 DEF e, h, o, q

(* It moves from a header to the next, and stays where the name is found. *)
LEMMA CpioStep == CpioInv /\ [Cpio!Next]_(Cpio!vars) => CpioInv'
  <1> SUFFICES ASSUME CpioInv, [Cpio!Next]_(Cpio!vars) PROVE CpioInv'
    OBVIOUS
  <1>1. PICK k \in 1 .. (Len(archive) + 1) : Standing(k)
    BY DEF CpioInv
  <1>2. UNCHANGED <<archive, contents, size>>
    BY DEF Cpio!Next, Cpio!Find, Cpio!Skip, Cpio!vars
  <1>3. archive \in Archives /\ Len(archive) \in Nat
    BY CpioConstants DEF CpioInv
  <1>4. CASE Cpio!Find
    <2>1. k \in 1 .. Len(archive) /\ contents[p] = archive[k]
      BY <1>1, <1>4, ReadsEntry DEF Cpio!Find, Cpio!Scanning
    <2>2. found' = [start |-> Cpio!DataOf(archive[k]), filesize |-> archive[k].filesize] /\ p' = p
      BY <1>4, <2>1 DEF Cpio!Find
    <2>3. found' = [start |-> p + Cpio!Padded(Cpio!HeaderSize + Cpio!Namesize(archive[k])),
                    filesize |-> archive[k].filesize]
      BY <1>1, <1>3, <2>1, <2>2, WalkAgrees DEF Standing
    <2>4. Cpio!InBounds
      BY <1>4 DEF Cpio!Find, Cpio!Scanning, Cpio!IsHeader
    <2>5. Cpio!InBounds' /\ k <= Len(archive')
      BY <1>2, <2>1, <2>2, <2>4 DEF Cpio!InBounds
    <2>6. Cpio!IsEntry(k)'
      BY <1>1, <1>2, <2>3 DEF Standing, Cpio!IsEntry
    <2>7. Standing(k)'
      BY <1>1, <1>2, <2>2, <2>5, <2>6 DEF Standing
    <2> QED
      BY <1>2, <2>7 DEF CpioInv
  <1>5. CASE Cpio!Skip
    <2>1. k \in 1 .. Len(archive) /\ contents[p] = archive[k]
      BY <1>1, <1>5, ReadsEntry DEF Cpio!Skip, Cpio!Scanning
    <2>2. /\ found' = Cpio!None /\ ~Cpio!Matches(archive[k])
          /\ p' = Cpio!AlignUp(Cpio!DataOf(archive[k]) + archive[k].filesize)
      BY <1>5, <2>1 DEF Cpio!Skip, Cpio!Scanning
    <2>3. archive[k].name # Filename
      <3>1. SUFFICES ASSUME archive[k].name = Filename PROVE Cpio!Matches(archive[k])
        BY <2>2
      <3>2. Len(archive[k].name) \in Nat
        BY <1>3, <2>1, CpioConstants
      <3> QED
        BY <3>1, <3>2 DEF Cpio!Matches, Cpio!IsPrefix
    <2>4. p' = Cpio!Offset(archive, k + 1) /\ p' % 4 = 0
      BY <1>1, <1>3, <2>1, <2>2, WalkAgrees DEF Standing
    <2>5. k + 1 \in 1 .. (Len(archive) + 1)
      BY <1>3, <2>1
    <2>6. \A j \in 1 .. ((k + 1) - 1) : archive[j].name # Filename
      <3>1. \A j \in 1 .. ((k + 1) - 1) : j = k \/ j \in 1 .. (k - 1)
        BY <2>5
      <3> QED
        BY <1>1, <2>3, <3>1 DEF Standing
    <2>7. Standing(k + 1)'
      BY <1>2, <2>2, <2>4, <2>6 DEF Standing
    <2> QED
      BY <1>2, <2>5, <2>7 DEF CpioInv
  <1>6. CASE UNCHANGED Cpio!vars
    <2>1. Standing(k)'
      BY <1>1, <1>6 DEF Standing, Cpio!vars, Cpio!InBounds, Cpio!IsEntry
    <2> QED
      BY <1>2, <2>1 DEF CpioInv
  <1> QED
    BY <1>4, <1>5, <1>6 DEF Cpio!Next

(* So the answer is right. *)
LEMMA CpioRight == CpioInv => Cpio!InStep /\ Cpio!FoundIsEntry /\ Cpio!PresentIsFound
  <1> SUFFICES ASSUME CpioInv
               PROVE  Cpio!InStep /\ Cpio!FoundIsEntry /\ Cpio!PresentIsFound
    OBVIOUS
  <1>1. PICK k \in 1 .. (Len(archive) + 1) : Standing(k)
    BY DEF CpioInv
  <1>2. archive \in Archives /\ Len(archive) \in Nat /\ DOMAIN archive = 1 .. Len(archive)
    BY CpioConstants DEF CpioInv
  <1>3. Cpio!InStep
    BY <1>1 DEF Standing, Cpio!InStep
  <1>4. ASSUME found # Cpio!None PROVE k \in Cpio!Visible /\ Cpio!IsEntry(k)
    <2>1. k \in DOMAIN archive /\ Cpio!IsEntry(k) /\ p + Cpio!HeaderSize <= size
      BY <1>1, <1>2, <1>4 DEF Standing, Cpio!InBounds
    <2> QED
      BY <1>1, <2>1 DEF Standing, Cpio!Visible
  <1>5. ASSUME found = Cpio!None, ~Cpio!IsHeader, NEW j \in Cpio!Visible, archive[j].name = Filename
        PROVE  FALSE
    <2>1. j \in 1 .. Len(archive) /\ Cpio!Offset(archive, j) + Cpio!HeaderSize <= size
      BY <1>2, <1>5 DEF Cpio!Visible
    <2>2. k <= j
      BY <1>1, <1>2, <1>5, <2>1 DEF Standing
    <2>3. k \in 1 .. Len(archive) /\ j \in 1 .. (Len(archive) + 1)
      BY <1>2, <2>1, <2>2
    <2>4. Cpio!Offset(archive, k) \in Nat /\ Cpio!Offset(archive, j) \in Nat
      BY <1>2, <2>3, OffsetsGrow
    <2>5. k = j \/ Cpio!Offset(archive, k) < Cpio!Offset(archive, j)
      BY <1>2, <2>2, <2>3, OffsetsGrow
    <2>6. Cpio!Offset(archive, k) <= Cpio!Offset(archive, j)
      BY <2>4, <2>5
    <2>7. size \in Int
      BY DEF CpioInv
    <2>8. p + Cpio!HeaderSize <= size
      BY <1>1, <2>1, <2>4, <2>6, <2>7 DEF Standing, Cpio!HeaderSize
    <2>9. p \in DOMAIN contents
      BY <1>1, <2>3, ReadsEntry
    <2> QED
      BY <1>5, <2>8, <2>9 DEF Cpio!IsHeader, Cpio!InBounds
  <1> QED
    BY <1>3, <1>4, <1>5 DEF Cpio!FoundIsEntry, Cpio!PresentIsFound

(* A step of Packages is one of the search, or leaves it alone. *)
LEMMA CpioPart == (Is("cpio") => CpioInv) /\ [Next]_vars => (Is("cpio") => CpioInv)'
  <1> SUFFICES ASSUME Is("cpio") => CpioInv, [Next]_vars, Is("cpio")' PROVE CpioInv'
    OBVIOUS
  <1>1. part' = part
    BY DEF Next, vars
  <1>2. Is("cpio")
    BY <1>1 DEF Is
  <1>3. [Cpio!Next]_(Cpio!vars)
    BY <1>2 DEF Next, vars, Is, cpioVars, Cpio!vars
  <1> QED
    BY <1>2, <1>3, CpioStep

(* For every archive, name and length of what was read: the walk stays on the
   headers, its answer is an entry's own data, and a file of the name sought
   whose header was read whole is not passed by (minc.h, find_cpio_file).  *)
THEOREM FilesAreFound == Spec => []EntryFound
  <1>1. Init => (Is("cpio") => CpioInv)
    BY CpioBegins DEF Init, Is
  <1>2. (Is("cpio") => CpioInv) => EntryFound
    BY CpioRight DEF EntryFound
  <1> QED
    BY <1>1, <1>2, CpioPart, PTL DEF Spec

-----------------------------------------------------------------------------
(* The compressor. *)
LEMMA DeflateConstants ==
  /\ DictSize \in Nat \ {0} /\ MaxMatch \in Nat /\ Tdefl!MinMatch = 3
  /\ Tdefl!MinMatch <= MaxMatch /\ MaxMatch <= DictSize
  /\ PosSpan \in Nat \ {0} /\ PosSpan % DictSize = 0
  /\ Offers \subseteq Nat /\ CodeRooms \subseteq Nat
  /\ LzCodes \in Nat \ {0} /\ OutBufSize \in Nat /\ LzCodes + 10 <= OutBufSize
  BY PackagesAssumption DEF Tdefl!DeflateAssumption, Tdefl!MinMatch

-----------------------------------------------------------------------------
(* Positions and the cells of the dictionary. *)
LEMMA Quotient ==
  ASSUME NEW n \in Nat \ {0}, NEW i \in Int
  PROVE  i % n \in 0 .. n - 1 /\ i \div n \in Int /\ i = (i \div n) * n + (i % n)
  OBVIOUS

(* Division is unique. *)
LEMMA SameRemainder ==
  ASSUME NEW n \in Nat \ {0}, NEW i \in Int, NEW q \in Int, NEW rem \in 0 .. n - 1, i = q * n + rem
  PROVE  i % n = rem
  OBVIOUS

(* A position has a cell of the dictionary. *)
LEMMA Cells ==
  ASSUME NEW i \in Int
  PROVE  Tdefl!Cell(i) \in 0 .. DictSize - 1
  BY DeflateConstants, Quotient DEF Tdefl!Cell

(* Positions less than DictSize apart have cells of their own. *)
LEMMA CellsApart ==
  ASSUME NEW i \in Int, NEW j \in Int, i < j, j < i + DictSize
  PROVE  Tdefl!Cell(i) # Tdefl!Cell(j)
  <1> DEFINE n == DictSize
             q == i \div n
             t == j \div n
  <1>1. n \in Nat \ {0}
    BY DeflateConstants
  <1> SUFFICES ASSUME i % n = j % n PROVE FALSE
    BY DEF Tdefl!Cell
  <1>2. q \in Int /\ t \in Int /\ i = q * n + (i % n) /\ j = t * n + (i % n) /\ i % n \in Int
    BY <1>1, Quotient
  <1>3. j - i = (t - q) * n
    <2> HIDE DEF q, t, n
    <2> QED
      BY <1>1, <1>2
  <1>4. t - q \in Int /\ 0 < (t - q) * n /\ (t - q) * n < n
    BY <1>1, <1>2, <1>3
  <1>5. ASSUME NEW u \in Int, 0 < u * n, u * n < n PROVE FALSE
    <2> HIDE DEF n
    <2>1. u <= 0 \/ u >= 1
      OBVIOUS
    <2>2. CASE u <= 0
      BY <1>1, <1>5, <2>2
    <2>3. CASE u >= 1
      BY <1>1, <1>5, <2>3
    <2> QED
      BY <2>1, <2>2, <2>3
  <1> QED
    BY <1>4, <1>5

(* Consecutive cells hold consecutive positions, up to the wrap. *)
LEMMA CellsAlong ==
  ASSUME NEW i \in Int, NEW k \in 0 .. DictSize - 1
  PROVE  Tdefl!Cell(i) + k = Tdefl!Cell(i + k) \/ Tdefl!Cell(i) + k = Tdefl!Cell(i + k) + DictSize
  <1> DEFINE n == DictSize
             q == i \div n
             rem == i % n
  <1>1. n \in Nat \ {0} /\ k \in 0 .. n - 1
    BY DeflateConstants
  <1>2. q \in Int /\ rem \in 0 .. n - 1 /\ i = q * n + rem
    BY <1>1, Quotient
  <1> HIDE DEF q, rem
  <1>3. CASE rem + k < n
    <2>1. i + k = q * n + (rem + k) /\ rem + k \in 0 .. n - 1 /\ i + k \in Int
      <3> HIDE DEF n
      <3> QED
        BY <1>1, <1>2, <1>3
    <2>2. (i + k) % n = rem + k
      <3> DEFINE m == i + k
                 s == rem + k
      <3>1. m \in Int /\ s \in 0 .. n - 1 /\ m = q * n + s
        BY <2>1
      <3> HIDE DEF m, s, n
      <3>2. m % n = s
        BY <1>1, <1>2, <3>1, SameRemainder
      <3> QED
        BY <3>2 DEF m, s
    <2> QED
      BY <2>2 DEF Tdefl!Cell, rem
  <1>4. CASE rem + k >= n
    <2>1. i + k = (q + 1) * n + (rem + k - n) /\ rem + k - n \in 0 .. n - 1 /\ i + k \in Int
          /\ q + 1 \in Int
      <3> HIDE DEF n
      <3> QED
        BY <1>1, <1>2, <1>4
    <2>2. (i + k) % n = rem + k - n
      <3> DEFINE m == i + k
                 s == rem + k - n
                 t == q + 1
      <3>1. m \in Int /\ s \in 0 .. n - 1 /\ t \in Int /\ m = t * n + s
        BY <2>1
      <3> HIDE DEF m, s, n, t
      <3>2. m % n = s
        BY <1>1, <3>1, SameRemainder
      <3> QED
        BY <3>2 DEF m, s
    <2>3. (rem + k - n) + n = rem + k
      BY <1>1, <1>2
    <2> QED
      BY <2>2, <2>3 DEF Tdefl!Cell, rem
  <1> QED
    BY <1>1, <1>2, <1>3, <1>4

(* Positions are known modulo PosSpan, and that is enough for their cells. *)
LEMMA ChainCell ==
  ASSUME NEW i \in Int, NEW prev \in Int
  PROVE  Tdefl!Cell(prev) = Tdefl!Cell(i - ((i - prev) % PosSpan))
  <1> DEFINE n == DictSize
             s == PosSpan
             m == s \div n
             e == (i - prev) % s
             j == (i - prev) \div s
             q == prev \div n
             rem == prev % n
  <1>1. n \in Nat \ {0} /\ s \in Nat \ {0} /\ s % n = 0
    BY DeflateConstants
  <1>2. m \in Int /\ s = m * n
    BY <1>1, Quotient
  <1>3. j \in Int /\ e \in Int /\ i - prev = j * s + e
    BY <1>1, Quotient
  <1>4. q \in Int /\ rem \in 0 .. n - 1 /\ prev = q * n + rem
    BY <1>1, Quotient
  <1> HIDE DEF n, s, m, e, j, q, rem
  <1>5. i - e = (q + j * m) * n + rem /\ q + j * m \in Int /\ i - e \in Int
    <2>1. i - e = prev + j * s
      BY <1>1, <1>3, <1>4
    <2>2. j * s = (j * m) * n /\ j * m \in Int
      BY <1>1, <1>2, <1>3
    <2> DEFINE x == j * m
    <2>3. x \in Int /\ i - e = q * n + rem + x * n
      BY <1>4, <2>1, <2>2
    <2> HIDE DEF x
    <2>4. q * n + rem + x * n = (q + x) * n + rem
      BY <1>1, <1>4, <2>3
    <2> QED
      BY <1>3, <1>4, <2>3, <2>4 DEF x
  <1>6. (i - e) % n = rem
    <2> DEFINE t == q + j * m
               u == i - e
    <2>1. t \in Int /\ u \in Int /\ u = t * n + rem
      BY <1>5
    <2> HIDE DEF t, u
    <2>2. u % n = rem
      BY <1>1, <1>4, <2>1, SameRemainder
    <2> QED
      BY <2>2 DEF u
  <1> QED
    BY <1>6 DEF Tdefl!Cell, n, e, rem, s

-----------------------------------------------------------------------------
(* The dictionary. *)
Names == {"dict", "hash", "next", "pos", "ahead", "size", "saved", "codes", "total", "dictPos",
          "summed", "ofs", "remaining", "finished", "wants", "last"}
DictCells == 0 .. DictSize + MaxMatch - 2
DictOK(dict) ==
  /\ DOMAIN dict = DictCells
  /\ \A k \in 0 .. MaxMatch - 2 : dict[DictSize + k] = dict[k]
ChainsOK(e) ==
  /\ DOMAIN e.next = 0 .. DictSize - 1
  /\ \A k \in 0 .. DictSize - 1 : e.next[k] \in 0 .. PosSpan - 1
  /\ \A key \in DOMAIN e.hash : e.hash[key] \in 0 .. PosSpan - 1
(* The dictionary has the bytes from position low up to top, as far as they
   are the last DictSize ones.                                            *)
Holds(dict, low, top) ==
  \A q \in Int : low <= q /\ top - DictSize <= q /\ q < top => dict[Tdefl!Cell(q)] = source[q + 1]
Filling(e) ==
  /\ DOMAIN e = Names /\ DictOK(e.dict) /\ ChainsOK(e)
  /\ e.pos \in Nat /\ e.ahead \in Nat /\ e.size \in Nat
  /\ Holds(e.dict, e.pos - e.size, e.pos + e.ahead)
(* What of a compressor does not change while bytes enter. *)
Parse(e) == <<e.pos, e.size, e.saved, e.codes, e.total, e.dictPos, e.summed, e.ofs, e.remaining,
              e.finished, e.wants, e.last>>

(* A byte that enters overwrites the oldest only. *)
LEMMA EnterKeeps ==
  ASSUME NEW e, Filling(e), NEW c, c = source[e.pos + e.ahead + 1]
  PROVE  /\ Filling(Tdefl!Enter(e, c)) /\ Tdefl!Enter(e, c).ahead = e.ahead + 1
         /\ Parse(Tdefl!Enter(e, c)) = Parse(e)
  <1> DEFINE i == Tdefl!Cell(e.pos + e.ahead)
             t == e.pos + e.ahead
             dict == [k \in DOMAIN e.dict |-> IF k \in Tdefl!Mirrored(i) THEN c ELSE e.dict[k]]
             prev == e.pos + e.ahead - 2
             key == <<dict[Tdefl!Cell(prev)], dict[Tdefl!Cell(prev + 1)], c>>
             filled == [e EXCEPT !.dict = dict, !.ahead = @ + 1]
             value == IF key \in DOMAIN e.hash THEN e.hash[key] ELSE 0
             next == [e.next EXCEPT ![Tdefl!Cell(prev)] = value]
             hash == [k \in DOMAIN e.hash \cup {key} |-> IF k = key THEN prev % PosSpan ELSE e.hash[k]]
             chained == [e EXCEPT !.dict = dict, !.ahead = @ + 1, !.next = next, !.hash = hash]
  <1>1. /\ DOMAIN e = Names /\ DictOK(e.dict) /\ ChainsOK(e)
        /\ e.pos \in Nat /\ e.ahead \in Nat /\ e.size \in Nat
        /\ Holds(e.dict, e.pos - e.size, t)
    BY DEF Filling
  <1>2. Tdefl!Enter(e, c) = filled \/ Tdefl!Enter(e, c) = chained
    BY <1>1 DEF Tdefl!Enter, Names
  <1>3. i \in 0 .. DictSize - 1 /\ t \in Int /\ prev \in Int
    BY <1>1, Cells
  <1>4. DictOK(dict)
    <2>1. DOMAIN dict = DOMAIN e.dict /\ DOMAIN e.dict = DictCells
      BY <1>1 DEF DictOK
    <2>2. ASSUME NEW k \in 0 .. MaxMatch - 2 PROVE dict[DictSize + k] = dict[k]
      <3> HIDE DEF i
      <3>1. k \in DictCells /\ DictSize + k \in DictCells
        BY DeflateConstants DEF DictCells
      <3>2. k \in Tdefl!Mirrored(i) <=> DictSize + k \in Tdefl!Mirrored(i)
        BY <1>3, DeflateConstants DEF Tdefl!Mirrored
      <3>3. e.dict[DictSize + k] = e.dict[k]
        BY <1>1 DEF DictOK
      <3> QED
        BY <2>1, <3>1, <3>2, <3>3
    <2> QED
      BY <2>1, <2>2 DEF DictOK
  <1>5. Holds(dict, e.pos - e.size, t + 1)
    <2> DEFINE m == dict
               low == e.pos - e.size
               top == t + 1
    <2>0. top \in Int /\ low \in Int
      BY <1>1
    <2>1. ASSUME NEW q \in Int, low <= q, top - DictSize <= q, q < top
          PROVE  m[Tdefl!Cell(q)] = source[q + 1]
      <3>2. Tdefl!Cell(q) \in 0 .. DictSize - 1 /\ Tdefl!Cell(q) \in DOMAIN e.dict
        BY <1>1, <2>1, Cells, DeflateConstants DEF DictOK, DictCells
      <3>3. CASE q = t
        BY <3>2, <3>3 DEF Tdefl!Mirrored
      <3>4. CASE q # t
        <4>1. q < t /\ t < q + DictSize /\ t - DictSize <= q
          BY <1>3, <2>1, <3>4, DeflateConstants
        <4>2. Tdefl!Cell(q) # i
          BY <1>3, <4>1, CellsApart
        <4>3. Tdefl!Cell(q) \notin Tdefl!Mirrored(i)
          <5> HIDE DEF i
          <5> QED
            BY <1>3, <3>2, <4>2, DeflateConstants DEF Tdefl!Mirrored
        <4>4. e.dict[Tdefl!Cell(q)] = source[q + 1]
          BY <1>1, <2>1, <4>1 DEF Holds
        <4> QED
          BY <3>2, <4>3, <4>4
      <3> QED
        BY <3>3, <3>4
    <2> HIDE DEF m, low, top
    <2>2. Holds(m, low, top)
      BY <2>1 DEF Holds
    <2> QED
      BY <2>2 DEF m, low, top
  <1>6. Tdefl!Cell(prev) \in 0 .. DictSize - 1 /\ prev % PosSpan \in 0 .. PosSpan - 1
    BY <1>3, Cells, Quotient, DeflateConstants
  <1> HIDE DEF dict, prev, key, t, i
  <1>7. value \in 0 .. PosSpan - 1
    BY <1>1, DeflateConstants DEF ChainsOK
  <1>8. /\ DOMAIN next = 0 .. DictSize - 1 
        /\ \A k \in 0 .. DictSize - 1 : next[k] \in 0 .. PosSpan - 1
        /\ \A k \in DOMAIN hash : hash[k] \in 0 .. PosSpan - 1
    <2> HIDE DEF value
    <2> QED
      BY <1>1, <1>6, <1>7 DEF ChainsOK
  <1>9. /\ filled.dict = dict /\ filled.ahead = e.ahead + 1 /\ filled.next = e.next
        /\ filled.hash = e.hash /\ DOMAIN filled = Names /\ Parse(filled) = Parse(e)
    BY <1>1 DEF Names, Parse
  <1> HIDE DEF value, next, hash
  <1>10. /\ chained.dict = dict /\ chained.ahead = e.ahead + 1 /\ chained.next = next
         /\ chained.hash = hash /\ DOMAIN chained = Names /\ Parse(chained) = Parse(e)
    BY <1>1 DEF Names, Parse
  <1> HIDE DEF filled, chained
  <1>11. ASSUME NEW x, x.dict = dict, x.ahead = e.ahead + 1, ChainsOK(x), DOMAIN x = Names,
                Parse(x) = Parse(e)
         PROVE  Filling(x)
    <2>1. x.pos = e.pos /\ x.size = e.size
      BY <1>11 DEF Parse
    <2>2. x.pos + x.ahead = t + 1
      BY <1>1, <1>11, <2>1 DEF t
    <2> QED
      BY <1>1, <1>4, <1>5, <1>11, <2>1, <2>2 DEF Filling
  <1>12. ChainsOK(filled) /\ ChainsOK(chained)
    BY <1>1, <1>8, <1>9, <1>10 DEF ChainsOK
  <1> QED
    BY <1>2, <1>9, <1>10, <1>11, <1>12

IsEntering(f, n) ==
  f = [k \in 0 .. n |-> IF k = 0 THEN d ELSE Tdefl!Enter(f[k - 1], source[taken + k])]

(* The recursive function of Filled exists. *)
LEMMA EnteringExists == ASSUME NEW n \in Nat PROVE \E f : IsEntering(f, n)
  <1> DEFINE S == {m \in Nat : \E f : IsEntering(f, m)}
  <1>1. 0 \in S
    <2>1. IsEntering([k \in {0} |-> d], 0)
      BY DEF IsEntering
    <2> QED
      BY <2>1
  <1>2. ASSUME NEW m \in Nat, m \in S PROVE m + 1 \in S
    <2>1. PICK f : IsEntering(f, m)
      BY <1>2
    <2> DEFINE g == [k \in 0 .. m + 1 |-> IF k = m + 1 THEN Tdefl!Enter(f[m], source[taken + (m + 1)]) ELSE f[k]]
    <2>2. \A k \in 0 .. m : f[k] = IF k = 0 THEN d ELSE Tdefl!Enter(f[k - 1], source[taken + k])
      BY <2>1 DEF IsEntering
    <2>3. \A k \in 0 .. m + 1 : g[k] = IF k = 0 THEN d ELSE Tdefl!Enter(g[k - 1], source[taken + k])
      <3> TAKE k \in 0 .. m + 1
      <3>1. CASE k = m + 1
        BY <3>1
      <3>2. CASE k \in 0 .. m
        BY <3>2, <2>2
      <3> QED
        BY <3>1, <3>2
    <2>4. g = [k \in 0 .. m + 1 |-> g[k]]
      OBVIOUS
    <2> HIDE DEF g
    <2>5. IsEntering(g, m + 1)
      BY <2>3, <2>4 DEF IsEntering
    <2> QED
      BY <2>5
  <1>3. Nat \subseteq S
    <2> HIDE DEF S
    <2> QED
      BY <1>1, <1>2, AllNaturals
  <1> QED
    BY <1>3

(* Filled is its last value. *)
LEMMA FilledIs ==
  ASSUME Tdefl!Moving \in Nat
  PROVE  \E f : IsEntering(f, Tdefl!Moving)
         /\ Tdefl!Filled = [f[Tdefl!Moving] EXCEPT !.size = Tdefl!Kept(f[Tdefl!Moving])]
  <1> DEFINE c == CHOOSE f : IsEntering(f, Tdefl!Moving)
  <1>1. IsEntering(c, Tdefl!Moving)
    BY EnteringExists
  <1>2. Tdefl!Filled = [c[Tdefl!Moving] EXCEPT !.size = Tdefl!Kept(c[Tdefl!Moving])]
    BY DEF Tdefl!Filled, IsEntering
  <1> QED
    BY <1>1, <1>2

Window(e) ==
  /\ Filling(e) /\ e.size <= e.pos /\ e.size + e.ahead <= DictSize /\ e.ahead <= MaxMatch
(* What does not change when as much is entered as fits. *)
Untouched(e) == <<e.pos, e.saved, e.codes, e.total, e.dictPos, e.summed, e.ofs, e.remaining,
                  e.finished, e.wants, e.last>>

(* Input enters, and what it overwrites leaves the window. *)
LEMMA FilledKeeps ==
  ASSUME Window(d), d.pos + d.ahead = taken, Tdefl!Ahead \in Nat
  PROVE  /\ Window(Tdefl!Filled) /\ Tdefl!Filled.ahead = d.ahead + Tdefl!Moving
         /\ Tdefl!Moving \in Nat
         /\ Tdefl!Moving <= Tdefl!Ahead /\ Tdefl!Filled.size <= d.size
         /\ Untouched(Tdefl!Filled) = Untouched(d)
  <1>1. /\ Filling(d) /\ d.pos \in Nat /\ d.ahead \in Nat /\ d.size \in Nat
        /\ d.size <= d.pos /\ d.ahead <= MaxMatch
    BY DEF Window, Filling
  <1>2. Tdefl!Moving \in Nat /\ Tdefl!Moving <= Tdefl!Ahead /\ d.ahead + Tdefl!Moving <= MaxMatch
    BY <1>1, DeflateConstants DEF Tdefl!Moving, Tdefl!Smaller
  <1>3. PICK f : IsEntering(f, Tdefl!Moving)
        /\ Tdefl!Filled = [f[Tdefl!Moving] EXCEPT !.size = Tdefl!Kept(f[Tdefl!Moving])]
    BY <1>2, FilledIs
  <1> DEFINE n == Tdefl!Moving
             Good(k) == k <= n => Filling(f[k]) /\ f[k].ahead = d.ahead + k
               /\ Parse(f[k]) = Parse(d)
             S == {k \in Nat : Good(k)}
  <1>4. f[0] = d /\ \A k \in 1 .. n : f[k] = Tdefl!Enter(f[k - 1], source[taken + k])
    BY <1>2, <1>3 DEF IsEntering
  <1>5. 0 \in S
    BY <1>1, <1>4
  <1>6. ASSUME NEW k \in Nat, k \in S PROVE k + 1 \in S
    <2>1. SUFFICES ASSUME k + 1 <= n PROVE Good(k + 1)
      OBVIOUS
    <2> DEFINE c == source[taken + (k + 1)]
    <2>2. Filling(f[k]) /\ f[k].ahead = d.ahead + k /\ Parse(f[k]) = Parse(d)
      BY <1>2, <1>6, <2>1
    <2>3. f[k + 1] = Tdefl!Enter(f[k], c)
      BY <1>2, <1>4, <2>1
    <2>4. f[k].pos = d.pos
      BY <2>2 DEF Parse
    <2>5. c = source[f[k].pos + f[k].ahead + 1]
      BY <1>1, <2>2, <2>4
    <2> HIDE DEF c
    <2>6. /\ Filling(Tdefl!Enter(f[k], c)) /\ Tdefl!Enter(f[k], c).ahead = f[k].ahead + 1
          /\ Parse(Tdefl!Enter(f[k], c)) = Parse(f[k])
      BY <2>2, <2>5, EnterKeeps
    <2> QED
      BY <1>1, <2>2, <2>3, <2>6
  <1>7. Nat \subseteq S
    <2> HIDE DEF S
    <2> QED
      BY <1>5, <1>6, AllNaturals
  <1> DEFINE e == f[n]
  <1>8. Filling(e) /\ e.ahead = d.ahead + n /\ Parse(e) = Parse(d)
    BY <1>2, <1>7
  <1> HIDE DEF e, Good, S
  <1>9. Tdefl!Filled = [e EXCEPT !.size = Tdefl!Kept(e)]
        /\ Tdefl!Kept(e) = Tdefl!Smaller(DictSize - e.ahead, e.size)
    BY <1>3 DEF e, Tdefl!Kept
  <1>10. /\ e.size = d.size /\ e.pos = d.pos /\ DOMAIN e = Names
    BY <1>8 DEF Parse, Filling
  <1> DEFINE kept == Tdefl!Kept(e)
  <1>11. kept \in Nat /\ kept <= d.size /\ kept + e.ahead <= DictSize
    BY <1>1, <1>2, <1>8, <1>9, <1>10, DeflateConstants DEF Tdefl!Smaller
  <1> HIDE DEF kept, n
  <1>12. /\ DOMAIN Tdefl!Filled = Names /\ Tdefl!Filled.dict = e.dict /\ Tdefl!Filled.next = e.next
         /\ Tdefl!Filled.hash = e.hash /\ Tdefl!Filled.pos = d.pos /\ Tdefl!Filled.ahead = e.ahead
         /\ Tdefl!Filled.size = kept /\ Untouched(Tdefl!Filled) = Untouched(e)
    BY <1>9, <1>10 DEF Names, Untouched, kept
  <1>13. Untouched(e) = Untouched(d)
    BY <1>8 DEF Parse, Untouched
  <1>14. Holds(e.dict, d.pos - kept, d.pos + e.ahead)
    <2>1. Holds(e.dict, d.pos - d.size, d.pos + e.ahead)
      BY <1>8, <1>10 DEF Filling
    <2>2. d.pos - d.size <= d.pos - kept /\ d.pos - d.size \in Int /\ d.pos - kept \in Int
      BY <1>1, <1>11
    <2> DEFINE low == d.pos - d.size
               new == d.pos - kept
               top == d.pos + e.ahead
    <2>3. low <= new /\ low \in Int /\ new \in Int /\ Holds(e.dict, low, top)
      BY <2>1, <2>2
    <2> HIDE DEF low, new, top
    <2>4. Holds(e.dict, new, top)
      BY <2>3 DEF Holds
    <2> QED
      BY <2>4 DEF new, top
  <1>15. Filling(Tdefl!Filled)
    BY <1>1, <1>2, <1>8, <1>11, <1>12, <1>14 DEF Filling, ChainsOK, n
  <1> QED
    BY <1>1, <1>2, <1>8, <1>11, <1>12, <1>13, <1>15 DEF Window, n

-----------------------------------------------------------------------------
(* Matches. *)

(* A byte read at a cell plus an offset is that of the text. *)
LEMMA DictAt ==
  ASSUME NEW e, Window(e), NEW q \in Int, e.pos - e.size <= q, NEW k \in 0 .. MaxMatch - 1,
         q + k < e.pos + e.ahead
  PROVE  e.dict[Tdefl!Cell(q) + k] = source[q + k + 1]
  <1> DEFINE j == q + k
             i == Tdefl!Cell(q)
             c == Tdefl!Cell(j)
             dict == e.dict
  <1>1. /\ e.pos \in Nat /\ e.ahead \in Nat /\ e.size \in Nat /\ DictOK(dict)
        /\ Holds(dict, e.pos - e.size, e.pos + e.ahead) /\ e.size + e.ahead <= DictSize
    BY DEF Window, Filling
  <1>2. /\ j \in Int /\ i \in 0 .. DictSize - 1 /\ c \in 0 .. DictSize - 1
        /\ k \in 0 .. DictSize - 1
    BY Cells, DeflateConstants
  <1>3. i + k = c \/ i + k = c + DictSize
    BY <1>2, CellsAlong
  <1>4. dict[c] = source[j + 1]
    <2> DEFINE low == e.pos - e.size
               top == e.pos + e.ahead
    <2>1. low <= j /\ top - DictSize <= j /\ j < top
      BY <1>1, <1>2, DeflateConstants
    <2>2. Holds(dict, low, top) /\ c = Tdefl!Cell(j) /\ j \in Int
      BY <1>1, <1>2
    <2> HIDE DEF low, top, dict, c, j
    <2> QED
      BY <2>1, <2>2 DEF Holds
  <1>5. CASE i + k = c
    BY <1>4, <1>5
  <1>6. CASE i + k = c + DictSize
    <2> HIDE DEF i, c, dict, j
    <2>1. c \in 0 .. MaxMatch - 2
      BY <1>2, <1>6, DeflateConstants
    <2>2. dict[DictSize + c] = dict[c]
      BY <1>1, <2>1 DEF DictOK
    <2>3. i + k = DictSize + c
      BY <1>2, <1>6, DeflateConstants
    <2> QED
      BY <1>4, <2>2, <2>3 DEF i, dict, j
  <1> QED
    BY <1>3, <1>5, <1>6

(* The text at a position repeats what is dist before it. *)
Repeats(at_, len, dist) == \A k \in 0 .. len - 1 : source[at_ - dist + k + 1] = source[at_ + k + 1]

(* Bytes that compare the same are a repeat of the text. *)
LEMMA SameBytesAre ==
  ASSUME NEW e, Window(e), NEW dist \in 1 .. e.size
  PROVE  /\ Tdefl!SameBytes(e, Tdefl!Cell(e.pos - dist)) \in 0 .. e.ahead
         /\ Repeats(e.pos, Tdefl!SameBytes(e, Tdefl!Cell(e.pos - dist)), dist)
  <1> DEFINE prev == Tdefl!Cell(e.pos - dist)
             from == Tdefl!Cell(e.pos)
             same == {n \in 1 .. e.ahead : \A k \in 0 .. n - 1 : e.dict[prev + k] = e.dict[from + k]}
             len == Tdefl!Max(same \cup {0})
  <1>1. e.pos \in Nat /\ e.ahead \in Nat /\ e.size \in Nat /\ e.ahead <= MaxMatch
    BY DEF Window, Filling
  <1>2. Tdefl!SameBytes(e, prev) = len
    BY DEF Tdefl!SameBytes
  <1>3. len \in same \cup {0}
    <2> DEFINE S == same \cup {0}
    <2>1. S \in SUBSET Nat /\ S # {} /\ \A n \in S : n <= e.ahead
      BY <1>1
    <2> HIDE DEF S
    <2>2. Tdefl!Max(S) \in S
      BY <1>1, <2>1, MaxIsGreatest DEF Max, Tdefl!Max
    <2> QED
      BY <2>2 DEF S
  <1>4. ASSUME NEW k \in 0 .. len - 1
        PROVE  source[e.pos - dist + k + 1] = source[e.pos + k + 1]
    <2>0. len \in same /\ len \in 1 .. e.ahead
      <3> HIDE DEF len
      <3> QED
        BY <1>3, <1>4
    <2>1. e.dict[prev + k] = e.dict[from + k] /\ k \in 0 .. MaxMatch - 1 /\ k < e.ahead
      <3> HIDE DEF len, prev, from
      <3> QED
        BY <1>1, <1>4, <2>0, DeflateConstants
    <2> HIDE DEF len
    <2> DEFINE q == e.pos - dist
    <2>2. q \in Int /\ e.pos - e.size <= q /\ q + k < e.pos + e.ahead
      BY <1>1, <2>1
    <2>3. e.dict[Tdefl!Cell(q) + k] = source[q + k + 1]
      <3> HIDE DEF q
      <3> QED
        BY <2>1, <2>2, DictAt
    <2>4. e.dict[from + k] = source[e.pos + k + 1]
      <3>1. e.pos \in Int /\ e.pos - e.size <= e.pos /\ e.pos + k < e.pos + e.ahead
        BY <1>1, <2>1
      <3> QED
        BY <2>1, <3>1, DictAt
    <2> QED
      BY <2>1, <2>3, <2>4
  <1> HIDE DEF len, same, prev
  <1>5. len \in 0 .. e.ahead
    BY <1>1, <1>3 DEF same
  <1>6. Repeats(e.pos, len, dist)
    BY <1>4 DEF Repeats
  <1> QED
    BY <1>2, <1>5, <1>6 DEF prev

(* A match that may be recorded: what it stands for is ahead. *)
Matches(e, len, dist) ==
  dist \in 1 .. e.size /\ len \in Tdefl!MinMatch .. e.ahead /\ Repeats(e.pos, len, dist)
SavedLen(e) == e.saved.len = 0 \/ (e.saved.len \in Nat /\ e.saved.len >= Tdefl!MinMatch)
Found(e, b) ==
  /\ DOMAIN b = {"cell", "dist", "more", "len"}
  /\ b.cell \in 0 .. DictSize - 1 /\ b.dist \in Nat /\ b.len \in Nat
  /\ Tdefl!Unmatched(e).len <= b.len
  /\ IF b.dist = 0 THEN b.len = Tdefl!Unmatched(e).len ELSE Matches(e, b.len, b.dist)

(* Probing begins with the match held back, or none. *)
LEMMA UnmatchedLen ==
  ASSUME NEW e, SavedLen(e)
  PROVE  Tdefl!Unmatched(e).len \in Nat /\ Tdefl!MinMatch - 1 <= Tdefl!Unmatched(e).len
  BY DEF SavedLen, Tdefl!Unmatched, Tdefl!MinMatch

(* One probe keeps what was found a match, or finds a longer one. *)
LEMMA FollowFinds ==
  ASSUME NEW e, Window(e), SavedLen(e), NEW b, Found(e, b)
  PROVE  Found(e, Tdefl!Follow(e, b))
  <1> DEFINE prev == e.next[b.cell]
             dist == (e.pos - prev) % PosSpan
             len == Tdefl!SameBytes(e, Tdefl!Cell(prev))
             stop == [b EXCEPT !.more = FALSE]
             longer == [b EXCEPT !.cell = Tdefl!Cell(prev), !.len = len, !.dist = dist]
             other == [b EXCEPT !.cell = Tdefl!Cell(prev)]
  <1>1. /\ DOMAIN b = {"cell", "dist", "more", "len"}
        /\ b.cell \in 0 .. DictSize - 1 /\ b.dist \in Nat /\ b.len \in Nat
        /\ Tdefl!Unmatched(e).len <= b.len
        /\ IF b.dist = 0 THEN b.len = Tdefl!Unmatched(e).len ELSE Matches(e, b.len, b.dist)
    BY DEF Found
  <1>2. Tdefl!Unmatched(e).len \in Nat /\ Tdefl!MinMatch - 1 <= Tdefl!Unmatched(e).len
    BY UnmatchedLen
  <1>3. e.pos \in Nat /\ e.ahead \in Nat /\ e.size \in Nat /\ prev \in 0 .. PosSpan - 1
    BY <1>1 DEF Window, Filling, ChainsOK
  <1>4. Tdefl!Cell(prev) \in 0 .. DictSize - 1 /\ dist \in Nat
    <2> DEFINE s == PosSpan
               i == e.pos - prev
    <2>1. prev \in Int /\ i \in Int /\ s \in Nat \ {0}
      BY <1>3, DeflateConstants
    <2> HIDE DEF prev, i, s
    <2>2. Tdefl!Cell(prev) \in 0 .. DictSize - 1
      BY <2>1, Cells
    <2>3. i % s \in Nat
      BY <2>1, Quotient
    <2> QED
      BY <2>2, <2>3 DEF i, s
  <1>5. Found(e, stop)
    BY <1>1 DEF Found
  <1>6. Found(e, other)
    <2> HIDE DEF prev
    <2> QED
      BY <1>1, <1>4 DEF Found
  <1>7. ASSUME dist # 0, ~(dist > e.size), len > b.len PROVE Found(e, longer)
    <2>1. dist \in 1 .. e.size
      BY <1>3, <1>4, <1>7
    <2>2. Tdefl!Cell(prev) = Tdefl!Cell(e.pos - dist)
      <3> DEFINE i == e.pos
      <3>1. prev \in Int /\ i \in Int
        BY <1>3, DeflateConstants
      <3> HIDE DEF prev, i
      <3>2. Tdefl!Cell(prev) = Tdefl!Cell(i - ((i - prev) % PosSpan))
        BY <3>1, ChainCell
      <3> QED
        BY <3>2 DEF i
    <2> DEFINE n == Tdefl!SameBytes(e, Tdefl!Cell(e.pos - dist))
    <2>3. n \in 0 .. e.ahead /\ Repeats(e.pos, n, dist)
      <3> HIDE DEF dist
      <3> QED
        BY <2>1, SameBytesAre
    <2>4. len = n
      BY <2>2
    <2> HIDE DEF n, len, dist, prev
    <2>5. len \in Tdefl!MinMatch .. e.ahead /\ Tdefl!Unmatched(e).len <= len /\ len \in Nat
      BY <1>1, <1>2, <1>3, <1>7, <2>3, <2>4 DEF Tdefl!MinMatch
    <2>6. Matches(e, len, dist)
      BY <2>1, <2>3, <2>4, <2>5 DEF Matches
    <2> QED
      BY <1>1, <1>4, <1>7, <2>5, <2>6 DEF Found
  <1>8. Tdefl!Follow(e, b) = stop \/ Tdefl!Follow(e, b) = other
        \/ (Tdefl!Follow(e, b) = longer /\ dist # 0 /\ ~(dist > e.size) /\ len > b.len)
    BY DEF Tdefl!Follow
  <1> QED
    BY <1>5, <1>6, <1>7, <1>8

IsProbing(e, f, n) == f = [k \in 0 .. n |-> IF k = 0 THEN Tdefl!Unmatched(e) ELSE Tdefl!Follow(e, f[k - 1])]

(* The recursive function of Probe exists. *)
LEMMA ProbingExists == ASSUME NEW e, NEW n \in Nat PROVE \E f : IsProbing(e, f, n)
  <1> DEFINE S == {m \in Nat : \E f : IsProbing(e, f, m)}
  <1>1. 0 \in S
    <2>1. IsProbing(e, [k \in {0} |-> Tdefl!Unmatched(e)], 0)
      BY DEF IsProbing
    <2> QED
      BY <2>1
  <1>2. ASSUME NEW m \in Nat, m \in S PROVE m + 1 \in S
    <2>1. PICK f : IsProbing(e, f, m)
      BY <1>2
    <2> DEFINE g == [k \in 0 .. m + 1 |-> IF k = m + 1 THEN Tdefl!Follow(e, f[m]) ELSE f[k]]
    <2>2. \A k \in 0 .. m : f[k] = IF k = 0 THEN Tdefl!Unmatched(e) ELSE Tdefl!Follow(e, f[k - 1])
      BY <2>1 DEF IsProbing
    <2>3. \A k \in 0 .. m + 1 : g[k] = IF k = 0 THEN Tdefl!Unmatched(e) ELSE Tdefl!Follow(e, g[k - 1])
      <3> TAKE k \in 0 .. m + 1
      <3>1. CASE k = m + 1
        BY <3>1
      <3>2. CASE k \in 0 .. m
        BY <3>2, <2>2
      <3> QED
        BY <3>1, <3>2
    <2>4. g = [k \in 0 .. m + 1 |-> g[k]]
      OBVIOUS
    <2> HIDE DEF g
    <2>5. IsProbing(e, g, m + 1)
      BY <2>3, <2>4 DEF IsProbing
    <2> QED
      BY <2>5
  <1>3. Nat \subseteq S
    <2> HIDE DEF S
    <2> QED
      BY <1>1, <1>2, AllNaturals
  <1> QED
    BY <1>3

(* Whatever the chains say, what is found is a match. *)
LEMMA ProbeFinds ==
  ASSUME NEW e, Window(e), SavedLen(e), mode.probes \in Nat
  PROVE  Found(e, Tdefl!Probe(e))
  <1> DEFINE n == mode.probes
             f == CHOOSE g : IsProbing(e, g, n)
             Good(k) == k <= n => Found(e, f[k])
             S == {k \in Nat : Good(k)}
  <1>1. IsProbing(e, f, n)
    BY ProbingExists
  <1>2. Tdefl!Probe(e) = f[n]
    BY DEF Tdefl!Probe, IsProbing
  <1> HIDE DEF f
  <1>3. f[0] = Tdefl!Unmatched(e) /\ \A k \in 1 .. n : f[k] = Tdefl!Follow(e, f[k - 1])
    BY <1>1 DEF IsProbing
  <1>4. Found(e, Tdefl!Unmatched(e))
    <2>1. e.pos \in Int
      BY DEF Window, Filling
    <2>2. Tdefl!Cell(e.pos) \in 0 .. DictSize - 1
      BY <2>1, Cells
    <2>3. Tdefl!Unmatched(e).len \in Nat
      BY UnmatchedLen
    <2> QED
      BY <2>2, <2>3 DEF Found, Tdefl!Unmatched
  <1>5. 0 \in S
    BY <1>3, <1>4
  <1>6. ASSUME NEW k \in Nat, k \in S PROVE k + 1 \in S
    <2>1. SUFFICES ASSUME k + 1 <= n PROVE Found(e, f[k + 1])
      OBVIOUS
    <2>2. Found(e, f[k]) /\ f[k + 1] = Tdefl!Follow(e, f[k])
      BY <1>3, <1>6, <2>1
    <2> QED
      BY <2>2, FollowFinds
  <1>7. Nat \subseteq S
    <2> HIDE DEF S
    <2> QED
      BY <1>5, <1>6, AllNaturals
  <1> QED
    BY <1>2, <1>7

(* Runs of the byte before. *)
LEMMA RunFinds ==
  ASSUME NEW e, Window(e)
  PROVE  Tdefl!Run(e) = [len |-> 0, dist |-> 0] \/ (Tdefl!Run(e).dist = 1 /\ Matches(e, Tdefl!Run(e).len, 1))
  <1> DEFINE same == {n \in 1 .. e.ahead : \A k \in 0 .. n - 1 :
                        e.dict[Tdefl!Cell(e.pos) + k] = e.dict[Tdefl!Cell(e.pos - 1)]}
             len == Tdefl!Max(same \cup {0})
  <1>1. e.pos \in Nat /\ e.ahead \in Nat /\ e.size \in Nat /\ e.ahead <= MaxMatch /\ e.size <= e.pos
    BY DEF Window, Filling
  <1>2. Tdefl!Run(e) = IF e.size > 0 /\ len >= Tdefl!MinMatch THEN [len |-> len, dist |-> 1]
                                                   ELSE [len |-> 0, dist |-> 0]
    BY DEF Tdefl!Run
  <1>3. len \in same \cup {0}
    <2> DEFINE S == same \cup {0}
    <2>1. S \in SUBSET Nat /\ S # {} /\ \A n \in S : n <= e.ahead
      BY <1>1
    <2> HIDE DEF S
    <2>2. Tdefl!Max(S) \in S
      BY <1>1, <2>1, MaxIsGreatest DEF Max, Tdefl!Max
    <2> QED
      BY <2>2 DEF S
  <1>4. ASSUME e.size > 0, len >= Tdefl!MinMatch PROVE Matches(e, len, 1)
    <2>1. len \in same /\ len \in 1 .. e.ahead
      <3> HIDE DEF len, same
      <3>1. len # 0
        BY <1>4 DEF Tdefl!MinMatch
      <3> QED
        BY <1>3, <3>1 DEF same
    <2>2. \A k \in 0 .. len - 1 : e.dict[Tdefl!Cell(e.pos) + k] = e.dict[Tdefl!Cell(e.pos - 1)]
      <3> HIDE DEF len
      <3> QED
        BY <2>1
    <2> HIDE DEF len, same
    <2>3. \A k \in 0 .. len - 1 : source[e.pos + k + 1] = e.dict[Tdefl!Cell(e.pos - 1)]
      <3> SUFFICES ASSUME NEW k \in 0 .. len - 1
                          PROVE source[e.pos + k + 1] = e.dict[Tdefl!Cell(e.pos - 1)]
        OBVIOUS
      <3>1. e.pos \in Int /\ e.pos - e.size <= e.pos /\ e.pos + k < e.pos + e.ahead
            /\ k \in 0 .. MaxMatch - 1
        BY <1>1, <2>1, DeflateConstants
      <3>2. e.dict[Tdefl!Cell(e.pos) + k] = source[e.pos + k + 1]
        BY <3>1, DictAt
      <3> QED
        BY <2>2, <3>2
    <2>4. e.dict[Tdefl!Cell(e.pos - 1)] = source[e.pos]
      <3> DEFINE q == e.pos - 1
      <3>1. q \in Int /\ e.pos - e.size <= q /\ q + 0 < e.pos + e.ahead /\ q + 1 = e.pos
            /\ q + 0 + 1 = e.pos
        BY <1>1, <1>4
      <3>2. 0 \in 0 .. MaxMatch - 1
        BY DeflateConstants DEF Tdefl!MinMatch
      <3>3. Tdefl!Cell(q) \in 0 .. DictSize - 1
        BY <3>1, Cells
      <3> HIDE DEF q
      <3>4. e.dict[Tdefl!Cell(q) + 0] = source[q + 0 + 1]
        BY <3>1, <3>2, DictAt
      <3>5. Tdefl!Cell(q) + 0 = Tdefl!Cell(q)
        BY <3>3, DeflateConstants
      <3> QED
        BY <3>1, <3>4, <3>5 DEF q
    <2>5. Repeats(e.pos, len, 1)
      <3>1. ASSUME NEW k \in 0 .. len - 1 PROVE source[e.pos - 1 + k + 1] = source[e.pos + k + 1]
        <4>1. CASE k = 0
          <5>1. e.pos - 1 + k + 1 = e.pos
            BY <1>1, <4>1
          <5> QED
            BY <2>3, <2>4, <5>1
        <4>2. CASE k # 0
          <5>1. k - 1 \in 0 .. len - 1 /\ e.pos - 1 + k + 1 = e.pos + (k - 1) + 1
            BY <1>1, <2>1, <4>2
          <5> QED
            BY <2>3, <5>1
        <4> QED
          BY <4>1, <4>2
      <3> QED
        BY <3>1 DEF Repeats
    <2> QED
      BY <1>1, <1>4, <2>1, <2>5 DEF Matches
  <1> HIDE DEF len
  <1> QED
    BY <1>2, <1>4

(* What tdefl_compress_normal finds: nothing longer than what is held back,
   or a match.                                                            *)
MatchOK(e, m) ==
  /\ m.len \in Nat /\ m.dist \in Nat
  /\ m.dist = 0 => m.len < Tdefl!MinMatch \/ m.len <= e.saved.len
  /\ m.dist # 0 => Matches(e, m.len, m.dist)
  /\ mode.parsing = "raw" => m.dist = 0

(* So is what the parser is given, whichever way it was looked for. *)
LEMMA MatchFinds ==
  ASSUME NEW e, Window(e), SavedLen(e), mode.probes \in Nat
  PROVE  MatchOK(e, Tdefl!Match(e))
  <1> DEFINE None == [len |-> 0, dist |-> 0]
             Two == [len |-> Tdefl!MinMatch - 1, dist |-> 0]
             b == Tdefl!Probe(e)
             Some == [len |-> b.len, dist |-> b.dist]
             One == [len |-> Tdefl!Run(e).len, dist |-> Tdefl!Run(e).dist]
  <1>1. Tdefl!Match(e) = None \/ (mode.parsing = "rle" /\ Tdefl!Match(e) = One)
        \/ (mode.parsing = "raw" /\ Tdefl!Match(e) = Two)
        \/ (mode.parsing # "raw" /\ Tdefl!Match(e) = Some)
    BY DEF Tdefl!Match
  <1>2. MatchOK(e, None) /\ MatchOK(e, Two)
    BY DEF MatchOK, Tdefl!MinMatch
  <1>3. ASSUME mode.parsing = "rle" PROVE MatchOK(e, One)
    <2>1. CASE Tdefl!Run(e) = None
      BY <2>1 DEF MatchOK, Tdefl!MinMatch
    <2>2. CASE Tdefl!Run(e).dist = 1 /\ Matches(e, Tdefl!Run(e).len, 1)
      <3>1. Tdefl!Run(e).len \in Nat
        BY <2>2 DEF Matches, Tdefl!MinMatch, Window, Filling
      <3> QED
        BY <1>3, <2>2, <3>1 DEF MatchOK
    <2> QED
      BY <2>1, <2>2, RunFinds
  <1>4. ASSUME mode.parsing # "raw" PROVE MatchOK(e, Some)
    <2>1. Found(e, b)
      BY ProbeFinds
    <2> HIDE DEF b
    <2>2. b.dist = 0 => b.len < Tdefl!MinMatch \/ b.len <= e.saved.len
      BY <2>1 DEF Found, Tdefl!Unmatched, SavedLen, Tdefl!MinMatch
    <2> QED
      BY <1>4, <2>1, <2>2 DEF Found, MatchOK
  <1> HIDE DEF None, Two, Some, One
  <1> QED
    BY <1>1, <1>2, <1>3, <1>4

-----------------------------------------------------------------------------
(* The text that literals and matches stand for. *)
Prefix(n) == [k \in 1 .. n |-> source[k]]

(* A prefix of the text has its length. *)
LEMMA PrefixLen == ASSUME NEW n \in Nat PROVE Len(Prefix(n)) = n /\ DOMAIN Prefix(n) = 1 .. n
  BY DEF Prefix

(* A stretch that repeats dist before it goes round its last dist bytes. *)
LEMMA Periods ==
  ASSUME NEW n \in Nat, NEW dist \in 1 .. n, NEW len \in Nat, Repeats(n, len, dist)
  PROVE  \A k \in 0 .. len - 1 : source[n - dist + 1 + (k % dist)] = source[n + k + 1]
  <1> DEFINE Same(k) == source[n - dist + 1 + (k % dist)] = source[n + k + 1]
             S == {m \in Nat : \A k \in 0 .. len - 1 : k < m => Same(k)}
  <1>1. 0 \in S
    OBVIOUS
  <1>2. ASSUME NEW m \in Nat, m \in S PROVE m + 1 \in S
    <2>1. \A k \in 0 .. len - 1 : k < m => Same(k)
      BY <1>2
    <2>2. ASSUME m \in 0 .. len - 1 PROVE Same(m)
      <3>1. source[n - dist + m + 1] = source[n + m + 1]
        BY <2>2 DEF Repeats
      <3>2. CASE m < dist
        <4>1. m % dist = m
          BY <3>2
        <4>2. n - dist + 1 + m = n - dist + m + 1
          OBVIOUS
        <4> QED
          BY <3>1, <4>1, <4>2
      <3>3. CASE dist <= m
        <4> DEFINE j == m - dist
        <4>1. j \in 0 .. len - 1 /\ j < m /\ n + j + 1 = n - dist + m + 1 /\ j \in Nat
          BY <2>2, <3>3
        <4>2. m % dist = j % dist
          <5> DEFINE q == j \div dist
                     rem == j % dist
                     t == q + 1
          <5>1. q \in Int /\ rem \in 0 .. dist - 1 /\ j = q * dist + rem
            BY <4>1, Quotient
          <5> HIDE DEF q, rem
          <5>2. t \in Int /\ t * dist = q * dist + dist
            BY <5>1
          <5>3. m = t * dist + rem
            BY <5>1, <5>2
          <5> HIDE DEF t
          <5>4. dist \in Nat \ {0} /\ m \in Int
            OBVIOUS
          <5>5. m % dist = rem
            BY <5>1, <5>2, <5>3, <5>4, SameRemainder
          <5> QED
            BY <5>5 DEF rem
        <4>3. Same(j)
          <5> HIDE DEF j, Same
          <5> QED
            BY <2>1, <4>1
        <4> QED
          BY <3>1, <4>1, <4>2, <4>3
      <3> QED
        BY <3>2, <3>3
    <2> HIDE DEF Same
    <2> QED
      BY <2>1, <2>2
  <1>3. Nat \subseteq S
    <2> HIDE DEF S
    <2> QED
      BY <1>1, <1>2, AllNaturals
  <1>4. len \in S
    BY <1>3
  <1> HIDE DEF Same
  <1>5. \A k \in 0 .. len - 1 : Same(k)
    BY <1>4
  <1> QED
    BY <1>5 DEF Same

(* A literal extends what is expanded by its byte, *)
LEMMA LiteralExtends ==
  ASSUME NEW n \in Nat, NEW code, code.dist = 0, code.lit = source[n + 1]
  PROVE  Tdefl!Expand(Prefix(n), code) = Prefix(n + 1)
  <1> DEFINE text == Prefix(n)
             c == source[n + 1]
             more == Append(text, c)
  <1>1. Tdefl!Expand(text, code) = more
    BY DEF Tdefl!Expand
  <1>2. text = [k \in 1 .. n |-> source[k]] /\ Len(text) = n
    BY PrefixLen DEF Prefix
  <1> HIDE DEF text
  <1>3. more = [k \in 1 .. n + 1 |-> IF k = n + 1 THEN c ELSE text[k]]
    BY <1>2
  <1> HIDE DEF more
  <1>4. more = [k \in 1 .. n + 1 |-> source[k]]
    <2>1. \A k \in 1 .. n + 1 : more[k] = source[k]
      BY <1>2, <1>3
    <2> QED
      BY <1>3, <2>1
  <1> QED
    BY <1>1, <1>4 DEF Prefix, text

(* and a pair by the bytes it repeats, also where it runs over itself. *)
LEMMA PairExtends ==
  ASSUME NEW n \in Nat, NEW code, code.len \in Nat, code.dist \in 1 .. DictSize, code.dist <= n,
         Repeats(n, code.len, code.dist)
  PROVE  Tdefl!Expand(Prefix(n), code) = Prefix(n + code.len)
  <1> DEFINE dist == code.dist
             len == code.len
             text == Prefix(n)
             more == [k \in 1 .. len |-> text[n - dist + 1 + ((k - 1) % dist)]]
  <1>1. Len(text) = n /\ DictSize \in Nat
    BY PrefixLen, DeflateConstants
  <1>2. Tdefl!Expand(text, code) = text \o more
    BY <1>1 DEF Tdefl!Expand, Tdefl!Smaller
  <1>3. dist \in 1 .. n /\ len \in Nat
    BY <1>1
  <1>4. \A k \in 0 .. len - 1 : source[n - dist + 1 + (k % dist)] = source[n + k + 1]
    BY <1>3, Periods
  <1> HIDE DEF dist, len
  <1>5. ASSUME NEW k \in 1 .. len PROVE more[k] = source[n + k]
    <2> DEFINE j == k - 1
               rem == j % dist
    <2>1. j \in 0 .. len - 1 /\ j \in Int /\ n + j + 1 = n + k
      BY <1>3
    <2>2. rem \in 0 .. dist - 1
      <3> HIDE DEF j
      <3>1. dist \in Nat \ {0}
        BY <1>3
      <3> QED
        BY <2>1, <3>1, Quotient
    <2>3. source[n - dist + 1 + rem] = source[n + k]
      BY <1>4, <2>1
    <2> HIDE DEF rem
    <2>4. text[n - dist + 1 + rem] = source[n - dist + 1 + rem]
      BY <1>3, <2>2 DEF Prefix
    <2>5. more[k] = text[n - dist + 1 + rem]
      BY DEF rem
    <2> QED
      BY <2>3, <2>4, <2>5
  <1>6. more = [k \in 1 .. len |-> source[n + k]]
    <2>1. more = [k \in 1 .. len |-> more[k]]
      OBVIOUS
    <2> HIDE DEF more
    <2> QED
      BY <1>5, <2>1
  <1> HIDE DEF more
  <1>7. text \o [k \in 1 .. len |-> source[n + k]] = Prefix(n + len)
    BY <1>3 DEF Prefix
  <1> QED
    BY <1>2, <1>6, <1>7 DEF len

IsExpanding(f, text, codes, n) ==
  f = [k \in 0 .. n |-> IF k = 0 THEN text ELSE Tdefl!Expand(f[k - 1], codes[k])]

(* The recursive function of Expanded exists. *)
LEMMA ExpandingExists == ASSUME NEW text, NEW codes, NEW n \in Nat
                         PROVE \E f : IsExpanding(f, text, codes, n)
  <1> DEFINE S == {m \in Nat : \E f : IsExpanding(f, text, codes, m)}
  <1>1. 0 \in S
    <2>1. IsExpanding([k \in {0} |-> text], text, codes, 0)
      BY DEF IsExpanding
    <2> QED
      BY <2>1
  <1>2. ASSUME NEW m \in Nat, m \in S PROVE m + 1 \in S
    <2>1. PICK f : IsExpanding(f, text, codes, m)
      BY <1>2
    <2> DEFINE g == [k \in 0 .. m + 1 |-> IF k = m + 1 THEN Tdefl!Expand(f[m], codes[m + 1]) ELSE f[k]]
    <2>2. \A k \in 0 .. m : f[k] = IF k = 0 THEN text ELSE Tdefl!Expand(f[k - 1], codes[k])
      BY <2>1 DEF IsExpanding
    <2>3. \A k \in 0 .. m + 1 : g[k] = IF k = 0 THEN text ELSE Tdefl!Expand(g[k - 1], codes[k])
      <3> TAKE k \in 0 .. m + 1
      <3>1. CASE k = m + 1
        BY <3>1
      <3>2. CASE k \in 0 .. m
        BY <3>2, <2>2
      <3> QED
        BY <3>1, <3>2
    <2>4. g = [k \in 0 .. m + 1 |-> g[k]]
      OBVIOUS
    <2> HIDE DEF g
    <2>5. IsExpanding(g, text, codes, m + 1)
      BY <2>3, <2>4 DEF IsExpanding
    <2> QED
      BY <2>5
  <1>3. Nat \subseteq S
    <2> HIDE DEF S
    <2> QED
      BY <1>1, <1>2, AllNaturals
  <1> QED
    BY <1>3

(* Expanded is its last value. *)
LEMMA ExpandedIs ==
  ASSUME NEW text, NEW codes, Len(codes) \in Nat
  PROVE  \E f : IsExpanding(f, text, codes, Len(codes))
         /\ Tdefl!Expanded(text, codes) = f[Len(codes)]
  <1> DEFINE c == CHOOSE f : IsExpanding(f, text, codes, Len(codes))
  <1>1. IsExpanding(c, text, codes, Len(codes))
    BY ExpandingExists
  <1>2. Tdefl!Expanded(text, codes) = c[Len(codes)]
    BY DEF Tdefl!Expanded, IsExpanding
  <1> QED
    BY <1>1, <1>2

(* No code adds nothing, *)
LEMMA ExpandedNone == ASSUME NEW text PROVE Tdefl!Expanded(text, <<>>) = text
  <1>1. Len(<<>>) = 0 /\ 0 \in Nat
    OBVIOUS
  <1>2. PICK f : IsExpanding(f, text, <<>>, 0) /\ Tdefl!Expanded(text, <<>>) = f[0]
    BY <1>1, ExpandedIs
  <1> QED
    BY <1>2 DEF IsExpanding

(* and one more code is expanded after the others. *)
LEMMA ExpandedMore ==
  ASSUME NEW text, NEW codes, Len(codes) \in Nat, NEW more, Len(more) = Len(codes) + 1,
         \A k \in 1 .. Len(codes) : more[k] = codes[k]
  PROVE  Tdefl!Expanded(text, more) = Tdefl!Expand(Tdefl!Expanded(text, codes), more[Len(codes) + 1])
  <1> DEFINE n == Len(codes)
             m == Len(more)
  <1>1. PICK f : IsExpanding(f, text, codes, n) /\ Tdefl!Expanded(text, codes) = f[n]
    BY ExpandedIs
  <1>2. m = n + 1 /\ n \in Nat /\ m \in Nat
    OBVIOUS
  <1>3. PICK g : IsExpanding(g, text, more, m) /\ Tdefl!Expanded(text, more) = g[m]
    BY <1>2, ExpandedIs
  <1> HIDE DEF n, m
  <1>4. \A k \in 0 .. n : f[k] = IF k = 0 THEN text ELSE Tdefl!Expand(f[k - 1], codes[k])
    BY <1>1 DEF IsExpanding
  <1>5. \A k \in 0 .. m : g[k] = IF k = 0 THEN text ELSE Tdefl!Expand(g[k - 1], more[k])
    BY <1>3 DEF IsExpanding
  <1> DEFINE S == {j \in Nat : j <= n => f[j] = g[j]}
  <1>6. 0 \in S
    BY <1>2, <1>4, <1>5
  <1>7. ASSUME NEW j \in Nat, j \in S PROVE j + 1 \in S
    <2>1. SUFFICES ASSUME j + 1 <= n PROVE f[j + 1] = g[j + 1]
      OBVIOUS
    <2>2. f[j] = g[j] /\ j + 1 \in 1 .. n /\ j + 1 \in 0 .. m /\ (j + 1) - 1 = j /\ j + 1 # 0
      BY <1>2, <1>7, <2>1
    <2>3. more[j + 1] = codes[j + 1]
      BY <2>2 DEF n
    <2>4. f[j + 1] = Tdefl!Expand(f[j], codes[j + 1])
      BY <1>4, <2>1, <2>2
    <2>5. g[j + 1] = Tdefl!Expand(g[j], more[j + 1])
      BY <1>5, <2>2
    <2> QED
      BY <2>2, <2>3, <2>4, <2>5
  <1>8. Nat \subseteq S
    <2> HIDE DEF S
    <2> QED
      BY <1>6, <1>7, AllNaturals
  <1>9. f[n] = g[n]
    BY <1>2, <1>8
  <1>10. g[m] = Tdefl!Expand(g[n], more[m])
    BY <1>2, <1>5
  <1> QED
    BY <1>1, <1>2, <1>3, <1>9, <1>10 DEF n

-----------------------------------------------------------------------------
(* Recording and moving on. *)
IsRecord(s) == DOMAIN s = {"len", "dist", "lit"} /\ s.len \in Nat
HeldLen(s) == IF s.len = 0 THEN 0 ELSE 1
(* The match held back begins one byte before the position. *)
SavedAt(s, pos, ahead) ==
  /\ IsRecord(s)
  /\ mode.parsing = "raw" => s.len = 0
  /\ s.len > 0 =>
       /\ Tdefl!MinMatch <= s.len /\ s.len - 1 <= ahead
       /\ s.dist \in 1 .. DictSize /\ s.dist <= pos - 1
       /\ s.lit = source[pos] /\ Repeats(pos - 1, s.len, s.dist)
(* The output and what is recorded stand for the text up to n. *)
Recorded(e, text, n) ==
  /\ Len(e.codes) \in Nat /\ e.codes = [k \in 1 .. Len(e.codes) |-> e.codes[k]]
  /\ e.dictPos \in Nat /\ e.total \in Nat /\ e.dictPos + e.total = n
  /\ text = Prefix(e.dictPos) /\ Tdefl!Expanded(text, e.codes) = Prefix(n)
  /\ mode.parsing = "raw" => e.total <= Len(e.codes)
TextOK(e, n, text) ==
  /\ Window(e) /\ e.pos + e.ahead = n
  /\ SavedAt(e.saved, e.pos, e.ahead) /\ Recorded(e, text, e.pos - HeldLen(e.saved))
(* What recording does not change. *)
Frame(e) == <<e.dict, e.hash, e.next, e.pos, e.ahead, e.size>>
Rest(e) == <<e.dictPos, e.summed, e.ofs, e.remaining, e.finished, e.wants, e.last>>

(* What Append returns. *)
LEMMA AppendIs ==
  ASSUME NEW s, NEW n \in Nat, Len(s) = n, s = [k \in 1 .. n |-> s[k]], NEW c
  PROVE  /\ Append(s, c) = [k \in 1 .. n + 1 |-> IF k = n + 1 THEN c ELSE s[k]]
         /\ Len(Append(s, c)) = n + 1
  <1> DEFINE g == [k \in 1 .. n |-> s[k]]
  <1>1. Len(g) = n
    OBVIOUS
  <1>2. Append(g, c) = [k \in 1 .. n + 1 |-> IF k = n + 1 THEN c ELSE g[k]]
    OBVIOUS
  <1>3. Append(g, c) = [k \in 1 .. n + 1 |-> IF k = n + 1 THEN c ELSE s[k]]
    BY <1>2
  <1>4. Append(g, c) = Append(s, c)
    <2>1. g = s
      OBVIOUS
    <2> HIDE DEF g
    <2> QED
      BY <2>1
  <1> HIDE DEF g
  <1> QED
    BY <1>3, <1>4

(* A code recorded extends the text recorded by what it stands for. *)
LEMMA RecordExtends ==
  ASSUME NEW e, DOMAIN e = Names, NEW text, NEW n \in Nat, Recorded(e, text, n),
         NEW code, code.len \in Nat, Tdefl!Expand(Prefix(n), code) = Prefix(n + code.len),
         mode.parsing = "raw" => code.len <= 1
  PROVE  /\ Recorded(Tdefl!Record(e, code), text, n + code.len)
         /\ DOMAIN Tdefl!Record(e, code) = Names
         /\ Len(Tdefl!Record(e, code).codes) = Len(e.codes) + 1
         /\ Tdefl!Record(e, code).saved = e.saved
         /\ Frame(Tdefl!Record(e, code)) = Frame(e) /\ Rest(Tdefl!Record(e, code)) = Rest(e)
  <1> DEFINE y == Tdefl!Record(e, code)
             len == code.len
             old == e.codes
             codes == Append(old, code)
             c == Len(old)
  <1>1. /\ c \in Nat /\ old = [k \in 1 .. c |-> old[k]]
        /\ e.dictPos \in Nat /\ e.total \in Nat /\ e.dictPos + e.total = n
        /\ text = Prefix(e.dictPos) /\ Tdefl!Expanded(text, old) = Prefix(n)
        /\ mode.parsing = "raw" => e.total <= c
    BY DEF Recorded
  <1>2. /\ y.codes = codes /\ y.total = e.total + len /\ DOMAIN y = Names /\ y.saved = e.saved
        /\ Frame(y) = Frame(e) /\ Rest(y) = Rest(e) /\ y.dictPos = e.dictPos
    <2> HIDE DEF codes
    <2> QED
      BY DEF Tdefl!Record, Names, Frame, Rest, codes
  <1> HIDE DEF y, old
  <1>3. codes = [k \in 1 .. c + 1 |-> IF k = c + 1 THEN code ELSE old[k]]
    BY <1>1, AppendIs
  <1>4. Len(codes) = c + 1
    BY <1>1, AppendIs
  <1> HIDE DEF codes
  <1>5. codes = [k \in 1 .. Len(codes) |-> codes[k]] /\ codes[c + 1] = code
        /\ \A k \in 1 .. c : codes[k] = old[k]
    <2>1. c \in Nat
      BY <1>1
    <2> HIDE DEF c
    <2> QED
      BY <1>3, <1>4, <2>1
  <1>6. Tdefl!Expanded(text, codes) = Tdefl!Expand(Tdefl!Expanded(text, old), code)
    BY <1>1, <1>4, <1>5, ExpandedMore
  <1>7. Tdefl!Expanded(text, codes) = Prefix(n + len)
    BY <1>1, <1>6
  <1>8. len \in Nat /\ mode.parsing = "raw" => len <= 1
    OBVIOUS
  <1> HIDE DEF c, len
  <1>9. Recorded(y, text, n + len)
    <2>1. y.total \in Nat /\ y.dictPos + y.total = n + len
      BY <1>1, <1>2, <1>8 DEF len
    <2>2. mode.parsing = "raw" => y.total <= Len(y.codes)
      BY <1>1, <1>2, <1>4, <1>8 DEF len
    <2>3. Len(y.codes) \in Nat /\ y.codes = [k \in 1 .. Len(y.codes) |-> y.codes[k]]
      BY <1>1, <1>2, <1>4, <1>5
    <2>4. y.dictPos \in Nat /\ text = Prefix(y.dictPos)
          /\ Tdefl!Expanded(text, y.codes) = Prefix(n + len)
      BY <1>1, <1>2, <1>7
    <2> QED
      BY <2>1, <2>2, <2>3, <2>4 DEF Recorded
  <1> QED
    BY <1>2, <1>4, <1>9 DEF y, c, old, len

(* The byte at the position is the text's. *)
LEMMA NextByte ==
  ASSUME NEW e, Window(e), e.ahead >= 1
  PROVE  e.dict[Tdefl!Cell(e.pos)] = source[e.pos + 1]
  <1> DEFINE low == e.pos - e.size
             top == e.pos + e.ahead
             q == e.pos
  <1>1. Holds(e.dict, low, top) /\ q \in Int /\ low <= q /\ top - DictSize <= q /\ q < top
    BY DeflateConstants DEF Window, Filling
  <1> HIDE DEF low, top, q
  <1>2. e.dict[Tdefl!Cell(q)] = source[q + 1]
    BY <1>1 DEF Holds
  <1> QED
    BY <1>2 DEF q

(* Moving on takes bytes from the lookahead into the window. *)
LEMMA MovedKeeps ==
  ASSUME NEW e, Window(e), NEW n \in Nat, n <= e.ahead
  PROVE  /\ Window(Tdefl!Moved(e, n)) /\ Tdefl!Moved(e, n).pos = e.pos + n
         /\ Tdefl!Moved(e, n).ahead = e.ahead - n
         /\ Tdefl!Moved(e, n).saved = e.saved /\ Tdefl!Moved(e, n).codes = e.codes
         /\ Tdefl!Moved(e, n).total = e.total /\ Rest(Tdefl!Moved(e, n)) = Rest(e)
  <1> DEFINE pos == e.pos + n
             ahead == e.ahead - n
             sz == Tdefl!Smaller(e.size + n, DictSize)
             x == [e EXCEPT !.pos = pos, !.ahead = ahead, !.size = sz]
  <1>1. /\ DOMAIN e = Names /\ DictOK(e.dict) /\ ChainsOK(e)
        /\ e.pos \in Nat /\ e.ahead \in Nat /\ e.size \in Nat
        /\ Holds(e.dict, e.pos - e.size, e.pos + e.ahead)
        /\ e.size <= e.pos /\ e.size + e.ahead <= DictSize /\ e.ahead <= MaxMatch
    BY DEF Window, Filling
  <1>2. Tdefl!Moved(e, n) = x
    BY <1>1 DEF Tdefl!Moved, Names
  <1>3. /\ pos \in Nat /\ ahead \in Nat /\ sz \in Nat /\ sz <= pos /\ sz + ahead <= DictSize
        /\ ahead <= MaxMatch /\ pos + ahead = e.pos + e.ahead /\ e.pos - e.size <= pos - sz
    BY <1>1, DeflateConstants DEF Tdefl!Smaller
  <1> HIDE DEF pos, ahead, sz
  <1>4. /\ x.pos = pos /\ x.ahead = ahead /\ x.size = sz /\ DOMAIN x = Names /\ x.dict = e.dict
        /\ x.next = e.next /\ x.hash = e.hash /\ x.saved = e.saved /\ x.codes = e.codes
        /\ x.total = e.total /\ Rest(x) = Rest(e)
    BY <1>1 DEF Names, Rest
  <1> HIDE DEF x
  <1>5. ChainsOK(x)
    BY <1>1, <1>4 DEF ChainsOK
  <1>6. Holds(e.dict, pos - sz, pos + ahead)
    <2> DEFINE low == e.pos - e.size
               new == pos - sz
               top == pos + ahead
    <2>1. low <= new /\ low \in Int /\ new \in Int /\ Holds(e.dict, low, top)
      BY <1>1, <1>3
    <2> HIDE DEF low, new, top
    <2>2. Holds(e.dict, new, top)
      BY <2>1 DEF Holds
    <2> QED
      BY <2>2 DEF new, top
  <1>7. Window(x)
    BY <1>1, <1>3, <1>4, <1>5, <1>6 DEF Window, Filling
  <1> QED
    BY <1>2, <1>4, <1>7 DEF pos, ahead

NothingHeld(s) == IsRecord(s) /\ s.len = 0
(* NoMatch holds nothing back. *)
LEMMA NoMatchHeld == NothingHeld(Tdefl!NoMatch)
  BY DEF NothingHeld, Tdefl!NoMatch, IsRecord

(* A compressor after recording: the position is to move on by n, and codes
   at most were added.                                                     *)
Moves(e, y, n, text, codes) ==
  /\ n \in Nat /\ n <= e.ahead /\ DOMAIN y = Names /\ Frame(y) = Frame(e) /\ Rest(y) = Rest(e)
  /\ SavedAt(y.saved, e.pos + n, e.ahead - n) /\ Recorded(y, text, e.pos + n - HeldLen(y.saved))
  /\ Len(y.codes) <= Len(e.codes) + codes

(* What is behind the position, whether or not a match is held back. *)
LEMMA BehindIt ==
  ASSUME NEW e, NEW text, NEW n, TextOK(e, n, text)
  PROVE  /\ DOMAIN e = Names /\ e.pos \in Nat /\ e.ahead \in Nat /\ e.size \in Nat
         /\ e.size <= e.pos /\ e.size <= DictSize /\ e.ahead <= MaxMatch
         /\ IsRecord(e.saved) /\ SavedAt(e.saved, e.pos, e.ahead) /\ Len(e.codes) \in Nat
         /\ e.saved.len = 0 => Recorded(e, text, e.pos)
         /\ e.saved.len # 0 => /\ e.pos - 1 \in Nat /\ Recorded(e, text, e.pos - 1)
                               /\ mode.parsing # "raw"
  <1>1. /\ DOMAIN e = Names /\ e.pos \in Nat /\ e.ahead \in Nat /\ e.size \in Nat
        /\ e.size <= e.pos /\ e.size + e.ahead <= DictSize /\ e.ahead <= MaxMatch
        /\ SavedAt(e.saved, e.pos, e.ahead) /\ Recorded(e, text, e.pos - HeldLen(e.saved))
    BY DEF TextOK, Window, Filling
  <1>2. e.size <= DictSize /\ IsRecord(e.saved) /\ e.saved.len \in Nat /\ Len(e.codes) \in Nat
    <2>1. e.size <= DictSize
      BY <1>1, DeflateConstants
    <2>2. IsRecord(e.saved) /\ Len(e.codes) \in Nat
      BY <1>1 DEF SavedAt, Recorded
    <2> QED
      BY <2>1, <2>2 DEF IsRecord
  <1>3. ASSUME e.saved.len = 0 PROVE Recorded(e, text, e.pos)
    <2>1. e.pos - HeldLen(e.saved) = e.pos
      BY <1>1, <1>3 DEF HeldLen
    <2> QED
      BY <1>1, <2>1
  <1>4. ASSUME e.saved.len # 0
        PROVE  e.pos - 1 \in Nat /\ Recorded(e, text, e.pos - 1) /\ mode.parsing # "raw"
    <2>1. HeldLen(e.saved) = 1 /\ e.saved.len > 0
      BY <1>2, <1>4 DEF HeldLen
    <2>2. e.saved.dist \in 1 .. DictSize /\ e.saved.dist <= e.pos - 1 /\ mode.parsing # "raw"
      BY <1>1, <2>1 DEF SavedAt
    <2>3. e.pos - 1 \in Nat
      BY <1>1, <2>2, DeflateConstants
    <2> QED
      BY <1>1, <2>1, <2>2, <2>3
  <1> QED
    BY <1>1, <1>2, <1>3, <1>4

(* A pair found at the position extends what was recorded up to there. *)
LEMMA PairRecorded ==
  ASSUME NEW e, DOMAIN e = Names, NEW text, NEW n \in Nat, Recorded(e, text, n),
         NEW m, m.len \in Nat, m.dist \in 1 .. DictSize, m.dist <= n, Repeats(n, m.len, m.dist),
         mode.parsing # "raw"
  PROVE  /\ Recorded(Tdefl!Record(e, Tdefl!Pair(m)), text, n + m.len)
         /\ DOMAIN Tdefl!Record(e, Tdefl!Pair(m)) = Names
         /\ Len(Tdefl!Record(e, Tdefl!Pair(m)).codes) = Len(e.codes) + 1
         /\ Tdefl!Record(e, Tdefl!Pair(m)).saved = e.saved
         /\ Frame(Tdefl!Record(e, Tdefl!Pair(m))) = Frame(e)
         /\ Rest(Tdefl!Record(e, Tdefl!Pair(m))) = Rest(e)
  <1> DEFINE code == Tdefl!Pair(m)
  <1>1. code.len = m.len /\ code.dist = m.dist
    BY DEF Tdefl!Pair
  <1> HIDE DEF code
  <1>2. Tdefl!Expand(Prefix(n), code) = Prefix(n + code.len)
    BY <1>1, PairExtends
  <1>3. code.len \in Nat
    BY <1>1
  <1>4. /\ Recorded(Tdefl!Record(e, code), text, n + code.len)
        /\ DOMAIN Tdefl!Record(e, code) = Names
        /\ Len(Tdefl!Record(e, code).codes) = Len(e.codes) + 1
        /\ Tdefl!Record(e, code).saved = e.saved
        /\ Frame(Tdefl!Record(e, code)) = Frame(e) /\ Rest(Tdefl!Record(e, code)) = Rest(e)
    BY <1>2, <1>3, RecordExtends
  <1> QED
    BY <1>1, <1>4 DEF code

(* So does the byte at the position. *)
LEMMA LiteralRecorded ==
  ASSUME NEW e, DOMAIN e = Names, NEW text, NEW n \in Nat, Recorded(e, text, n),
         NEW c, c = source[n + 1]
  PROVE  /\ Recorded(Tdefl!Record(e, Tdefl!Literal(c)), text, n + 1)
         /\ DOMAIN Tdefl!Record(e, Tdefl!Literal(c)) = Names
         /\ Len(Tdefl!Record(e, Tdefl!Literal(c)).codes) = Len(e.codes) + 1
         /\ Tdefl!Record(e, Tdefl!Literal(c)).saved = e.saved
         /\ Frame(Tdefl!Record(e, Tdefl!Literal(c))) = Frame(e)
         /\ Rest(Tdefl!Record(e, Tdefl!Literal(c))) = Rest(e)
  <1> DEFINE code == Tdefl!Literal(c)
  <1>1. code.len = 1 /\ code.dist = 0 /\ code.lit = c
    BY DEF Tdefl!Literal
  <1> HIDE DEF code
  <1>2. Tdefl!Expand(Prefix(n), code) = Prefix(n + code.len)
    BY <1>1, LiteralExtends
  <1>3. code.len \in Nat /\ code.len <= 1
    BY <1>1
  <1>4. /\ Recorded(Tdefl!Record(e, code), text, n + code.len)
        /\ DOMAIN Tdefl!Record(e, code) = Names
        /\ Len(Tdefl!Record(e, code).codes) = Len(e.codes) + 1
        /\ Tdefl!Record(e, code).saved = e.saved
        /\ Frame(Tdefl!Record(e, code)) = Frame(e) /\ Rest(Tdefl!Record(e, code)) = Rest(e)
    BY <1>2, <1>3, RecordExtends
  <1> QED
    BY <1>1, <1>4 DEF code

(* Replacing the match held back. *)
LEMMA SavedReplaced ==
  ASSUME NEW rec, DOMAIN rec = Names, NEW s
  PROVE  LET y == [rec EXCEPT !.saved = s]
         IN /\ DOMAIN y = Names /\ y.saved = s /\ y.codes = rec.codes
            /\ Frame(y) = Frame(rec) /\ Rest(y) = Rest(rec)
            /\ \A text, n : Recorded(rec, text, n) => Recorded(y, text, n)
  <1> DEFINE y == [rec EXCEPT !.saved = s]
  <1>1. /\ DOMAIN y = Names /\ y.saved = s /\ y.codes = rec.codes /\ y.total = rec.total
        /\ y.dictPos = rec.dictPos /\ Frame(y) = Frame(rec) /\ Rest(y) = Rest(rec)
    BY DEF Names, Frame, Rest
  <1> HIDE DEF y
  <1>2. ASSUME NEW text, NEW n, Recorded(rec, text, n) PROVE Recorded(y, text, n)
    BY <1>1, <1>2 DEF Recorded
  <1> QED
    BY <1>1, <1>2 DEF y

(* A match found at the position is held back while it moves on by one. *)
LEMMA HeldMoves ==
  ASSUME NEW e, Window(e), NEW rec, DOMAIN rec = Names, Frame(rec) = Frame(e), Rest(rec) = Rest(e),
         NEW text, Recorded(rec, text, e.pos), NEW m, Matches(e, m.len, m.dist),
         mode.parsing # "raw", Len(e.codes) \in Nat, NEW c \in Nat,
           Len(rec.codes) <= Len(e.codes) + c
  PROVE  Moves(e, Tdefl!Held(rec, m), 1, text, c)
  <1> DEFINE s == [len |-> m.len, dist |-> m.dist, lit |-> rec.dict[Tdefl!Cell(rec.pos)]]
             y == [rec EXCEPT !.saved = s]
             pos == e.pos + 1
             ahead == e.ahead - 1
  <1>1. Tdefl!Held(rec, m) = y
    BY DEF Tdefl!Held
  <1>2. /\ e.pos \in Nat /\ e.ahead \in Nat /\ e.size \in Nat /\ e.size <= e.pos
        /\ e.size + e.ahead <= DictSize /\ e.ahead <= MaxMatch
    BY DEF Window, Filling
  <1>3. /\ m.dist \in 1 .. e.size /\ m.len \in Nat /\ Tdefl!MinMatch <= m.len /\ m.len <= e.ahead
        /\ Repeats(e.pos, m.len, m.dist) /\ e.ahead >= 1
    BY <1>2 DEF Matches, Tdefl!MinMatch
  <1>4. rec.dict[Tdefl!Cell(rec.pos)] = source[e.pos + 1]
    <2>1. rec.dict = e.dict /\ rec.pos = e.pos
      BY DEF Frame
    <2> QED
      BY <1>3, <2>1, NextByte
  <1>5. IsRecord(s) /\ s.len = m.len /\ s.dist = m.dist /\ s.lit = source[e.pos + 1]
    BY <1>3, <1>4 DEF IsRecord
  <1> HIDE DEF s
  <1>6. pos \in Nat /\ pos - 1 = e.pos /\ ahead \in Nat
    BY <1>2, <1>3
  <1> HIDE DEF pos, ahead
  <1>7. SavedAt(s, pos, ahead)
    <2>1. s.len - 1 <= ahead
      BY <1>2, <1>3, <1>5 DEF ahead
    <2>2a. s.dist \in 1 .. DictSize /\ s.dist <= pos - 1
      BY <1>2, <1>3, <1>5, <1>6, DeflateConstants
    <2>2. s.lit = source[pos] /\ Repeats(pos - 1, s.len, s.dist)
      BY <1>3, <1>5, <1>6 DEF pos
    <2> QED
      BY <1>3, <1>5, <2>1, <2>2a, <2>2 DEF SavedAt
  <1>8. /\ DOMAIN y = Names /\ y.saved = s /\ y.codes = rec.codes
        /\ Frame(y) = Frame(rec) /\ Rest(y) = Rest(rec) /\ Recorded(y, text, e.pos)
    BY SavedReplaced
  <1> HIDE DEF y
  <1>9. HeldLen(y.saved) = 1
    BY <1>3, <1>5, <1>8 DEF HeldLen, Tdefl!MinMatch
  <1>10. pos - HeldLen(y.saved) = e.pos
    BY <1>6, <1>9
  <1>11. SavedAt(y.saved, pos, ahead) /\ Recorded(y, text, pos - HeldLen(y.saved))
    BY <1>7, <1>8, <1>10
  <1>12. 1 \in Nat /\ 1 <= e.ahead /\ Len(y.codes) <= Len(e.codes) + c
    BY <1>3, <1>8
  <1>13. Frame(y) = Frame(e) /\ Rest(y) = Rest(e)
    BY <1>8
  <1>14. Moves(e, y, 1, text, c)
    <2> DEFINE n == 1
    <2>1. n \in Nat /\ n <= e.ahead /\ pos = e.pos + n /\ ahead = e.ahead - n
      BY <1>12 DEF pos, ahead
    <2> HIDE DEF n
    <2>2. SavedAt(y.saved, e.pos + n, e.ahead - n)
      BY <1>11, <2>1
    <2>3. Recorded(y, text, e.pos + n - HeldLen(y.saved))
      <3>1. e.pos + n - HeldLen(y.saved) = e.pos
        BY <1>2, <1>9 DEF n
      <3> QED
        BY <1>8, <3>1
    <2>4. Moves(e, y, n, text, c)
      BY <1>8, <1>12, <1>13, <2>1, <2>2, <2>3, Zenon DEF Moves
    <2> QED
      BY <2>4 DEF n
  <1> QED
    BY <1>1, <1>14

(* Where nothing is held back, all up to the position is recorded. *)
LEMMA NothingHeldMoves ==
  ASSUME NEW e, e.pos \in Nat, NEW y, DOMAIN y = Names, Frame(y) = Frame(e), Rest(y) = Rest(e),
         NEW n \in Nat, n <= e.ahead, NothingHeld(y.saved),
         NEW text, NEW q, q = e.pos + n, Recorded(y, text, q),
         NEW c, Len(y.codes) <= Len(e.codes) + c
  PROVE  Moves(e, y, n, text, c)
  <1>1. HeldLen(y.saved) = 0
    BY DEF NothingHeld, HeldLen
  <1>2. e.pos + n - HeldLen(y.saved) = q
    BY <1>1
  <1>3. Recorded(y, text, e.pos + n - HeldLen(y.saved))
    BY <1>2
  <1>4. SavedAt(y.saved, e.pos + n, e.ahead - n)
    BY DEF SavedAt, NothingHeld
  <1> QED
    BY <1>3, <1>4, Zenon DEF Moves

(* Whatever the parser decides, it records what it passes over or holds back. *)
LEMMA ParsedMoves ==
  ASSUME NEW e, NEW text, NEW top, TextOK(e, top, text), e.ahead >= 1, NEW m, MatchOK(e, m)
  PROVE  \/ Moves(e, Tdefl!Parsed(e, m), Tdefl!Move(e, m), text, 1)
         \/ mode.parsing # "raw" /\ Moves(e, Tdefl!Parsed(e, m), Tdefl!Move(e, m), text, 2)
  <1> DEFINE hold == e.saved
             c == e.dict[Tdefl!Cell(e.pos)]
             pair == [Tdefl!Record(e, Tdefl!Pair(hold)) EXCEPT !.saved = Tdefl!NoMatch]
             lit == Tdefl!Record(e, Tdefl!Literal(hold.lit))
             both == [Tdefl!Record(lit, Tdefl!Pair(m)) EXCEPT !.saved = Tdefl!NoMatch]
  <1>1. /\ DOMAIN e = Names /\ e.pos \in Nat /\ e.ahead \in Nat /\ e.size \in Nat
        /\ e.size <= e.pos /\ e.size <= DictSize /\ e.ahead <= MaxMatch
        /\ IsRecord(hold) /\ SavedAt(hold, e.pos, e.ahead) /\ Len(e.codes) \in Nat
        /\ hold.len = 0 => Recorded(e, text, e.pos)
        /\ hold.len # 0 => /\ e.pos - 1 \in Nat /\ Recorded(e, text, e.pos - 1)
                            /\ mode.parsing # "raw"
    BY BehindIt
  <1>2. Window(e) /\ c = source[e.pos + 1] /\ DictSize \in Nat
    BY NextByte, DeflateConstants DEF TextOK
  <1>3. hold.len \in Nat /\ m.len \in Nat /\ m.dist \in Nat
    BY <1>1 DEF IsRecord, MatchOK
  <1>4. m.dist # 0 =>
          /\ m.dist \in 1 .. DictSize /\ m.dist <= e.pos /\ Tdefl!MinMatch <= m.len
          /\ m.len <= e.ahead
          /\ Repeats(e.pos, m.len, m.dist) /\ Matches(e, m.len, m.dist) /\ mode.parsing # "raw"
    BY <1>1, <1>2, <1>3 DEF MatchOK, Matches, Tdefl!MinMatch
  <1>5. hold.len # 0 =>
          /\ Tdefl!MinMatch <= hold.len /\ hold.len - 1 <= e.ahead
          /\ hold.dist \in 1 .. DictSize /\ hold.dist <= e.pos - 1
          /\ hold.lit = source[e.pos] /\ Repeats(e.pos - 1, hold.len, hold.dist)
    BY <1>1, <1>3 DEF SavedAt
  <1> HIDE DEF c
  <1>6. CASE hold.len > 0 /\ ~Tdefl!Better(e, m)
    <2> DEFINE b == e.pos - 1
               n == hold.len - 1
    <2>1. Tdefl!Parsed(e, m) = pair /\ Tdefl!Move(e, m) = n
      BY <1>6 DEF Tdefl!Parsed, Tdefl!Move
    <2>2. b \in Nat /\ n \in Nat /\ n <= e.ahead /\ b + hold.len = e.pos + n /\ hold.len # 0
      <3> DEFINE l == hold.len
      <3>1. l \in Nat /\ l # 0
        BY <1>3, <1>6
      <3>2. 3 <= l /\ l - 1 <= e.ahead /\ e.pos - 1 \in Nat
        BY <1>1, <1>5, <3>1 DEF Tdefl!MinMatch
      <3> HIDE DEF l
      <3>3. b \in Nat /\ l - 1 \in Nat /\ b + l = e.pos + (l - 1)
        BY <1>1, <3>1, <3>2
      <3> QED
        BY <3>1, <3>2, <3>3 DEF l
    <2>3. /\ Recorded(e, text, b) /\ mode.parsing # "raw" /\ hold.dist \in 1 .. DictSize
          /\ hold.dist <= b /\ Repeats(b, hold.len, hold.dist)
      BY <1>1, <1>5, <2>2
    <2> HIDE DEF b, n, hold
    <2> DEFINE rec == Tdefl!Record(e, Tdefl!Pair(hold))
    <2>4. /\ Recorded(rec, text, b + hold.len) /\ DOMAIN rec = Names /\ Frame(rec) = Frame(e)
          /\ Rest(rec) = Rest(e) /\ Len(rec.codes) = Len(e.codes) + 1
      BY <1>1, <1>3, <2>2, <2>3, PairRecorded
    <2> HIDE DEF rec
    <2>5. /\ DOMAIN pair = Names /\ pair.saved = Tdefl!NoMatch /\ pair.codes = rec.codes
          /\ Frame(pair) = Frame(rec) /\ Rest(pair) = Rest(rec)
          /\ Recorded(pair, text, b + hold.len)
      BY <2>4, SavedReplaced DEF rec
    <2> HIDE DEF pair
    <2>6. Len(pair.codes) <= Len(e.codes) + 1
      BY <1>1, <2>4, <2>5
    <2> DEFINE q == b + hold.len
    <2>7. q = e.pos + n /\ Recorded(pair, text, q) /\ NothingHeld(pair.saved)
      BY <2>2, <2>5, NoMatchHeld
    <2>8. Frame(pair) = Frame(e) /\ Rest(pair) = Rest(e)
      BY <2>4, <2>5
    <2> HIDE DEF q
    <2>9. Moves(e, pair, n, text, 1)
      BY <1>1, <2>2, <2>5, <2>6, <2>7, <2>8, NothingHeldMoves
    <2> QED
      BY <2>1, <2>9
  <1>7. CASE hold.len > 0 /\ Tdefl!Better(e, m)
    <2> DEFINE b == e.pos - 1
    <2>1. hold.len # 0 /\ b \in Nat /\ b + 1 = e.pos /\ Recorded(e, text, b)
          /\ hold.lit = source[b + 1] /\ mode.parsing # "raw"
      BY <1>1, <1>3, <1>5, <1>7
    <2>2. m.dist # 0
      <3>1. m.len > hold.len /\ Tdefl!MinMatch <= hold.len
        BY <1>5, <1>7 DEF Tdefl!Better
      <3> QED
        BY <1>3, <3>1 DEF MatchOK, Tdefl!MinMatch
    <2> HIDE DEF b, hold
    <2>3. /\ Recorded(lit, text, b + 1) /\ DOMAIN lit = Names /\ Frame(lit) = Frame(e)
          /\ Rest(lit) = Rest(e) /\ Len(lit.codes) = Len(e.codes) + 1 /\ lit.saved = e.saved
      BY <1>1, <2>1, LiteralRecorded
    <2> HIDE DEF lit
    <2>4. Recorded(lit, text, e.pos) /\ Len(lit.codes) <= Len(e.codes) + 1
      BY <1>1, <2>1, <2>3
    <2>5. CASE Tdefl!Direct(m)
      <3> DEFINE rec == Tdefl!Record(lit, Tdefl!Pair(m))
                 q == e.pos + m.len
      <3>1. Tdefl!Parsed(e, m) = both /\ Tdefl!Move(e, m) = m.len
        BY <1>7, <2>5 DEF Tdefl!Parsed, Tdefl!Move, hold, lit
      <3>2. /\ Recorded(rec, text, q) /\ DOMAIN rec = Names /\ Frame(rec) = Frame(lit)
            /\ Rest(rec) = Rest(lit) /\ Len(rec.codes) = Len(lit.codes) + 1
        BY <1>1, <1>3, <1>4, <2>1, <2>2, <2>3, <2>4, PairRecorded
      <3> HIDE DEF rec
      <3>3. /\ DOMAIN both = Names /\ both.saved = Tdefl!NoMatch /\ both.codes = rec.codes
            /\ Frame(both) = Frame(rec) /\ Rest(both) = Rest(rec) /\ Recorded(both, text, q)
        BY <3>2, SavedReplaced DEF rec
      <3> HIDE DEF both
      <3>4. Len(both.codes) <= Len(e.codes) + 2 /\ NothingHeld(both.saved)
        BY <1>1, <2>3, <3>2, <3>3, NoMatchHeld
      <3>5. Frame(both) = Frame(e) /\ Rest(both) = Rest(e) /\ q = e.pos + m.len
        BY <2>3, <3>2, <3>3
      <3> HIDE DEF q
      <3>6. Moves(e, both, m.len, text, 2)
        BY <1>1, <1>3, <1>4, <2>2, <3>3, <3>4, <3>5, NothingHeldMoves
      <3> QED
        BY <2>1, <3>1, <3>6
    <2>6. CASE ~Tdefl!Direct(m)
      <3>1. Tdefl!Parsed(e, m) = Tdefl!Held(lit, m) /\ Tdefl!Move(e, m) = 1
        BY <1>7, <2>6 DEF Tdefl!Parsed, Tdefl!Move, hold, lit
      <3>2. 1 \in Nat
        OBVIOUS
      <3>3. Moves(e, Tdefl!Held(lit, m), 1, text, 1)
        BY <1>1, <1>2, <1>4, <2>1, <2>2, <2>3, <2>4, <3>2, HeldMoves
      <3> QED
        BY <3>1, <3>3
    <2> QED
      BY <2>5, <2>6
  <1>8. CASE hold.len = 0 /\ m.dist = 0
    <2> DEFINE y == Tdefl!Record(e, Tdefl!Literal(c))
               q == e.pos + 1
    <2>1. Tdefl!Parsed(e, m) = y /\ Tdefl!Move(e, m) = 1
      BY <1>8 DEF Tdefl!Parsed, Tdefl!Move, c
    <2>2. /\ Recorded(y, text, q) /\ DOMAIN y = Names /\ Frame(y) = Frame(e)
          /\ Rest(y) = Rest(e) /\ Len(y.codes) = Len(e.codes) + 1 /\ y.saved = hold
      BY <1>1, <1>2, <1>8, LiteralRecorded
    <2> HIDE DEF y
    <2>3. NothingHeld(y.saved) /\ Len(y.codes) <= Len(e.codes) + 1 /\ 1 \in Nat /\ 1 <= e.ahead
          /\ q = e.pos + 1
      BY <1>1, <1>8, <2>2 DEF NothingHeld
    <2> HIDE DEF q
    <2>4. Moves(e, y, 1, text, 1)
      BY <1>1, <2>2, <2>3, NothingHeldMoves
    <2> QED
      BY <2>1, <2>4
  <1>9. CASE hold.len = 0 /\ m.dist # 0 /\ Tdefl!Move(e, m) > 1
    <2> DEFINE y == Tdefl!Record(e, Tdefl!Pair(m))
               q == e.pos + m.len
    <2>1. Tdefl!Parsed(e, m) = y /\ Tdefl!Move(e, m) = m.len
      BY <1>9 DEF Tdefl!Parsed, Tdefl!Move
    <2>2. /\ Recorded(y, text, q) /\ DOMAIN y = Names /\ Frame(y) = Frame(e)
          /\ Rest(y) = Rest(e) /\ Len(y.codes) = Len(e.codes) + 1 /\ y.saved = hold
      BY <1>1, <1>3, <1>4, <1>9, PairRecorded
    <2> HIDE DEF y
    <2>3. NothingHeld(y.saved) /\ Len(y.codes) <= Len(e.codes) + 1 /\ q = e.pos + m.len
      BY <1>1, <1>9, <2>2 DEF NothingHeld
    <2> HIDE DEF q
    <2>4. Moves(e, y, m.len, text, 1)
      BY <1>1, <1>3, <1>4, <1>9, <2>2, <2>3, NothingHeldMoves
    <2> QED
      BY <2>1, <2>4
  <1>10. CASE hold.len = 0 /\ m.dist # 0 /\ ~(Tdefl!Move(e, m) > 1)
    <2>1. Tdefl!Parsed(e, m) = Tdefl!Held(e, m)
      BY <1>10 DEF Tdefl!Parsed
    <2>2. Tdefl!Move(e, m) = 1
      <3>1. Tdefl!Move(e, m) = 1 \/ Tdefl!Move(e, m) = m.len
        BY <1>10 DEF Tdefl!Move
      <3>2. m.len > 1
        BY <1>3, <1>4, <1>10 DEF Tdefl!MinMatch
      <3> QED
        BY <1>10, <3>1, <3>2
    <2>3. Len(e.codes) <= Len(e.codes) + 1 /\ 1 \in Nat
      BY <1>1
    <2>4. Moves(e, Tdefl!Held(e, m), 1, text, 1)
      BY <1>1, <1>2, <1>4, <1>10, <2>3, HeldMoves
    <2> QED
      BY <2>1, <2>2, <2>4
  <1> QED
    BY <1>3, <1>6, <1>7, <1>8, <1>9, <1>10

(* The window depends on the frame only, *)
LEMMA WindowByFrame ==
  ASSUME NEW e, Window(e), NEW y, DOMAIN y = Names, Frame(y) = Frame(e)
  PROVE  Window(y)
  <1>1. /\ y.dict = e.dict /\ y.hash = e.hash /\ y.next = e.next /\ y.pos = e.pos
        /\ y.ahead = e.ahead /\ y.size = e.size
    BY DEF Frame
  <1>2. ChainsOK(y)
    BY <1>1 DEF Window, Filling, ChainsOK
  <1> QED
    BY <1>1, <1>2 DEF Window, Filling

(* and what is recorded on the codes only. *)
LEMMA RecordedSame ==
  ASSUME NEW e, NEW text, NEW n, Recorded(e, text, n),
         NEW y, y.codes = e.codes, y.total = e.total, y.dictPos = e.dictPos
  PROVE  Recorded(y, text, n)
  BY DEF Recorded

(* Who changes neither keeps the text. *)
LEMMA SameText ==
  ASSUME NEW e, NEW text, NEW n, TextOK(e, n, text), NEW y, DOMAIN y = Names, Frame(y) = Frame(e),
         y.saved = e.saved, y.codes = e.codes, y.total = e.total, y.dictPos = e.dictPos
  PROVE  TextOK(y, n, text)
  <1>1. Window(y)
    BY WindowByFrame DEF TextOK
  <1>2. y.pos = e.pos /\ y.ahead = e.ahead
    BY DEF Frame
  <1>3. Recorded(y, text, e.pos - HeldLen(e.saved))
    BY RecordedSame DEF TextOK
  <1> QED
    BY <1>1, <1>2, <1>3 DEF TextOK

(* One round of the loop keeps the text. *)
LEMMA RoundKeeps ==
  ASSUME NEW e, NEW text, NEW top, TextOK(e, top, text), e.ahead >= 1, NEW m, MatchOK(e, m),
         Len(e.codes) < LzCodes
  PROVE  LET x == Tdefl!Moved(Tdefl!Parsed(e, m), Tdefl!Move(e, m))
         IN /\ TextOK(x, top, text) /\ Rest(x) = Rest(e)
            /\ mode.parsing = "raw" => Len(x.codes) <= LzCodes
  <1> DEFINE y == Tdefl!Parsed(e, m)
             n == Tdefl!Move(e, m)
             x == Tdefl!Moved(y, n)
  <1>1. PICK c \in Nat : Moves(e, y, n, text, c) /\ (mode.parsing = "raw" => c = 1)
    <2>1. 1 \in Nat /\ 2 \in Nat
      OBVIOUS
    <2> HIDE DEF y, n
    <2> QED
      BY <2>1, ParsedMoves DEF y, n
  <1> HIDE DEF y, n
  <1>2. /\ n \in Nat /\ n <= e.ahead /\ DOMAIN y = Names /\ Frame(y) = Frame(e) /\ Rest(y) = Rest(e)
        /\ SavedAt(y.saved, e.pos + n, e.ahead - n)
        /\ Recorded(y, text, e.pos + n - HeldLen(y.saved)) /\ Len(y.codes) <= Len(e.codes) + c
    BY <1>1 DEF Moves
  <1>3. Window(y) /\ y.pos = e.pos /\ y.ahead = e.ahead
    BY <1>2, WindowByFrame DEF TextOK, Frame
  <1>4. /\ Window(x) /\ x.pos = y.pos + n /\ x.ahead = y.ahead - n /\ x.saved = y.saved
        /\ x.codes = y.codes /\ x.total = y.total /\ Rest(x) = Rest(y)
    BY <1>2, <1>3, MovedKeeps
  <1> HIDE DEF x
  <1>5. x.pos = e.pos + n /\ x.ahead = e.ahead - n /\ x.dictPos = y.dictPos /\ Rest(x) = Rest(e)
    BY <1>2, <1>3, <1>4 DEF Rest
  <1>6. x.pos + x.ahead = top
    <2>1. e.pos \in Nat /\ e.ahead \in Nat /\ e.pos + e.ahead = top
      BY DEF TextOK, Window, Filling
    <2> QED
      BY <1>2, <1>5, <2>1
  <1>7. Recorded(x, text, e.pos + n - HeldLen(y.saved))
    BY <1>2, <1>4, <1>5, RecordedSame
  <1>8. SavedAt(x.saved, x.pos, x.ahead) /\ Recorded(x, text, x.pos - HeldLen(x.saved))
    <2>1. SavedAt(x.saved, x.pos, x.ahead)
      BY <1>2, <1>4, <1>5
    <2>2. x.pos - HeldLen(x.saved) = e.pos + n - HeldLen(y.saved)
      <3>1. e.pos \in Nat /\ HeldLen(y.saved) \in Nat
        BY DEF TextOK, Window, Filling, HeldLen
      <3>2. HeldLen(x.saved) = HeldLen(y.saved)
        BY <1>4
      <3> QED
        BY <1>2, <1>5, <3>1, <3>2
    <2> QED
      BY <1>7, <2>1, <2>2
  <1>9. ASSUME mode.parsing = "raw" PROVE Len(x.codes) <= LzCodes
    <2>1. Len(e.codes) \in Nat /\ LzCodes \in Nat
      BY BehindIt, DeflateConstants
    <2>2. Len(y.codes) \in Nat /\ Len(y.codes) <= Len(e.codes) + 1
      BY <1>1, <1>2, <1>9 DEF Recorded
    <2> QED
      BY <1>4, <2>1, <2>2
  <1>10. TextOK(x, top, text)
    BY <1>4, <1>6, <1>8 DEF TextOK
  <1> QED
    BY <1>5, <1>9, <1>10 DEF x, y, n

-----------------------------------------------------------------------------
(* Writing a block. *)
BlockText(e) == IF Tdefl!Raw(e) THEN coded \o Tdefl!Stored(e) ELSE Tdefl!Expanded(coded, e.codes)

(* A block, raw or not, stands for the text up to where its codes end. *)
LEMMA BlockIsPrefix ==
  ASSUME NEW e, NEW n, TextOK(e, n, coded)
  PROVE  BlockText(e) = Prefix(e.dictPos + e.total)
  <1> DEFINE b == e.dictPos
             t == e.total
             q == b + t
  <1>1. /\ e.pos \in Nat /\ e.ahead \in Nat /\ e.size \in Nat /\ e.size + e.ahead <= DictSize
        /\ Holds(e.dict, e.pos - e.size, e.pos + e.ahead) /\ IsRecord(e.saved)
    BY DEF TextOK, Window, Filling, SavedAt
  <1>2. /\ b \in Nat /\ t \in Nat /\ q = e.pos - HeldLen(e.saved) /\ coded = Prefix(b)
        /\ Tdefl!Expanded(coded, e.codes) = Prefix(e.pos - HeldLen(e.saved))
    BY DEF TextOK, Recorded
  <1>3. HeldLen(e.saved) \in Nat
    BY DEF HeldLen
  <1> HIDE DEF b, t
  <1>4. q \in Nat /\ q <= e.pos
    BY <1>1, <1>2, <1>3
  <1>5. CASE Tdefl!Raw(e)
    <2>1. e.pos - b <= e.size
      BY <1>5 DEF Tdefl!Raw, Tdefl!StillThere, b
    <2> DEFINE stored == Tdefl!Stored(e)
    <2>2. ASSUME NEW k \in 1 .. t PROVE e.dict[Tdefl!Cell(b + k - 1)] = source[b + k]
      <3> DEFINE low == e.pos - e.size
                 top == e.pos + e.ahead
                 i == b + k - 1
      <3>1. /\ Holds(e.dict, low, top) /\ i \in Int /\ low <= i /\ top - DictSize <= i /\ i < top
            /\ i + 1 = b + k
        <4>1. DictSize \in Nat
          BY DeflateConstants
        <4> QED
          BY <1>1, <1>2, <1>4, <2>1, <4>1
      <3> HIDE DEF low, top, i
      <3>2. e.dict[Tdefl!Cell(i)] = source[i + 1]
        BY <3>1 DEF Holds
      <3> QED
        BY <3>1, <3>2 DEF i
    <2>3. stored = [k \in 1 .. t |-> source[b + k]]
      <3>1. stored = [k \in 1 .. t |-> e.dict[Tdefl!Cell(b + k - 1)]]
        BY DEF Tdefl!Stored, b, t
      <3> HIDE DEF stored
      <3> QED
        BY <2>2, <3>1
    <2> HIDE DEF stored
    <2>4. Prefix(b) \o [k \in 1 .. t |-> source[b + k]] = Prefix(b + t)
      BY <1>2 DEF Prefix
    <2>5. BlockText(e) = coded \o stored
      BY <1>5 DEF BlockText, stored
    <2>6. coded \o stored = Prefix(b) \o [k \in 1 .. t |-> source[b + k]]
      BY <1>2, <2>3
    <2> QED
      BY <2>4, <2>5, <2>6 DEF b, t
  <1>6. CASE ~Tdefl!Raw(e)
    <2>1. BlockText(e) = Prefix(q)
      BY <1>2, <1>6 DEF BlockText
    <2> QED
      BY <2>1 DEF b, t
  <1> QED
    BY <1>5, <1>6

(* With no codes, what is recorded is what was written. *)
LEMMA EmptyCodes ==
  ASSUME NEW y, y.codes = <<>>, y.total = 0, NEW b \in Nat, y.dictPos = b
  PROVE  Recorded(y, Prefix(b), b)
  <1>1. Len(<<>>) = 0 /\ <<>> = [k \in 1 .. 0 |-> <<>>[k]]
    OBVIOUS
  <1>2. Tdefl!Expanded(Prefix(b), <<>>) = Prefix(b)
    BY ExpandedNone
  <1>3. y.dictPos \in Nat /\ y.total \in Nat /\ y.dictPos + y.total = b
    OBVIOUS
  <1>4. Len(y.codes) = 0 /\ y.codes = [k \in 1 .. Len(y.codes) |-> y.codes[k]]
    BY <1>1
  <1> QED
    BY <1>2, <1>3, <1>4 DEF Recorded

(* A full flush leaves a window, with nothing behind the position. *)
LEMMA ForgottenKeeps ==
  ASSUME NEW e, Window(e)
  PROVE  /\ Window(Tdefl!Forgotten(e)) /\ Tdefl!Forgotten(e).pos = e.pos
         /\ Tdefl!Forgotten(e).ahead = e.ahead
         /\ Tdefl!Forgotten(e).saved = e.saved /\ Tdefl!Forgotten(e).total = e.total
         /\ Rest(Tdefl!Forgotten(e)) = Rest(e) /\ DOMAIN Tdefl!Forgotten(e) = Names
  <1> DEFINE next == [k \in DOMAIN e.next |-> 0]
             x == [e EXCEPT !.hash = <<>>, !.next = next, !.size = 0]
  <1>1. /\ DOMAIN e = Names /\ DictOK(e.dict) /\ ChainsOK(e)
        /\ e.pos \in Nat /\ e.ahead \in Nat /\ e.size \in Nat
        /\ Holds(e.dict, e.pos - e.size, e.pos + e.ahead)
        /\ e.size <= e.pos /\ e.size + e.ahead <= DictSize /\ e.ahead <= MaxMatch
    BY DEF Window, Filling
  <1>2. Tdefl!Forgotten(e) = x
    BY <1>1 DEF Tdefl!Forgotten, Names
  <1>3. DOMAIN next = 0 .. DictSize - 1 /\ \A k \in 0 .. DictSize - 1 : next[k] \in 0 .. PosSpan - 1
    BY <1>1, DeflateConstants DEF ChainsOK
  <1>4. DOMAIN <<>> = {}
    OBVIOUS
  <1> HIDE DEF next
  <1>5. /\ x.pos = e.pos /\ x.ahead = e.ahead /\ x.size = 0 /\ DOMAIN x = Names /\ x.dict = e.dict
        /\ x.next = next /\ x.hash = <<>> /\ x.saved = e.saved /\ x.total = e.total
        /\ Rest(x) = Rest(e)
    BY <1>1 DEF Names, Rest
  <1> HIDE DEF x
  <1>6. ChainsOK(x)
    BY <1>3, <1>4, <1>5 DEF ChainsOK
  <1>7. Holds(e.dict, e.pos - 0, e.pos + e.ahead)
    <2> DEFINE low == e.pos - e.size
               new == e.pos - 0
               top == e.pos + e.ahead
    <2>1. low <= new /\ low \in Int /\ new \in Int /\ Holds(e.dict, low, top)
      BY <1>1
    <2> HIDE DEF low, new, top
    <2>2. Holds(e.dict, new, top)
      BY <2>1 DEF Holds
    <2> QED
      BY <2>2 DEF new, top
  <1>8. x.size \in Nat /\ x.size <= x.pos /\ x.size + x.ahead <= DictSize
    BY <1>1, <1>5, DeflateConstants
  <1>9. Holds(x.dict, x.pos - x.size, x.pos + x.ahead)
    BY <1>5, <1>7
  <1>10. Window(x)
    BY <1>1, <1>5, <1>6, <1>8, <1>9 DEF Window, Filling
  <1> QED
    BY <1>2, <1>5, <1>10

(* The buffer starts again after its text was written. *)
LEMMA EmptiedKeeps ==
  ASSUME NEW e, NEW n, TextOK(e, n, coded), NEW flush
  PROVE  LET y == Tdefl!Emptied(e, flush)
         IN /\ TextOK(y, n, BlockText(e)) /\ DOMAIN y = Names /\ y.codes = <<>> /\ y.total = 0
            /\ y.ahead = e.ahead /\ y.saved = e.saved /\ y.summed = e.summed
            /\ y.remaining = e.remaining /\ y.last = e.last /\ y.finished = (flush = "finish")
  <1> DEFINE f == IF flush = "full" THEN Tdefl!Forgotten(e) ELSE e
             b == e.dictPos + e.total
             y == [f EXCEPT !.dictPos = b, !.total = 0, !.codes = <<>>, !.finished = (flush = "finish")]
  <1>1. /\ Window(e) /\ DOMAIN e = Names /\ e.pos \in Nat /\ e.ahead \in Nat
        /\ e.pos + e.ahead = n /\ SavedAt(e.saved, e.pos, e.ahead)
        /\ b \in Nat /\ b = e.pos - HeldLen(e.saved)
    BY DEF TextOK, Window, Filling, Recorded
  <1>2. /\ Window(f) /\ f.pos = e.pos /\ f.ahead = e.ahead /\ f.saved = e.saved /\ f.total = e.total
        /\ Rest(f) = Rest(e) /\ DOMAIN f = Names
    BY <1>1, ForgottenKeeps
  <1> HIDE DEF f
  <1>3. f.dictPos = e.dictPos /\ f.summed = e.summed /\ f.remaining = e.remaining /\ f.last = e.last
    BY <1>2 DEF Rest
  <1>4. Tdefl!Emptied(e, flush) = y
    BY <1>2, <1>3 DEF Tdefl!Emptied, f, Names
  <1> HIDE DEF b
  <1>5. /\ DOMAIN y = Names /\ Frame(y) = Frame(f) /\ y.saved = f.saved /\ y.dictPos = b
        /\ y.total = 0 /\ y.codes = <<>> /\ y.finished = (flush = "finish") /\ y.summed = f.summed
        /\ y.remaining = f.remaining /\ y.last = f.last
    BY <1>2 DEF Names, Frame
  <1> HIDE DEF y
  <1>6. Window(y) /\ y.pos = e.pos /\ y.ahead = e.ahead
    BY <1>2, <1>5, WindowByFrame DEF Frame
  <1>7. BlockText(e) = Prefix(b)
    BY BlockIsPrefix DEF b
  <1>8. Recorded(y, BlockText(e), b)
    BY <1>1, <1>5, <1>7, EmptyCodes
  <1>9. TextOK(y, n, BlockText(e))
    BY <1>1, <1>2, <1>5, <1>6, <1>8 DEF TextOK
  <1> QED
    BY <1>2, <1>3, <1>4, <1>5, <1>6, <1>9

(* What is assumed of a mode. *)
LEMMA ModeConstants ==
  ASSUME mode \in Modes
  PROVE  mode.probes \in Nat /\ mode.size \in Nat \ {0} /\ mode.size + 11 <= OutBufSize
  BY PackagesAssumption DEF Tdefl!DeflateAssumption

(* A block takes a byte at least and fits the output buffer. *)
LEMMA WrittenFits ==
  ASSUME NEW e, NEW n, NEW text, TextOK(e, n, text), mode \in Modes, NEW flush,
         mode.parsing = "raw" => Len(e.codes) <= LzCodes
  PROVE  Tdefl!Written(e, flush) \in Nat /\ 1 <= Tdefl!Written(e, flush)
         /\ Tdefl!Written(e, flush) <= OutBufSize
  <1> DEFINE sz == mode.size
             t == e.total
             c == Len(e.codes)
             tail == CASE flush = "none" -> 0 [] flush = "finish" -> 4 [] OTHER -> 5
             block == IF Tdefl!Raw(e) THEN t + 5 ELSE sz
  <1>1. sz \in Nat \ {0} /\ sz + 11 <= OutBufSize
    BY ModeConstants
  <1>2. t \in Nat /\ c \in Nat /\ (mode.parsing = "raw" => t <= c)
    BY DEF TextOK, Recorded
  <1>3. LzCodes \in Nat /\ OutBufSize \in Nat /\ LzCodes + 10 <= OutBufSize
    BY DeflateConstants
  <1>4. tail \in Nat /\ tail <= 5
    OBVIOUS
  <1>5. Tdefl!Written(e, flush) = block + tail
    BY DEF Tdefl!Written
  <1>6. Tdefl!Raw(e) => (mode.parsing = "raw" \/ t <= sz + 1)
    <2>1. Tdefl!Raw(e) => (mode.parsing = "raw" \/ sz + 1 >= t)
      BY DEF Tdefl!Raw
    <2> HIDE DEF sz, t
    <2> QED
      BY <1>1, <1>2, <2>1
  <1>7. mode.parsing = "raw" => c <= LzCodes
    OBVIOUS
  <1> HIDE DEF sz, t, c, tail
  <1>8. block \in Nat /\ 1 <= block /\ block + 5 <= OutBufSize
    <2>1. CASE Tdefl!Raw(e) /\ mode.parsing = "raw"
      BY <1>2, <1>3, <1>7, <2>1
    <2>2. CASE Tdefl!Raw(e) /\ t <= sz + 1
      BY <1>1, <1>2, <1>3, <2>2
    <2>3. CASE ~Tdefl!Raw(e)
      BY <1>1, <1>3, <2>3
    <2> QED
      BY <1>6, <2>1, <2>2, <2>3
  <1> HIDE DEF block
  <1> QED
    BY <1>3, <1>4, <1>5, <1>8

(* The text of what Put leaves. *)
LEMMA PutText ==
  ASSUME NEW e, NEW n, TextOK(e, n, coded), NEW flush, Tdefl!Put(e, flush)
  PROVE  /\ TextOK(d', n, coded') /\ d'.codes = <<>> /\ d'.total = 0 /\ d'.ahead = e.ahead
         /\ d'.saved = e.saved /\ d'.summed = e.summed
         /\ d'.finished => flush = "finish"
         /\ d'.last = e.last \/ d'.last = "PUT_BUF_FAILED"
  <1>1. coded' = BlockText(e)
    BY DEF Tdefl!Put, BlockText
  <1> DEFINE y == Tdefl!Emptied(e, flush)
             rec == Tdefl!Emptied(e, "none")
             failed == [rec EXCEPT !.last = "PUT_BUF_FAILED"]
             ofs == IF Tdefl!Smaller(Tdefl!Written(e, flush), Tdefl!Room) < Tdefl!Written(e, flush)
                    THEN Tdefl!Smaller(Tdefl!Written(e, flush), Tdefl!Room) ELSE 0
             rem == Tdefl!Written(e, flush) - Tdefl!Smaller(Tdefl!Written(e, flush), Tdefl!Room)
             kept == [y EXCEPT !.ofs = ofs, !.remaining = rem]
  <1>2. /\ TextOK(y, n, BlockText(e)) /\ DOMAIN y = Names /\ y.codes = <<>> /\ y.total = 0
        /\ y.ahead = e.ahead /\ y.saved = e.saved /\ y.summed = e.summed
        /\ y.last = e.last /\ y.finished = (flush = "finish")
    BY EmptiedKeeps
  <1>3. /\ TextOK(rec, n, BlockText(e)) /\ DOMAIN rec = Names /\ rec.codes = <<>> /\ rec.total = 0
        /\ rec.ahead = e.ahead /\ rec.saved = e.saved /\ rec.summed = e.summed /\ ~rec.finished
    <2>1. "none" # "finish"
      OBVIOUS
    <2> DEFINE none == "none"
    <2>2. none # "finish"
      BY <2>1
    <2> HIDE DEF none
    <2> DEFINE x == Tdefl!Emptied(e, none)
    <2>3. /\ TextOK(x, n, BlockText(e)) /\ DOMAIN x = Names /\ x.codes = <<>> /\ x.total = 0
          /\ x.ahead = e.ahead /\ x.saved = e.saved /\ x.summed = e.summed
          /\ x.finished = (none = "finish")
      BY EmptiedKeeps
    <2> HIDE DEF x
    <2>4. ~x.finished
      BY <2>2, <2>3
    <2> QED
      BY <2>3, <2>4 DEF x, none
  <1>4. d' = y \/ d' = failed \/ d' = kept
    <2> HIDE DEF y, rec
    <2> QED
      BY DEF Tdefl!Put, y, rec
  <1> HIDE DEF y, rec, ofs, rem
  <1>5. /\ DOMAIN failed = Names /\ Frame(failed) = Frame(rec) /\ failed.saved = rec.saved
        /\ failed.codes = rec.codes /\ failed.total = rec.total /\ failed.dictPos = rec.dictPos
        /\ failed.ahead = rec.ahead /\ failed.summed = rec.summed /\ failed.finished = rec.finished
        /\ failed.last = "PUT_BUF_FAILED"
    BY <1>3 DEF Names, Frame
  <1>6. /\ DOMAIN kept = Names /\ Frame(kept) = Frame(y) /\ kept.saved = y.saved
        /\ kept.codes = y.codes /\ kept.total = y.total /\ kept.dictPos = y.dictPos
        /\ kept.ahead = y.ahead /\ kept.summed = y.summed /\ kept.finished = y.finished
        /\ kept.last = y.last
    BY <1>2 DEF Names, Frame
  <1> HIDE DEF failed, kept
  <1>7. CASE d' = y
    BY <1>1, <1>2, <1>7
  <1>8. CASE d' = failed
    <2>1. TextOK(failed, n, BlockText(e))
      BY <1>3, <1>5, SameText
    <2> QED
      BY <1>1, <1>3, <1>5, <1>8, <2>1
  <1>9. CASE d' = kept
    <2>1. TextOK(kept, n, BlockText(e))
      BY <1>2, <1>6, SameText
    <2> QED
      BY <1>1, <1>2, <1>6, <1>9, <2>1
  <1> QED
    BY <1>4, <1>7, <1>8, <1>9

(* What is written is with the user or in the buffer. *)
OutputOK(e, handed, bytes) ==
  /\ e.remaining \in Nat /\ handed \in Nat /\ bytes \in Nat
  /\ caller # "mz_deflate" => e.remaining = 0
  /\ e.last \notin {"PUT_BUF_FAILED", "BAD_PARAM"} => handed + e.remaining = bytes

(* A block put is with the user, in the buffer, or a failure. *)
LEMMA PutOutput ==
  ASSUME NEW e, NEW n, TextOK(e, n, coded), NEW flush, Tdefl!Put(e, flush), mode \in Modes,
         mode.parsing = "raw" => Len(e.codes) <= LzCodes,
         OutputOK(e, got, made), e.last = "OKAY", e.remaining = 0,
         a.room \in Nat, caller = "mz_deflate" => got <= a.room
  PROVE  /\ OutputOK(d', got', made')
         /\ caller = "mz_deflate" => /\ got <= got' /\ got' <= a.room /\ d'.last = "OKAY"
                                     /\ got < a.room => got < got'
  <1> DEFINE y == Tdefl!Emptied(e, flush)
             rec == Tdefl!Emptied(e, "none")
             bytes == Tdefl!Written(e, flush)
             fits == Tdefl!Smaller(bytes, Tdefl!Room)
             ofs == IF fits < bytes THEN fits ELSE 0
             rem == bytes - fits
             failed == [rec EXCEPT !.last = "PUT_BUF_FAILED"]
             kept == [y EXCEPT !.ofs = ofs, !.remaining = rem]
  <1>1. bytes \in Nat /\ 1 <= bytes /\ bytes <= OutBufSize /\ OutBufSize \in Nat
    BY WrittenFits, DeflateConstants
  <1>2. DOMAIN y = Names /\ y.remaining = 0 /\ y.last = "OKAY"
    BY EmptiedKeeps
  <1>3. DOMAIN rec = Names /\ rec.remaining = 0
    BY EmptiedKeeps
  <1>4. got \in Nat /\ made \in Nat /\ got = made
    BY DEF OutputOK
  <1>5. /\ made' = made + bytes
        /\ \/ caller # "mz_deflate" /\ got' = got + bytes /\ d' = y
           \/ caller # "mz_deflate" /\ got' = got /\ d' = failed
           \/ caller = "mz_deflate" /\ Tdefl!Room >= OutBufSize /\ got' = got + bytes /\ d' = y
           \/ caller = "mz_deflate" /\ ~(Tdefl!Room >= OutBufSize) /\ got' = got + fits /\ d' = kept
    <2> HIDE DEF y, rec, bytes
    <2> QED
      BY DEF Tdefl!Put, y, rec, bytes
  <1> HIDE DEF y, rec, bytes, fits, ofs, rem
  <1>6. failed.remaining = 0 /\ failed.last = "PUT_BUF_FAILED"
    BY <1>3 DEF Names
  <1>7. kept.remaining = rem /\ kept.last = "OKAY"
    BY <1>2 DEF Names
  <1> HIDE DEF failed, kept
  <1>8. CASE caller # "mz_deflate" /\ got' = got + bytes /\ d' = y
    BY <1>1, <1>2, <1>4, <1>5, <1>8 DEF OutputOK
  <1>9. CASE caller # "mz_deflate" /\ got' = got /\ d' = failed
    BY <1>1, <1>4, <1>5, <1>6, <1>9 DEF OutputOK
  <1>10. CASE caller = "mz_deflate" /\ Tdefl!Room >= OutBufSize /\ got' = got + bytes /\ d' = y
    <2>1. got + bytes <= a.room /\ got < got + bytes /\ got + bytes \in Nat
      BY <1>1, <1>4, <1>10 DEF Tdefl!Room
    <2> QED
      BY <1>1, <1>2, <1>4, <1>5, <1>10, <2>1 DEF OutputOK
  <1>11. CASE caller = "mz_deflate" /\ ~(Tdefl!Room >= OutBufSize) /\ got' = got + fits /\ d' = kept
    <2>1. /\ fits \in Nat /\ rem \in Nat /\ fits + rem = bytes /\ got + fits <= a.room
          /\ got < a.room => got < got + fits
      <3> DEFINE space == a.room
                 left == Tdefl!Room
      <3>1. space \in Nat /\ got <= space /\ left = space - got /\ ~(left >= OutBufSize)
        BY <1>11 DEF Tdefl!Room
      <3> HIDE DEF space, left
      <3>2. fits = IF bytes < left THEN bytes ELSE left
        BY DEF fits, Tdefl!Smaller, left
      <3>3. left \in Nat
        BY <1>4, <3>1
      <3>4. fits \in Nat /\ fits <= bytes /\ fits <= left /\ (0 < left => 0 < fits)
        BY <1>1, <3>2, <3>3
      <3>5. rem \in Nat /\ fits + rem = bytes
        BY <1>1, <3>4 DEF rem
      <3>6. got + fits <= space /\ (got < space => got < got + fits)
        BY <1>4, <3>1, <3>3, <3>4
      <3> QED
        BY <3>4, <3>5, <3>6 DEF space
    <2>2. got + fits \in Nat /\ made + bytes \in Nat /\ got + fits + rem = made + bytes
          /\ got <= got + fits
      BY <1>1, <1>4, <2>1
    <2> QED
      BY <1>5, <1>7, <1>11, <2>1, <2>2 DEF OutputOK
  <1> QED
    BY <1>5, <1>8, <1>9, <1>10, <1>11

-----------------------------------------------------------------------------
(* The inductive invariant. *)
EndOK(e, n) ==
  /\ e.finished => e.codes = <<>> /\ e.total = 0 /\ e.ahead = 0 /\ e.saved.len = 0 /\ e.summed = n
  /\ e.last = "DONE" => e.finished /\ e.remaining = 0
InputOK ==
  /\ source \in Sources /\ mode \in Modes /\ taken \in Nat /\ taken <= Len(source)
  /\ a.given \in Nat /\ taken <= a.given
RoomOK == a.room \in Nat /\ (caller = "mz_deflate" => got <= a.room)
CallOK ==
  /\ at \in {"user", "tdefl", "normal", "ending", "flushing", "caller"}
  /\ at = "tdefl" => d.last # "DONE"
  /\ at \in {"normal", "ending"} => d.last = "OKAY" /\ ~d.finished
  /\ at = "normal" => d.remaining = 0
  /\ at = "flushing" => d.last \in {"OKAY", "PUT_BUF_FAILED"}
  /\ told = "none" /\ at = "user" => d.last = "OKAY"
  /\ told = "STREAM_END" => d.last = "DONE"
ProgressOK ==
  /\ start.taken \in Nat /\ start.got \in Nat
  /\ caller = "mz_deflate" /\ at # "user" =>
       /\ start.got < a.room /\ start.taken <= taken /\ start.got <= got
       /\ at = "ending" /\ a.flush # "none" => Tdefl!Complete \/ start.got < got
       /\ at = "flushing" => start.got < got
       /\ at = "caller" /\ d.last = "OKAY" /\ a.flush # "none" => start.got < got
DeflateInv ==
  /\ TextOK(d, taken, coded) /\ Len(d.codes) < LzCodes /\ OutputOK(d, got, made) /\ EndOK(d, taken)
  /\ InputOK /\ RoomOK /\ CallOK /\ ProgressOK /\ Tdefl!DeflateAdvances

(* The text kept, as a formula of the next state, *)
LEMMA TextPrimed ==
  ASSUME UNCHANGED <<source, mode>>, TextOK(d', taken', coded')
  PROVE  TextOK(d, taken, coded)'
  BY DEF TextOK, Window, Filling, Holds, SavedAt, Repeats, Recorded, Prefix

(* and the output kept. *)
LEMMA OutputPrimed ==
  ASSUME UNCHANGED caller, OutputOK(d', got', made')
  PROVE  OutputOK(d, got, made)'
  BY DEF OutputOK

(* What is assumed of a text. *)
LEMMA SourceConstants ==
  ASSUME source \in Sources
  PROVE  Len(source) \in Nat /\ source = [k \in 1 .. Len(source) |-> source[k]]
  BY PackagesAssumption DEF Tdefl!DeflateAssumption

(* Who only reads or writes the other variables keeps the rest. *)
LEMMA CompressorKept ==
  ASSUME TextOK(d, taken, coded), Len(d.codes) < LzCodes, OutputOK(d, got, made), EndOK(d, taken),
         UNCHANGED <<source, mode, caller, d, taken, got, made, coded>>
  PROVE  /\ TextOK(d, taken, coded)' /\ (Len(d.codes) < LzCodes)' /\ OutputOK(d, got, made)'
         /\ EndOK(d, taken)'
  <1>1. TextOK(d, taken, coded)'
    BY TextPrimed
  <1>2. OutputOK(d, got, made)'
    BY OutputPrimed
  <1>3. EndOK(d, taken)'
    BY DEF EndOK
  <1> QED
    BY <1>1, <1>2, <1>3

(* The user's calls change the arguments only. *)
LEMMA UserKeeps == DeflateInv /\ Tdefl!UserCalls => DeflateInv'
  <1> SUFFICES ASSUME DeflateInv, Tdefl!UserCalls PROVE DeflateInv'
    OBVIOUS
  <1>1. PICK flush \in {"none", mode.flush, "finish"}, room \in CodeRooms, offered \in Offers :
          Tdefl!mz_deflate(flush, Tdefl!Smaller(offered, Len(source) - taken), room)
    BY DEF Tdefl!UserCalls
  <1> DEFINE n == Tdefl!Smaller(offered, Len(source) - taken)
  <1>2. source \in Sources /\ mode \in Modes /\ taken \in Nat /\ taken <= Len(source)
        /\ Len(source) \in Nat
    BY SourceConstants DEF DeflateInv, InputOK
  <1>3. n \in Nat /\ room \in Nat
    BY <1>2, DeflateConstants DEF Tdefl!Smaller
  <1>4. /\ at = "user" /\ caller = "mz_deflate"
        /\ a' = [flush |-> flush, given |-> taken + n, room |-> got + room]
        /\ start' = [taken |-> taken, got |-> got]
        /\ UNCHANGED <<source, mode, caller, d, taken, got, made, coded>>
        /\ \/ at' = "user" /\ (told' = "BUF_ERROR" \/ (told' = "STREAM_END" /\ d.last = "DONE"))
           \/ at' = "tdefl" /\ told' = told /\ room > 0 /\ d.last # "DONE"
    BY <1>1 DEF Tdefl!mz_deflate, Tdefl!Tell, Tdefl!caseVars
  <1> HIDE DEF n
  <1>5. got \in Nat
    BY DEF DeflateInv, OutputOK
  <1>6. /\ TextOK(d, taken, coded)' /\ (Len(d.codes) < LzCodes)' /\ OutputOK(d, got, made)'
        /\ EndOK(d, taken)'
    BY <1>4, CompressorKept DEF DeflateInv
  <1>7. a'.given = taken + n /\ a'.room = got + room /\ a'.flush = flush
        /\ start'.taken = taken /\ start'.got = got
    BY <1>4
  <1>8. InputOK' /\ RoomOK'
    BY <1>2, <1>3, <1>4, <1>5, <1>7 DEF InputOK, RoomOK
  <1>9. CallOK'
    <2>1. told = "STREAM_END" => d.last = "DONE"
      BY DEF DeflateInv, CallOK
    <2> QED
      BY <1>4, <2>1 DEF CallOK
  <1>10. ProgressOK'
    BY <1>2, <1>3, <1>4, <1>5, <1>7 DEF ProgressOK
  <1>11. Tdefl!DeflateAdvances'
    BY <1>4 DEF Tdefl!DeflateAdvances
  <1> QED
    BY <1>6, <1>8, <1>9, <1>10, <1>11 DEF DeflateInv

(* What tdefl_flush_output_buffer does to a compressor. *)
LEMMA FlushKeeps ==
  ASSUME NEW e, TextOK(e, taken, coded), OutputOK(e, got, made), EndOK(e, taken), e.last = "OKAY",
         RoomOK, Tdefl!FlushOutput(e)
  PROVE  /\ TextOK(d', taken, coded) /\ OutputOK(d', got', made) /\ EndOK(d', taken)
         /\ d'.codes = e.codes /\ d'.last \in {"OKAY", "DONE"} /\ got' \in Nat /\ got <= got'
         /\ caller = "mz_deflate" => got' <= a.room
            /\ (got < a.room /\ e.remaining > 0 => got < got')
         /\ e.finished /\ e.remaining = 0 => d'.last = "DONE"
  <1> DEFINE n == IF caller = "mz_deflate" THEN Tdefl!Smaller(Tdefl!Room, e.remaining) ELSE 0
             last == IF e.finished /\ e.remaining = n THEN "DONE" ELSE "OKAY"
             ofs == e.ofs + n
             rem == e.remaining - n
             y == [e EXCEPT !.ofs = ofs, !.remaining = rem, !.last = last]
  <1>1. /\ DOMAIN e = Names /\ e.remaining \in Nat /\ got \in Nat /\ made \in Nat
        /\ caller # "mz_deflate" => e.remaining = 0
        /\ got + e.remaining = made /\ a.room \in Nat /\ (caller = "mz_deflate" => got <= a.room)
    BY DEF OutputOK, RoomOK, TextOK, Window, Filling
  <1>2. d' = y /\ got' = got + n
    <2> HIDE DEF n
    <2>1. d' = Tdefl!Drained(e, n) /\ got' = got + n
      BY DEF Tdefl!FlushOutput, n
    <2> QED
      BY <1>1, <2>1 DEF Tdefl!Drained, Names
  <1>3. /\ n \in Nat /\ n <= e.remaining
        /\ caller = "mz_deflate" => got + n <= a.room /\ (got < a.room /\ e.remaining > 0 => 0 < n)
        /\ e.remaining = 0 => n = 0
    <2> DEFINE space == a.room
               m == e.remaining
    <2>1. m \in Nat /\ space \in Nat /\ (caller # "mz_deflate" => m = 0)
          /\ (caller = "mz_deflate" => got <= space)
      BY <1>1
    <2>2. n = IF caller = "mz_deflate" THEN (IF space - got < m THEN space - got ELSE m) ELSE 0
      BY DEF Tdefl!Room, Tdefl!Smaller
    <2> HIDE DEF space, m, n
    <2>3. CASE caller = "mz_deflate"
      <3>1. n = IF space - got < m THEN space - got ELSE m
        BY <2>2, <2>3
      <3>2. n \in Nat /\ n <= m /\ got + n <= space /\ (got < space /\ m > 0 => 0 < n)
            /\ (m = 0 => n = 0)
        BY <1>1, <2>1, <2>3, <3>1
      <3> QED
        BY <3>2 DEF space, m
    <2>4. CASE caller # "mz_deflate"
      BY <2>1, <2>2, <2>4 DEF m
    <2> QED
      BY <2>3, <2>4
  <1>4. last \in {"OKAY", "DONE"} /\ (last = "DONE" => e.finished /\ e.remaining = n)
        /\ (e.finished /\ e.remaining = n => last = "DONE")
    OBVIOUS
  <1>5. rem \in Nat /\ (e.remaining = n => rem = 0) /\ got + n + rem = made
        /\ (caller # "mz_deflate" => rem = 0)
    BY <1>1, <1>3
  <1> HIDE DEF n, last, ofs, rem
  <1>6. /\ y.remaining = rem /\ y.last = last /\ DOMAIN y = Names /\ Frame(y) = Frame(e)
        /\ y.saved = e.saved /\ y.codes = e.codes /\ y.total = e.total /\ y.dictPos = e.dictPos
        /\ y.finished = e.finished /\ y.summed = e.summed /\ y.ahead = e.ahead
    BY <1>1 DEF Names, Frame
  <1> HIDE DEF y
  <1>7. TextOK(y, taken, coded)
    BY <1>6, SameText
  <1>8. EndOK(y, taken)
    BY <1>4, <1>5, <1>6 DEF EndOK
  <1>9. got' \in Nat /\ got <= got' /\ (0 < n => got < got')
    BY <1>1, <1>2, <1>3
  <1>10. OutputOK(y, got', made)
    BY <1>1, <1>2, <1>5, <1>6, <1>9 DEF OutputOK
  <1> QED
    BY <1>2, <1>3, <1>4, <1>6, <1>7, <1>8, <1>9, <1>10

(* A call refused, emptying the buffer or going on. *)
LEMMA CompressKeeps == DeflateInv /\ Tdefl!Compress => DeflateInv'
  <1> SUFFICES ASSUME DeflateInv, Tdefl!Compress PROVE DeflateInv'
    OBVIOUS
  <1> DEFINE e == [d EXCEPT !.wants = @ \/ a.flush = "finish"]
             refused == [d EXCEPT !.last = "BAD_PARAM"]
             going == [e EXCEPT !.ofs = 0]
  <1>1. /\ TextOK(d, taken, coded) /\ Len(d.codes) < LzCodes /\ OutputOK(d, got, made)
        /\ EndOK(d, taken) /\ InputOK /\ RoomOK /\ CallOK /\ ProgressOK
    BY DEF DeflateInv
  <1>2. DOMAIN d = Names /\ got \in Nat /\ d.remaining \in Nat
    BY <1>1 DEF TextOK, Window, Filling, OutputOK
  <1>3. at = "tdefl" /\ d.last # "DONE" /\ told # "STREAM_END"
        /\ UNCHANGED <<source, mode, caller, a, told, taken, made, coded, start>>
    BY <1>1 DEF Tdefl!Compress, Tdefl!Return, Tdefl!caseVars, CallOK
  <1>4. /\ DOMAIN e = Names /\ Frame(e) = Frame(d) /\ e.saved = d.saved /\ e.codes = d.codes
        /\ e.total = d.total /\ e.dictPos = d.dictPos /\ e.remaining = d.remaining
        /\ e.finished = d.finished /\ e.last = d.last /\ e.summed = d.summed /\ e.ahead = d.ahead
    <2> DEFINE wants == d.wants \/ a.flush = "finish"
    <2> HIDE DEF wants
    <2>1. e = [d EXCEPT !.wants = wants]
      BY <1>2 DEF wants, Names
    <2> HIDE DEF e
    <2> QED
      BY <1>2, <2>1 DEF Names, Frame
  <1>5. \/ d' = refused /\ got' = got /\ at' = "caller"
        \/ d.last = "OKAY" /\ (d.remaining > 0 \/ d.finished) /\ Tdefl!FlushOutput(e)
           /\ at' = "caller"
        \/ d.last = "OKAY" /\ d.remaining = 0 /\ ~d.finished /\ d' = going /\ got' = got
           /\ at' = "normal"
    <2> HIDE DEF e, refused, going
    <2> QED
      BY DEF Tdefl!Compress, Tdefl!Misused, Tdefl!Return, e, refused, going
  <1> HIDE DEF e
  <1>6. /\ DOMAIN refused = Names /\ Frame(refused) = Frame(d) /\ refused.saved = d.saved
        /\ refused.codes = d.codes /\ refused.total = d.total /\ refused.dictPos = d.dictPos
        /\ refused.remaining = d.remaining /\ refused.finished = d.finished
        /\ refused.last = "BAD_PARAM" /\ refused.summed = d.summed /\ refused.ahead = d.ahead
    BY <1>2 DEF Names, Frame
  <1>7. /\ DOMAIN going = Names /\ Frame(going) = Frame(e) /\ going.saved = e.saved
        /\ going.codes = e.codes /\ going.total = e.total /\ going.dictPos = e.dictPos
        /\ going.remaining = e.remaining /\ going.finished = e.finished
        /\ going.last = e.last /\ going.summed = e.summed /\ going.ahead = e.ahead
    BY <1>4 DEF Names, Frame
  <1> HIDE DEF refused, going
  <1>8. InputOK'
    BY <1>1, <1>3 DEF InputOK
  <1>9. CASE d' = refused /\ got' = got /\ at' = "caller"
    <2>1. TextOK(d', taken', coded') /\ OutputOK(d', got', made')
      <3>1. TextOK(refused, taken, coded)
        BY <1>1, <1>6, SameText
      <3>2. OutputOK(refused, got, made)
        BY <1>1, <1>6 DEF OutputOK
      <3> QED
        BY <1>3, <1>9, <3>1, <3>2
    <2>2. TextOK(d, taken, coded)' /\ OutputOK(d, got, made)'
      BY <1>3, <2>1, TextPrimed, OutputPrimed
    <2>3. EndOK(d, taken)' /\ (Len(d.codes) < LzCodes)'
      BY <1>1, <1>3, <1>6, <1>9 DEF EndOK
    <2>4. RoomOK'
      BY <1>1, <1>3, <1>9 DEF RoomOK
    <2>5. CallOK' /\ ProgressOK' /\ Tdefl!DeflateAdvances'
      BY <1>1, <1>3, <1>6, <1>9 DEF CallOK, ProgressOK, Tdefl!DeflateAdvances
    <2> QED
      BY <1>8, <2>2, <2>3, <2>4, <2>5 DEF DeflateInv
  <1>10. CASE d.last = "OKAY" /\ (d.remaining > 0 \/ d.finished) /\ Tdefl!FlushOutput(e)
         /\ at' = "caller"
    <2>1. TextOK(e, taken, coded) /\ OutputOK(e, got, made) /\ EndOK(e, taken) /\ e.last = "OKAY"
      <3>1. TextOK(e, taken, coded)
        BY <1>1, <1>4, SameText
      <3> QED
        BY <1>1, <1>4, <1>10, <3>1 DEF OutputOK, EndOK
    <2>2. /\ TextOK(d', taken, coded) /\ OutputOK(d', got', made) /\ EndOK(d', taken)
          /\ d'.codes = e.codes /\ d'.last \in {"OKAY", "DONE"} /\ got' \in Nat /\ got <= got'
          /\ caller = "mz_deflate" => got' <= a.room
             /\ (got < a.room /\ e.remaining > 0 => got < got')
          /\ e.finished /\ e.remaining = 0 => d'.last = "DONE"
      BY <1>1, <1>10, <2>1, FlushKeeps
    <2>3. TextOK(d, taken, coded)' /\ OutputOK(d, got, made)'
      BY <1>3, <2>2, TextPrimed, OutputPrimed
    <2>4. EndOK(d, taken)' /\ (Len(d.codes) < LzCodes)'
      BY <1>1, <1>3, <1>4, <2>2 DEF EndOK
    <2>5. RoomOK'
      BY <1>1, <1>3, <2>2 DEF RoomOK
    <2>6. CallOK' /\ Tdefl!DeflateAdvances'
      BY <1>3, <1>10 DEF CallOK, Tdefl!DeflateAdvances
    <2>7. ASSUME caller = "mz_deflate", d'.last = "OKAY" PROVE start.got < got'
      <3>1. start.got \in Nat /\ start.got < a.room /\ start.got <= got /\ a.room \in Nat
            /\ got <= a.room
        BY <1>1, <1>3, <2>7 DEF ProgressOK, RoomOK
      <3>2. e.remaining > 0
        BY <1>2, <1>4, <1>10, <2>2, <2>7
      <3>3. got < a.room => got < got'
        BY <2>2, <2>7, <3>2
      <3> QED
        BY <1>2, <2>2, <3>1, <3>3
    <2>8. ProgressOK'
      <3>1. start.taken \in Nat /\ start.got \in Nat
            /\ (caller = "mz_deflate" => start.got < a.room /\ start.taken <= taken /\ start.got <= got)
        BY <1>1, <1>3 DEF ProgressOK
      <3>2. caller = "mz_deflate" => start.got <= got'
        BY <1>2, <2>2, <3>1
      <3> QED
        BY <1>3, <1>10, <2>7, <3>1, <3>2 DEF ProgressOK
    <2> QED
      BY <1>8, <2>3, <2>4, <2>5, <2>6, <2>8 DEF DeflateInv
  <1>11. CASE d.last = "OKAY" /\ d.remaining = 0 /\ ~d.finished /\ d' = going /\ got' = got
              /\ at' = "normal"
    <2>1. TextOK(d', taken', coded') /\ OutputOK(d', got', made')
      <3>1. TextOK(e, taken, coded)
        BY <1>1, <1>4, SameText
      <3>2. TextOK(going, taken, coded)
        BY <1>7, <3>1, SameText
      <3>3. OutputOK(going, got, made)
        BY <1>1, <1>4, <1>7 DEF OutputOK
      <3> QED
        BY <1>3, <1>11, <3>2, <3>3
    <2>2. TextOK(d, taken, coded)' /\ OutputOK(d, got, made)'
      BY <1>3, <2>1, TextPrimed, OutputPrimed
    <2>3. EndOK(d, taken)' /\ (Len(d.codes) < LzCodes)'
      BY <1>1, <1>3, <1>4, <1>7, <1>11 DEF EndOK
    <2>4. RoomOK'
      BY <1>1, <1>3, <1>11 DEF RoomOK
    <2>5. CallOK' /\ ProgressOK' /\ Tdefl!DeflateAdvances'
      BY <1>1, <1>3, <1>4, <1>7, <1>11 DEF CallOK, ProgressOK, Tdefl!DeflateAdvances
    <2> QED
      BY <1>8, <2>2, <2>3, <2>4, <2>5 DEF DeflateInv
  <1> QED
    BY <1>5, <1>9, <1>10, <1>11

(* The compressor after bytes entered. *)
LEMMA FilledText ==
  ASSUME TextOK(d, taken, coded), InputOK
  PROVE  /\ TextOK(Tdefl!Filled, taken + Tdefl!Moving, coded) /\ Rest(Tdefl!Filled) = Rest(d)
         /\ Tdefl!Filled.codes = d.codes
         /\ Tdefl!Filled.ahead = d.ahead + Tdefl!Moving /\ Tdefl!Moving \in Nat /\ d.ahead \in Nat
         /\ Tdefl!Ahead \in Nat
         /\ taken + Tdefl!Moving <= a.given /\ taken + Tdefl!Moving <= Len(source)
         /\ (d.ahead > 0 \/ Tdefl!Ahead > 0 => Tdefl!Filled.ahead >= 1)
  <1>1. /\ taken \in Nat /\ Len(source) \in Nat /\ taken <= Len(source) /\ a.given \in Nat
        /\ taken <= a.given
    BY SourceConstants DEF InputOK
  <1>2. Tdefl!Ahead \in Nat /\ taken + Tdefl!Ahead <= Len(source) /\ taken + Tdefl!Ahead <= a.given
    BY <1>1 DEF Tdefl!Ahead, Tdefl!Smaller
  <1>3. /\ Window(d) /\ d.pos + d.ahead = taken /\ d.pos \in Nat /\ d.ahead \in Nat
        /\ SavedAt(d.saved, d.pos, d.ahead) /\ d.ahead <= MaxMatch
        /\ Recorded(d, coded, d.pos - HeldLen(d.saved))
    BY DEF TextOK, Window, Filling
  <1> DEFINE f == Tdefl!Filled
             n == Tdefl!Moving
  <1>4. /\ Window(f) /\ f.ahead = d.ahead + n /\ n \in Nat /\ n <= Tdefl!Ahead
        /\ Untouched(f) = Untouched(d)
    BY <1>2, <1>3, FilledKeeps
  <1>5. Tdefl!Ahead > 0 /\ d.ahead = 0 => n > 0
    <2> DEFINE left == Tdefl!Ahead
    <2>1. n = IF left < MaxMatch - d.ahead THEN left ELSE MaxMatch - d.ahead
      BY DEF Tdefl!Moving, Tdefl!Smaller
    <2> HIDE DEF left, n
    <2> QED
      BY <1>2, <2>1, DeflateConstants DEF left, Tdefl!MinMatch
  <1> HIDE DEF f, n
  <1>6. /\ f.pos = d.pos /\ f.saved = d.saved /\ f.codes = d.codes /\ f.total = d.total
        /\ f.dictPos = d.dictPos /\ Rest(f) = Rest(d)
    BY <1>4 DEF Untouched, Rest
  <1>7. f.pos + f.ahead = taken + n
    BY <1>1, <1>3, <1>4, <1>6
  <1>8. SavedAt(f.saved, f.pos, f.ahead)
    <2>1. f.saved.len \in Nat
      BY <1>3, <1>6 DEF SavedAt, IsRecord
    <2>2. f.saved.len - 1 <= d.ahead => f.saved.len - 1 <= f.ahead
      BY <1>3, <1>4, <2>1
    <2> QED
      BY <1>3, <1>6, <2>2 DEF SavedAt
  <1>9. Recorded(f, coded, f.pos - HeldLen(f.saved))
    <2>1. Recorded(f, coded, d.pos - HeldLen(d.saved))
      BY <1>3, <1>6, RecordedSame
    <2> QED
      BY <1>6, <2>1
  <1>10. TextOK(f, taken + n, coded)
    BY <1>4, <1>7, <1>8, <1>9 DEF TextOK
  <1>11. taken + n <= a.given /\ taken + n <= Len(source)
         /\ (d.ahead > 0 \/ Tdefl!Ahead > 0 => f.ahead >= 1)
    BY <1>1, <1>2, <1>3, <1>4, <1>5
  <1> QED
    BY <1>2, <1>3, <1>4, <1>6, <1>10, <1>11 DEF f, n

(* A match held back has the length of a match. *)
LEMMA SavedIsLong ==
  ASSUME NEW e, NEW n, NEW text, TextOK(e, n, text)
  PROVE  SavedLen(e)
  <1> DEFINE l == e.saved.len
  <1>1. l \in Nat /\ (l > 0 => Tdefl!MinMatch <= l)
    BY DEF TextOK, SavedAt, IsRecord
  <1> HIDE DEF l
  <1>2. l = 0 \/ (l \in Nat /\ l >= Tdefl!MinMatch)
    BY <1>1 DEF Tdefl!MinMatch
  <1> QED
    BY <1>2 DEF SavedLen, l

(* A round may put a block, which may fail or not fit. *)
LEMMA RoundKeepsAll == DeflateInv /\ Tdefl!Round => DeflateInv'
  <1> SUFFICES ASSUME DeflateInv, Tdefl!Round PROVE DeflateInv'
    OBVIOUS
  <1> DEFINE f == Tdefl!Filled
             m == Tdefl!Match(f)
             e == Tdefl!Moved(Tdefl!Parsed(f, m), Tdefl!Move(f, m))
  <1>1. /\ TextOK(d, taken, coded) /\ Len(d.codes) < LzCodes /\ OutputOK(d, got, made)
        /\ EndOK(d, taken) /\ InputOK /\ RoomOK /\ CallOK /\ ProgressOK
    BY DEF DeflateInv
  <1>2. /\ at = "normal" /\ taken' = taken + Tdefl!Moving /\ Tdefl!Looping
        /\ UNCHANGED <<source, mode, caller, a, told, start>>
    BY DEF Tdefl!Round, Tdefl!caseVars
  <1>3. d.last = "OKAY" /\ ~d.finished /\ d.remaining = 0 /\ told # "STREAM_END"
    BY <1>1, <1>2 DEF CallOK
  <1>4. /\ TextOK(f, taken', coded) /\ Rest(f) = Rest(d) /\ f.codes = d.codes
        /\ f.ahead = d.ahead + Tdefl!Moving /\ Tdefl!Moving \in Nat /\ d.ahead \in Nat
        /\ Tdefl!Ahead \in Nat
        /\ taken' <= a.given /\ taken' <= Len(source)
        /\ (d.ahead > 0 \/ Tdefl!Ahead > 0 => f.ahead >= 1)
    BY <1>1, <1>2, FilledText
  <1>5. f.last = "OKAY" /\ ~f.finished /\ f.remaining = 0
    BY <1>3, <1>4 DEF Rest
  <1>6. taken \in Nat /\ taken' \in Nat /\ taken <= taken'
    BY <1>1, <1>2, <1>4 DEF InputOK
  <1>7. InputOK'
    BY <1>1, <1>2, <1>4, <1>6 DEF InputOK
  <1>8. /\ start.taken \in Nat /\ start.got \in Nat
        /\ caller = "mz_deflate" =>
             start.got < a.room /\ start.taken <= taken /\ start.taken <= taken' /\ start.got <= got
    BY <1>1, <1>2, <1>6 DEF ProgressOK
  <1>9. \/ a.flush = "none" /\ f.ahead < MaxMatch /\ d' = f /\ at' = "ending"
           /\ UNCHANGED <<got, made, coded>>
        \/ /\ ~(a.flush = "none" /\ f.ahead < MaxMatch)
           /\ \/ ~Tdefl!Full(e) /\ d' = e /\ UNCHANGED <<at, got, made, coded>>
              \/ /\ Tdefl!Full(e) /\ Tdefl!Put(e, "none")
                 /\ at' = IF d'.last # "OKAY" THEN "caller" ELSE IF d'.remaining > 0 THEN "ending" ELSE at
    <2> HIDE DEF f
    <2> QED
      BY DEF Tdefl!Round, f
  <1> HIDE DEF f
  <1>10. ASSUME d' = f \/ (d' = e /\ TextOK(e, taken', coded) /\ Rest(e) = Rest(d) /\ Len(e.codes) < LzCodes),
                UNCHANGED <<got, made, coded>>, at' = "normal" \/ (at' = "ending" /\ a.flush = "none")
         PROVE  DeflateInv'
    <2> HIDE DEF e
    <2>1. TextOK(d', taken', coded') /\ Rest(d') = Rest(d) /\ Len(d'.codes) < LzCodes
      BY <1>1, <1>4, <1>10
    <2>2. d'.last = "OKAY" /\ ~d'.finished /\ d'.remaining = 0
      BY <1>3, <2>1 DEF Rest
    <2>3. OutputOK(d', got', made')
      BY <1>1, <1>3, <1>10, <2>2 DEF OutputOK
    <2>4. TextOK(d, taken, coded)' /\ OutputOK(d, got, made)'
      BY <1>2, <2>1, <2>3, TextPrimed, OutputPrimed
    <2>5. EndOK(d, taken)' /\ (Len(d.codes) < LzCodes)'
      BY <2>1, <2>2 DEF EndOK
    <2>6. RoomOK'
      BY <1>1, <1>2, <1>10 DEF RoomOK
    <2>7. CallOK' /\ Tdefl!DeflateAdvances'
      BY <1>2, <1>3, <1>10, <2>2 DEF CallOK, Tdefl!DeflateAdvances
    <2>8. ProgressOK'
      BY <1>2, <1>8, <1>10 DEF ProgressOK
    <2> QED
      BY <1>7, <2>1, <2>4, <2>5, <2>6, <2>7, <2>8 DEF DeflateInv
  <1>11. CASE a.flush = "none" /\ f.ahead < MaxMatch /\ d' = f /\ at' = "ending"
         /\ UNCHANGED <<got, made, coded>>
    BY <1>10, <1>11
  <1>12. ASSUME ~(a.flush = "none" /\ f.ahead < MaxMatch)
         PROVE  TextOK(e, taken', coded) /\ Rest(e) = Rest(d)
                /\ (mode.parsing = "raw" => Len(e.codes) <= LzCodes)
    <2>1. f.ahead >= 1
      <3>1. f.ahead \in Nat
        BY <1>4
      <3>2. CASE a.flush = "none"
        BY <1>12, <3>1, <3>2, DeflateConstants
      <3>3. CASE a.flush # "none"
        BY <1>2, <1>4, <3>3 DEF Tdefl!Looping
      <3> QED
        BY <3>2, <3>3
    <2>2. MatchOK(f, m)
      <3>1. SavedLen(f) /\ Window(f)
        BY <1>4, SavedIsLong DEF TextOK
      <3>2. mode.probes \in Nat
        BY <1>1, ModeConstants DEF InputOK
      <3> QED
        BY <3>1, <3>2, MatchFinds
    <2>3. Len(f.codes) < LzCodes
      BY <1>1, <1>4
    <2> HIDE DEF m
    <2>4. /\ TextOK(e, taken', coded) /\ Rest(e) = Rest(f)
          /\ mode.parsing = "raw" => Len(e.codes) <= LzCodes
      BY <1>4, <2>1, <2>2, <2>3, RoundKeeps
    <2> QED
      BY <1>4, <2>4
  <1> HIDE DEF e
  <1>13. CASE ~(a.flush = "none" /\ f.ahead < MaxMatch) /\ ~Tdefl!Full(e) /\ d' = e
         /\ UNCHANGED <<at, got, made, coded>>
    <2>1. TextOK(e, taken', coded) /\ Rest(e) = Rest(d)
      BY <1>12, <1>13
    <2>2. Len(e.codes) < LzCodes
      <3>1. Len(e.codes) \in Nat
        BY <2>1, BehindIt
      <3> QED
        BY <1>13, <3>1, DeflateConstants DEF Tdefl!Full
    <2> QED
      BY <1>2, <1>10, <1>13, <2>1, <2>2
  <1>14. CASE /\ ~(a.flush = "none" /\ f.ahead < MaxMatch) /\ Tdefl!Put(e, "none")
              /\ at' = IF d'.last # "OKAY" THEN "caller" ELSE IF d'.remaining > 0 THEN "ending" ELSE at
    <2>1. TextOK(e, taken', coded) /\ Rest(e) = Rest(d)
          /\ (mode.parsing = "raw" => Len(e.codes) <= LzCodes)
      BY <1>12, <1>14
    <2>2. e.last = "OKAY" /\ e.remaining = 0 /\ OutputOK(e, got, made)
      <3>1. e.last = "OKAY" /\ e.remaining = 0
        BY <1>3, <2>1 DEF Rest
      <3> QED
        BY <1>1, <1>3, <3>1 DEF OutputOK
    <2>3. /\ TextOK(d', taken', coded') /\ d'.codes = <<>>
          /\ d'.finished => "none" = "finish"
          /\ d'.last = e.last \/ d'.last = "PUT_BUF_FAILED"
      BY <1>14, <2>1, PutText
    <2>4. ~d'.finished /\ d'.last \in {"OKAY", "PUT_BUF_FAILED"}
      <3>1. "none" # "finish"
        OBVIOUS
      <3> QED
        BY <2>2, <2>3, <3>1
    <2>5. mode \in Modes /\ a.room \in Nat /\ (caller = "mz_deflate" => got <= a.room)
      BY <1>1 DEF InputOK, RoomOK
    <2>6. /\ OutputOK(d', got', made')
          /\ caller = "mz_deflate" => /\ got <= got' /\ got' <= a.room /\ d'.last = "OKAY"
                                      /\ got < a.room => got < got'
      BY <1>14, <2>1, <2>2, <2>5, PutOutput
    <2>7. TextOK(d, taken, coded)' /\ OutputOK(d, got, made)'
      BY <1>2, <2>3, <2>6, TextPrimed, OutputPrimed
    <2>8. EndOK(d, taken)' /\ (Len(d.codes) < LzCodes)'
      BY <2>3, <2>4, DeflateConstants DEF EndOK
    <2>9. RoomOK'
      BY <1>2, <2>5, <2>6 DEF RoomOK
    <2>10. CallOK' /\ Tdefl!DeflateAdvances'
      <3>1. d'.remaining \in Nat
        BY <2>6 DEF OutputOK
      <3> QED
        BY <1>2, <1>3, <1>14, <2>4, <3>1 DEF CallOK, Tdefl!DeflateAdvances
    <2>11. ASSUME caller = "mz_deflate" PROVE start.got < got' /\ start.got <= got'
      <3>1. got \in Nat /\ got' \in Nat
        BY <2>2, <2>6 DEF OutputOK
      <3> QED
        BY <1>8, <2>5, <2>6, <2>11, <3>1
    <2>12. ProgressOK'
      BY <1>2, <1>8, <2>11 DEF ProgressOK
    <2> QED
      BY <1>7, <2>7, <2>8, <2>9, <2>10, <2>12 DEF DeflateInv
  <1> QED
    BY <1>9, <1>11, <1>13, <1>14

(* The loop ends where nothing is left to do in it. *)
LEMMA LeaveKeeps == DeflateInv /\ Tdefl!Leave => DeflateInv'
  <1> SUFFICES ASSUME DeflateInv, Tdefl!Leave PROVE DeflateInv'
    OBVIOUS
  <1>1. /\ TextOK(d, taken, coded) /\ Len(d.codes) < LzCodes /\ OutputOK(d, got, made)
        /\ EndOK(d, taken) /\ InputOK /\ RoomOK /\ CallOK /\ ProgressOK
    BY DEF DeflateInv
  <1>2. /\ at = "normal" /\ at' = "ending" /\ ~Tdefl!Looping
        /\ UNCHANGED <<source, mode, caller, d, a, told, taken, got, made, coded, start>>
    BY DEF Tdefl!Leave, Tdefl!caseVars
  <1>3. /\ TextOK(d, taken, coded)' /\ (Len(d.codes) < LzCodes)' /\ OutputOK(d, got, made)'
        /\ EndOK(d, taken)'
    BY <1>1, <1>2, CompressorKept
  <1>4. InputOK' /\ RoomOK'
    BY <1>1, <1>2 DEF InputOK, RoomOK
  <1>5. CallOK' /\ Tdefl!DeflateAdvances'
    BY <1>1, <1>2 DEF CallOK, Tdefl!DeflateAdvances
  <1>6. a.flush # "none" => Tdefl!Complete
    <2>1. Tdefl!Ahead \in Nat /\ d.ahead \in Nat
      BY <1>1, FilledText
    <2>2. d.remaining = 0
      BY <1>1, <1>2 DEF CallOK
    <2> QED
      BY <1>2, <2>1, <2>2 DEF Tdefl!Looping, Tdefl!Complete
  <1>7. Tdefl!Complete' = Tdefl!Complete
    BY <1>2 DEF Tdefl!Complete, Tdefl!Ahead, Tdefl!Smaller
  <1>8. ProgressOK'
    <2> DEFINE whole == Tdefl!Complete
    <2>1. (a.flush # "none" => whole) /\ (whole <=> Tdefl!Complete')
      BY <1>6, <1>7
    <2> HIDE DEF whole
    <2> QED
      BY <1>1, <1>2, <2>1 DEF ProgressOK
  <1> QED
    BY <1>3, <1>4, <1>5, <1>8 DEF DeflateInv

(* Summing up input changes nothing else. *)
LEMMA SummedKeeps ==
  ASSUME TextOK(d, taken, coded)
  PROVE  /\ TextOK(Tdefl!Summed, taken, coded) /\ Tdefl!Summed.summed = taken
         /\ Tdefl!Summed.codes = d.codes
         /\ Tdefl!Summed.total = d.total /\ Tdefl!Summed.ahead = d.ahead
         /\ Tdefl!Summed.saved = d.saved
         /\ Tdefl!Summed.remaining = d.remaining /\ Tdefl!Summed.last = d.last
         /\ Tdefl!Summed.finished = d.finished
  <1>1. DOMAIN d = Names
    BY DEF TextOK, Window, Filling
  <1> DEFINE y == Tdefl!Summed
  <1>2. /\ DOMAIN y = Names /\ Frame(y) = Frame(d) /\ y.saved = d.saved /\ y.codes = d.codes
        /\ y.total = d.total /\ y.dictPos = d.dictPos /\ y.summed = taken /\ y.ahead = d.ahead
        /\ y.remaining = d.remaining /\ y.last = d.last /\ y.finished = d.finished
    BY <1>1 DEF Tdefl!Summed, Names, Frame
  <1> HIDE DEF y
  <1>3. TextOK(y, taken, coded)
    BY <1>2, SameText
  <1> QED
    BY <1>2, <1>3 DEF y

(* The last block of a flush has everything in it. *)
LEMMA EndBlockKeeps == DeflateInv /\ Tdefl!EndBlock => DeflateInv'
  <1> SUFFICES ASSUME DeflateInv, Tdefl!EndBlock PROVE DeflateInv'
    OBVIOUS
  <1> DEFINE e == Tdefl!Summed
             flush == a.flush
  <1>1. /\ TextOK(d, taken, coded) /\ Len(d.codes) < LzCodes /\ OutputOK(d, got, made)
        /\ EndOK(d, taken) /\ InputOK /\ RoomOK /\ CallOK /\ ProgressOK
    BY DEF DeflateInv
  <1>2. /\ at = "ending" /\ at' = "flushing" /\ Tdefl!Complete /\ Tdefl!Put(e, flush)
        /\ UNCHANGED <<source, mode, caller, a, told, taken, start>>
    BY DEF Tdefl!EndBlock, Tdefl!caseVars
  <1>3. /\ d.last = "OKAY" /\ ~d.finished /\ told # "STREAM_END" /\ d.ahead = 0 /\ d.remaining = 0
    BY <1>1, <1>2 DEF CallOK, Tdefl!Complete
  <1>4. /\ TextOK(e, taken, coded) /\ e.summed = taken /\ e.codes = d.codes /\ e.ahead = 0
        /\ e.saved = d.saved /\ e.remaining = 0 /\ e.last = "OKAY" /\ e.finished = d.finished
    BY <1>1, <1>3, SummedKeeps
  <1> HIDE DEF e, flush
  <1>5. OutputOK(e, got, made) /\ (mode.parsing = "raw" => Len(e.codes) <= LzCodes)
    <2>1. OutputOK(e, got, made)
      BY <1>1, <1>3, <1>4 DEF OutputOK
    <2>2. Len(d.codes) \in Nat
      BY <1>1, BehindIt
    <2> QED
      BY <1>1, <1>4, <2>1, <2>2, DeflateConstants
  <1>6. e.saved.len = 0
    <2>1. e.saved.len \in Nat
          /\ (e.saved.len > 0 => Tdefl!MinMatch <= e.saved.len /\ e.saved.len - 1 <= e.ahead)
      BY <1>4 DEF TextOK, SavedAt, IsRecord
    <2> QED
      BY <1>4, <2>1 DEF Tdefl!MinMatch
  <1>7. /\ TextOK(d', taken, coded') /\ d'.codes = <<>> /\ d'.total = 0 /\ d'.ahead = 0
        /\ d'.saved.len = 0 /\ d'.summed = taken
        /\ d'.last \in {"OKAY", "PUT_BUF_FAILED"}
    BY <1>2, <1>4, <1>6, PutText
  <1>8. mode \in Modes /\ a.room \in Nat /\ (caller = "mz_deflate" => got <= a.room)
    BY <1>1 DEF InputOK, RoomOK
  <1>9. /\ OutputOK(d', got', made')
        /\ caller = "mz_deflate" => /\ got <= got' /\ got' <= a.room /\ d'.last = "OKAY"
                                    /\ got < a.room => got < got'
    BY <1>2, <1>4, <1>5, <1>8, PutOutput
  <1>10. TextOK(d, taken, coded)' /\ OutputOK(d, got, made)'
    BY <1>2, <1>7, <1>9, TextPrimed, OutputPrimed
  <1>11. EndOK(d, taken)' /\ (Len(d.codes) < LzCodes)'
    BY <1>2, <1>7, DeflateConstants DEF EndOK
  <1>12. InputOK' /\ RoomOK'
    BY <1>1, <1>2, <1>8, <1>9 DEF InputOK, RoomOK
  <1>13. CallOK' /\ Tdefl!DeflateAdvances'
    BY <1>2, <1>3, <1>7 DEF CallOK, Tdefl!DeflateAdvances
  <1>14. /\ start.taken \in Nat /\ start.got \in Nat
         /\ caller = "mz_deflate" =>
              start.got < a.room /\ start.taken <= taken /\ start.got < got' /\ start.got <= got'
    <2>1. /\ start.taken \in Nat /\ start.got \in Nat
          /\ caller = "mz_deflate" => start.got < a.room /\ start.taken <= taken /\ start.got <= got
      BY <1>1, <1>2 DEF ProgressOK
    <2>2. got \in Nat /\ got' \in Nat
      BY <1>1, <1>9 DEF OutputOK
    <2> QED
      BY <1>8, <1>9, <2>1, <2>2
  <1>15. ProgressOK'
    BY <1>2, <1>14 DEF ProgressOK
  <1> QED
    BY <1>10, <1>11, <1>12, <1>13, <1>15 DEF DeflateInv

(* The end of tdefl_compress empties the buffer as far as there is room. *)
LEMMA EndCallKeeps == DeflateInv /\ Tdefl!EndCall => DeflateInv'
  <1> SUFFICES ASSUME DeflateInv, Tdefl!EndCall PROVE DeflateInv'
    OBVIOUS
  <1> DEFINE e == IF at = "ending" THEN Tdefl!Summed ELSE d
  <1>1. /\ TextOK(d, taken, coded) /\ Len(d.codes) < LzCodes /\ OutputOK(d, got, made)
        /\ EndOK(d, taken) /\ InputOK /\ RoomOK /\ CallOK /\ ProgressOK
    BY DEF DeflateInv
  <1>2. /\ at = "flushing" \/ (at = "ending" /\ ~Tdefl!Complete)
        /\ at' = "caller" /\ UNCHANGED <<source, mode, caller, a, told, taken, made, coded, start>>
        /\ \/ d.last = "PUT_BUF_FAILED" /\ UNCHANGED <<d, got>>
           \/ d.last # "PUT_BUF_FAILED" /\ Tdefl!FlushOutput(e)
    BY DEF Tdefl!EndCall, Tdefl!Return, Tdefl!caseVars
  <1>3. d.last \in {"OKAY", "PUT_BUF_FAILED"} /\ told # "STREAM_END"
        /\ (at = "ending" => ~d.finished)
    BY <1>1, <1>2 DEF CallOK
  <1>4. InputOK' /\ Tdefl!DeflateAdvances'
    BY <1>1, <1>2 DEF InputOK, Tdefl!DeflateAdvances
  <1>5. /\ start.taken \in Nat /\ start.got \in Nat
        /\ caller = "mz_deflate" =>
             /\ start.got < a.room /\ start.taken <= taken /\ start.got <= got
             /\ a.flush # "none" => start.got < got
    BY <1>1, <1>2 DEF ProgressOK
  <1>6. CASE d.last = "PUT_BUF_FAILED" /\ UNCHANGED <<d, got>>
    <2>1. /\ TextOK(d, taken, coded)' /\ (Len(d.codes) < LzCodes)' /\ OutputOK(d, got, made)'
          /\ EndOK(d, taken)'
      BY <1>1, <1>2, <1>6, CompressorKept
    <2>2. RoomOK'
      BY <1>1, <1>2, <1>6 DEF RoomOK
    <2>3. CallOK' /\ ProgressOK'
      BY <1>2, <1>3, <1>5, <1>6 DEF CallOK, ProgressOK
    <2> QED
      BY <1>4, <2>1, <2>2, <2>3 DEF DeflateInv
  <1>7. CASE d.last # "PUT_BUF_FAILED" /\ Tdefl!FlushOutput(e)
    <2>1. /\ TextOK(e, taken, coded) /\ OutputOK(e, got, made) /\ EndOK(e, taken) /\ e.last = "OKAY"
          /\ e.codes = d.codes
      <3>1. CASE at = "ending"
        <4>1. /\ TextOK(e, taken, coded) /\ e.remaining = d.remaining /\ e.last = "OKAY"
              /\ ~e.finished
              /\ e.codes = d.codes
          BY <1>1, <1>3, <1>7, <3>1, SummedKeeps
        <4> QED
          BY <1>1, <1>3, <1>7, <4>1 DEF OutputOK, EndOK
      <3>2. CASE at # "ending"
        BY <1>1, <1>3, <1>7, <3>2
      <3> QED
        BY <3>1, <3>2
    <2> HIDE DEF e
    <2>2. /\ TextOK(d', taken, coded) /\ OutputOK(d', got', made) /\ EndOK(d', taken)
          /\ d'.codes = e.codes /\ d'.last \in {"OKAY", "DONE"} /\ got' \in Nat /\ got <= got'
          /\ caller = "mz_deflate" => got' <= a.room
             /\ (got < a.room /\ e.remaining > 0 => got < got')
      BY <1>1, <1>7, <2>1, FlushKeeps
    <2>3. TextOK(d, taken, coded)' /\ OutputOK(d, got, made)'
      BY <1>2, <2>2, TextPrimed, OutputPrimed
    <2>4. EndOK(d, taken)' /\ (Len(d.codes) < LzCodes)'
      BY <1>1, <1>2, <2>1, <2>2 DEF EndOK
    <2>5. RoomOK'
      BY <1>1, <1>2, <2>2 DEF RoomOK
    <2>6. CallOK'
      BY <1>2, <1>3 DEF CallOK
    <2>7. /\ caller = "mz_deflate" =>
               /\ start.got < a.room /\ start.taken <= taken /\ start.got <= got'
               /\ a.flush # "none" => start.got < got'
      <3>1. got \in Nat
        BY <1>1 DEF OutputOK
      <3> QED
        BY <1>5, <2>2, <3>1
    <2>8. ProgressOK'
      BY <1>2, <1>5, <2>7 DEF ProgressOK
    <2> QED
      BY <1>4, <2>3, <2>4, <2>5, <2>6, <2>8 DEF DeflateInv
  <1> QED
    BY <1>2, <1>6, <1>7

(* mz_deflate answers as the compressor and the room say. *)
LEMMA LoopKeeps == DeflateInv /\ Tdefl!DeflateLoop => DeflateInv'
  <1> SUFFICES ASSUME DeflateInv, Tdefl!DeflateLoop PROVE DeflateInv'
    OBVIOUS
  <1>1. /\ TextOK(d, taken, coded) /\ Len(d.codes) < LzCodes /\ OutputOK(d, got, made)
        /\ EndOK(d, taken) /\ InputOK /\ RoomOK /\ CallOK /\ ProgressOK
    BY DEF DeflateInv
  <1>2. /\ at = "caller" /\ caller = "mz_deflate"
        /\ UNCHANGED <<source, mode, caller, d, a, taken, got, made, coded, start>>
        /\ \/ /\ at' = "user"
              /\ \/ told' = "STREAM_ERROR"
                 \/ told' = "STREAM_END" /\ d.last = "DONE"
                 \/ told' = "OK" /\ d.last = "OKAY" /\ Tdefl!Room = 0
                 \/ told' = "BUF_ERROR"
                 \/ told' = "OK" /\ d.last = "OKAY" /\ ~Tdefl!Stuck
           \/ at' = "tdefl" /\ told' = told /\ d.last = "OKAY"
    BY DEF Tdefl!DeflateLoop, Tdefl!Tell, Tdefl!caseVars
  <1>3. /\ TextOK(d, taken, coded)' /\ (Len(d.codes) < LzCodes)' /\ OutputOK(d, got, made)'
        /\ EndOK(d, taken)'
    BY <1>1, <1>2, CompressorKept
  <1>4. InputOK' /\ RoomOK'
    BY <1>1, <1>2 DEF InputOK, RoomOK
  <1>5. CallOK'
    BY <1>1, <1>2 DEF CallOK
  <1>6. ProgressOK'
    BY <1>1, <1>2 DEF ProgressOK
  <1>7. /\ start.taken \in Nat /\ start.got \in Nat /\ taken \in Nat /\ got \in Nat
        /\ a.room \in Nat
        /\ start.got < a.room /\ start.taken <= taken /\ start.got <= got
        /\ d.last = "OKAY" /\ a.flush # "none" => start.got < got
    BY <1>1, <1>2 DEF ProgressOK, InputOK, OutputOK, RoomOK
  <1>8. d.last = "OKAY" /\ Tdefl!Room = 0 => got > start.got
    BY <1>7 DEF Tdefl!Room
  <1>9. d.last = "OKAY" /\ ~Tdefl!Stuck => taken > start.taken \/ got > start.got
    BY <1>7 DEF Tdefl!Stuck
  <1>10. Tdefl!DeflateAdvances'
    BY <1>2, <1>8, <1>9 DEF Tdefl!DeflateAdvances
  <1> QED
    BY <1>3, <1>4, <1>5, <1>6, <1>10 DEF DeflateInv

(* The helpers call but once. *)
LEMMA OneCallKeeps == DeflateInv /\ Tdefl!OneCall => DeflateInv'
  <1> SUFFICES ASSUME DeflateInv, Tdefl!OneCall PROVE DeflateInv'
    OBVIOUS
  <1>1. /\ TextOK(d, taken, coded) /\ Len(d.codes) < LzCodes /\ OutputOK(d, got, made)
        /\ EndOK(d, taken) /\ InputOK /\ RoomOK /\ CallOK /\ ProgressOK
    BY DEF DeflateInv
  <1>2. /\ caller # "mz_deflate"
        /\ UNCHANGED <<source, mode, caller, d, taken, got, made, coded, start>>
        /\ \/ /\ at = "user" /\ told = "none" /\ at' = "tdefl" /\ told' = told
              /\ \E room \in CodeRooms : a' = [flush |-> "finish", given |-> Len(source), room |-> room]
           \/ /\ at = "caller" /\ at' = "user" /\ a' = a
              /\ told' = IF d.last = "DONE" THEN "STREAM_END" ELSE "FAILED"
    BY DEF Tdefl!OneCall, Tdefl!Tell, Tdefl!caseVars
  <1>3. /\ TextOK(d, taken, coded)' /\ (Len(d.codes) < LzCodes)' /\ OutputOK(d, got, made)'
        /\ EndOK(d, taken)'
    BY <1>1, <1>2, CompressorKept
  <1>4. InputOK' /\ RoomOK'
    <2>1. CASE a' = a
      BY <1>1, <1>2, <2>1 DEF InputOK, RoomOK
    <2>2. CASE \E room \in CodeRooms : a' = [flush |-> "finish", given |-> Len(source), room |-> room]
      <3>1. a'.given = Len(source) /\ a'.room \in Nat /\ Len(source) \in Nat
        BY <1>1, <2>2, DeflateConstants, SourceConstants DEF InputOK
      <3> QED
        BY <1>1, <1>2, <3>1 DEF InputOK, RoomOK
    <2> QED
      BY <1>2, <2>1, <2>2
  <1>5. CallOK'
    BY <1>1, <1>2 DEF CallOK
  <1>6. ProgressOK' /\ Tdefl!DeflateAdvances'
    BY <1>1, <1>2 DEF ProgressOK, Tdefl!DeflateAdvances
  <1> QED
    BY <1>3, <1>4, <1>5, <1>6 DEF DeflateInv

(* A new compressor has taken and written nothing. *)
LEMMA InitialText == source \in Sources => TextOK(Tdefl!tdefl_init, 0, <<>>)
  <1> SUFFICES ASSUME source \in Sources PROVE TextOK(Tdefl!tdefl_init, 0, <<>>)
    OBVIOUS
  <1> DEFINE e == Tdefl!tdefl_init
             dict == [k \in DictCells |-> 0]
             next == [k \in 0 .. DictSize - 1 |-> 0]
  <1>1. /\ DOMAIN e = Names /\ e.dict = dict /\ e.next = next /\ e.hash = <<>> /\ e.pos = 0
        /\ e.ahead = 0 /\ e.size = 0 /\ e.codes = <<>> /\ e.total = 0 /\ e.dictPos = 0
        /\ e.saved = [len |-> 0, dist |-> 0, lit |-> 0]
    BY DEF Tdefl!tdefl_init, Names, DictCells
  <1> HIDE DEF e
  <1>2. DictOK(dict)
    BY DeflateConstants DEF DictOK, DictCells
  <1>3. DOMAIN <<>> = {} /\ 0 \in 0 .. PosSpan - 1
    BY DeflateConstants
  <1>4. ChainsOK(e)
    BY <1>1, <1>3 DEF ChainsOK
  <1>5. Holds(e.dict, e.pos - e.size, e.pos + e.ahead)
    <2>1. e.pos - e.size = 0 /\ e.pos + e.ahead = 0
      BY <1>1
    <2>2. Holds(e.dict, 0, 0)
      BY DEF Holds
    <2> QED
      BY <2>1, <2>2
  <1>6. e.pos \in Nat /\ e.ahead \in Nat /\ e.size \in Nat
    BY <1>1
  <1>7. e.size <= e.pos /\ e.size + e.ahead <= DictSize /\ e.ahead <= MaxMatch
    BY <1>1, DeflateConstants
  <1>8. Window(e)
    BY <1>1, <1>2, <1>4, <1>5, <1>6, <1>7 DEF Window, Filling
  <1>9. e.saved.len = 0 /\ IsRecord(e.saved)
    BY <1>1 DEF IsRecord
  <1>10. SavedAt(e.saved, e.pos, e.ahead)
    BY <1>9 DEF SavedAt
  <1> DEFINE b == e.dictPos
  <1>11. b = 0 /\ b \in Nat
    BY <1>1
  <1>12. Prefix(0) = <<>>
    BY DEF Prefix
  <1>13. Recorded(e, Prefix(b), b)
    <2>1. e.dictPos = b
      OBVIOUS
    <2> HIDE DEF b
    <2> QED
      BY <1>1, <1>11, <2>1, EmptyCodes
  <1>14. e.pos - HeldLen(e.saved) = 0
    <2>1. HeldLen(e.saved) = 0
      BY <1>9 DEF HeldLen
    <2>2. e.pos = 0 /\ 0 - 0 = 0
      BY <1>1
    <2> QED
      BY <2>1, <2>2, Zenon
  <1>15. Recorded(e, <<>>, e.pos - HeldLen(e.saved)) /\ e.pos + e.ahead = 0
    <2>1. e.pos + e.ahead = 0
      BY <1>1
    <2> QED
      BY <1>11, <1>12, <1>13, <1>14, <2>1
  <1> QED
    BY <1>8, <1>10, <1>15 DEF TextOK, e

(* The invariant holds at the beginning, *)
LEMMA DeflateBegins == Tdefl!Init => DeflateInv
  <1> SUFFICES ASSUME Tdefl!Init PROVE DeflateInv
    OBVIOUS
  <1>1. /\ source \in Sources /\ mode \in Modes /\ d = Tdefl!tdefl_init
        /\ a = [flush |-> "none", given |-> 0, room |-> 0] /\ at = "user" /\ told = "none"
        /\ taken = 0 /\ got = 0 /\ made = 0 /\ coded = <<>> /\ start = [taken |-> 0, got |-> 0]
    BY DEF Tdefl!Init
  <1>2. TextOK(d, taken, coded)
    BY <1>1, InitialText
  <1>3. d.codes = <<>> /\ d.remaining = 0 /\ d.last = "OKAY" /\ d.finished = FALSE
    BY <1>1 DEF Tdefl!tdefl_init
  <1>4. Len(d.codes) < LzCodes
    <2>1. Len(<<>>) = 0
      OBVIOUS
    <2> QED
      BY <1>3, <2>1, DeflateConstants
  <1>5. OutputOK(d, got, made)
    BY <1>1, <1>3 DEF OutputOK
  <1>6. EndOK(d, taken)
    BY <1>3 DEF EndOK
  <1>7. InputOK
    BY <1>1, SourceConstants DEF InputOK
  <1>8. RoomOK
    BY <1>1 DEF RoomOK
  <1>9. CallOK /\ ProgressOK /\ Tdefl!DeflateAdvances
    BY <1>1, <1>3 DEF CallOK, ProgressOK, Tdefl!DeflateAdvances
  <1> QED
    BY <1>2, <1>4, <1>5, <1>6, <1>7, <1>8, <1>9 DEF DeflateInv

(* every step keeps it, *)
LEMMA DeflateStep == DeflateInv /\ [Tdefl!Next]_(Tdefl!vars) => DeflateInv'
  <1> SUFFICES ASSUME DeflateInv, [Tdefl!Next]_(Tdefl!vars) PROVE DeflateInv'
    OBVIOUS
  <1>1. CASE UNCHANGED Tdefl!vars
    <2>1. UNCHANGED <<source, mode, caller, d, a, at, told, taken, got, made, coded, start>>
      BY <1>1 DEF Tdefl!vars
    <2>2. /\ TextOK(d, taken, coded)' /\ (Len(d.codes) < LzCodes)' /\ OutputOK(d, got, made)'
          /\ EndOK(d, taken)'
      BY <2>1, CompressorKept DEF DeflateInv
    <2>3. InputOK' /\ RoomOK' /\ CallOK' /\ Tdefl!DeflateAdvances'
      BY <2>1 DEF DeflateInv, InputOK, RoomOK, CallOK, Tdefl!DeflateAdvances
    <2>4. ProgressOK'
      BY <2>1 DEF DeflateInv, ProgressOK, Tdefl!Complete, Tdefl!Ahead, Tdefl!Smaller
    <2> QED
      BY <2>2, <2>3, <2>4 DEF DeflateInv
  <1> QED
    BY <1>1, UserKeeps, CompressKeeps, RoundKeepsAll, LeaveKeeps, EndBlockKeeps, EndCallKeeps,
       LoopKeeps, OneCallKeeps DEF Tdefl!Next

(* it says that the text is kept: written, held back or ahead, *)
LEMMA TextIsKept == DeflateInv => Tdefl!TextKept
  <1> SUFFICES ASSUME DeflateInv PROVE Tdefl!TextKept
    OBVIOUS
  <1>1. TextOK(d, taken, coded) /\ InputOK
    BY DEF DeflateInv
  <1>2. /\ d.pos \in Nat /\ d.ahead \in Nat /\ d.size \in Nat /\ d.pos + d.ahead = taken
        /\ d.size + d.ahead <= DictSize
        /\ Holds(d.dict, d.pos - d.size, d.pos + d.ahead) /\ IsRecord(d.saved)
        /\ Tdefl!Expanded(coded, d.codes) = Prefix(d.pos - HeldLen(d.saved))
    BY <1>1 DEF TextOK, Window, Filling, SavedAt, Recorded
  <1>3. taken \in Nat /\ taken <= Len(source) /\ Len(source) \in Nat
        /\ source = [k \in 1 .. Len(source) |-> source[k]]
    BY <1>1, SourceConstants DEF InputOK
  <1> DEFINE pos == d.pos
             ahead == d.ahead
             lookahead == Tdefl!Lookahead
             rest == [k \in 1 .. ahead |-> source[pos + k]]
  <1>4. lookahead = rest
    <2>1. lookahead = [k \in 1 .. ahead |-> d.dict[Tdefl!Cell(pos + k - 1)]]
      BY DEF Tdefl!Lookahead
    <2>2. ASSUME NEW k \in 1 .. ahead PROVE d.dict[Tdefl!Cell(pos + k - 1)] = source[pos + k]
      <3> DEFINE low == d.pos - d.size
                 top == d.pos + d.ahead
                 i == pos + k - 1
      <3>1. /\ Holds(d.dict, low, top) /\ i \in Int /\ low <= i /\ top - DictSize <= i /\ i < top
            /\ i + 1 = pos + k
        BY <1>2, DeflateConstants
      <3> HIDE DEF low, top, i
      <3>2. d.dict[Tdefl!Cell(i)] = source[i + 1]
        BY <3>1 DEF Holds
      <3> QED
        BY <3>1, <3>2 DEF i
    <2> HIDE DEF lookahead, pos, ahead
    <2> QED
      BY <2>1, <2>2
  <1>5. pos \in Nat /\ ahead \in Nat /\ pos + ahead = taken
    BY <1>2
  <1> HIDE DEF lookahead
  <1>6. Tdefl!Expanded(coded, d.codes) \o Tdefl!HeldBack = Prefix(pos)
    <2>1. CASE d.saved.len = 0
      <3>1. Tdefl!HeldBack = <<>> /\ HeldLen(d.saved) = 0
        BY <2>1 DEF Tdefl!HeldBack, HeldLen
      <3>2. pos - HeldLen(d.saved) = pos
        BY <1>5, <3>1
      <3> HIDE DEF pos
      <3>3. Prefix(pos) \o <<>> = Prefix(pos)
        BY <1>5 DEF Prefix
      <3> QED
        BY <1>2, <3>1, <3>2, <3>3 DEF pos
    <2>2. CASE d.saved.len # 0
      <3> DEFINE b == pos - 1
                 c == d.saved.lit
      <3>1. b \in Nat /\ c = source[b + 1] /\ b + 1 = pos
        <4>1. d.saved.len > 0
          BY <1>2, <2>2 DEF IsRecord
        <4>2. d.saved.dist \in 1 .. DictSize /\ d.saved.dist <= pos - 1 /\ c = source[pos]
          BY <1>1, <4>1 DEF TextOK, SavedAt
        <4> HIDE DEF c
        <4>3. b \in Nat /\ b + 1 = pos
          BY <1>5, <4>2, DeflateConstants
        <4> QED
          BY <4>2, <4>3
      <3>2. Tdefl!HeldBack = <<c>> /\ HeldLen(d.saved) = 1
        <4>1. d.saved.len > 0
          BY <1>2, <2>2 DEF IsRecord
        <4> QED
          BY <2>2, <4>1 DEF Tdefl!HeldBack, HeldLen
      <3> HIDE DEF b, c
      <3>3. Prefix(b) \o <<source[b + 1]>> = Prefix(b + 1)
        BY <3>1 DEF Prefix
      <3>4. Tdefl!Expanded(coded, d.codes) = Prefix(b)
        BY <1>2, <3>2 DEF b
      <3> QED
        BY <3>1, <3>2, <3>3, <3>4
    <2> QED
      BY <2>1, <2>2
  <1> HIDE DEF pos, ahead
  <1>7. Prefix(pos) \o rest = Prefix(taken)
    BY <1>5 DEF Prefix
  <1>8. SubSeq(source, 1, taken) = Prefix(taken)
    BY <1>3 DEF Prefix
  <1>9. Tdefl!Expanded(coded, d.codes) \o Tdefl!HeldBack \o lookahead = Prefix(taken)
    BY <1>4, <1>6, <1>7
  <1> QED
    BY <1>8, <1>9 DEF Tdefl!TextKept, lookahead

(* and it gives the properties. *)
LEMMA DeflateRight == DeflateInv => Tdefl!TextKept /\ Tdefl!OutputKept /\ Tdefl!EndIsWhole
                      /\ Tdefl!DeflateAdvances
  <1> SUFFICES ASSUME DeflateInv PROVE Tdefl!TextKept /\ Tdefl!OutputKept /\ Tdefl!EndIsWhole
                      /\ Tdefl!DeflateAdvances
    OBVIOUS
  <1>1. /\ TextOK(d, taken, coded) /\ OutputOK(d, got, made) /\ EndOK(d, taken) /\ InputOK /\ CallOK
    BY DEF DeflateInv
  <1>2. Tdefl!OutputKept
    BY <1>1 DEF OutputOK, Tdefl!OutputKept
  <1>3. Tdefl!EndIsWhole
    <2> SUFFICES ASSUME told = "STREAM_END"
                 PROVE  /\ got = made /\ coded = SubSeq(source, 1, taken) /\ d.summed = taken
                        /\ d.codes = <<>>
      BY DEF Tdefl!EndIsWhole
    <2>1. d.last = "DONE" /\ d.finished /\ d.remaining = 0
      BY <1>1 DEF CallOK, EndOK
    <2>2. d.codes = <<>> /\ d.total = 0 /\ d.ahead = 0 /\ d.saved.len = 0 /\ d.summed = taken
      BY <1>1, <2>1 DEF EndOK
    <2>3. got = made
      BY <1>1, <2>1 DEF OutputOK
    <2>4. coded = Prefix(taken)
      <3>1. d.pos + d.ahead = taken /\ coded = Prefix(d.dictPos)
            /\ d.dictPos + d.total = d.pos - HeldLen(d.saved) /\ d.pos \in Nat /\ d.dictPos \in Nat
        BY <1>1 DEF TextOK, Window, Filling, Recorded
      <3>2. HeldLen(d.saved) = 0
        BY <2>2 DEF HeldLen
      <3>3. d.dictPos = taken
        BY <2>2, <3>1, <3>2
      <3> QED
        BY <3>1, <3>3
    <2>5. SubSeq(source, 1, taken) = Prefix(taken)
      <3>1. taken \in Nat /\ taken <= Len(source) /\ Len(source) \in Nat
            /\ source = [k \in 1 .. Len(source) |-> source[k]]
        BY <1>1, SourceConstants DEF InputOK
      <3> QED
        BY <3>1 DEF Prefix
    <2> QED
      BY <2>2, <2>3, <2>4, <2>5
  <1>4. Tdefl!DeflateAdvances
    BY DEF DeflateInv
  <1> QED
    BY <1>2, <1>3, <1>4, TextIsKept

(* A step of Packages is one of the compressor, or leaves it alone. *)
LEMMA DeflatePart == (Is("deflate") => DeflateInv) /\ [Next]_vars => (Is("deflate") => DeflateInv)'
  <1> SUFFICES ASSUME Is("deflate") => DeflateInv, [Next]_vars, Is("deflate")' PROVE DeflateInv'
    OBVIOUS
  <1>1. part' = part
    BY DEF Next, vars
  <1>2. Is("deflate")
    BY <1>1 DEF Is
  <1>3. [Tdefl!Next]_(Tdefl!vars)
    BY <1>2 DEF Next, vars, Is, deflateVars, Tdefl!vars
  <1> QED
    BY <1>2, <1>3, DeflateStep

(* For every text, way of matching and habit of calling: what was written and
   what the window still holds are together the text taken so far, no output
   is lost or given twice, who is told of the end has all of it, and a call
   answered OK got something done (miniz.c, tdefl_compress, mz_deflate).   *)
THEOREM CompressionKeepsText == Spec => []Deflated
  <1>1. Init => (Is("deflate") => DeflateInv)
    BY DeflateBegins DEF Init, Is
  <1>2. (Is("deflate") => DeflateInv) => Deflated
    BY DeflateRight DEF Deflated
  <1> QED
    BY <1>1, <1>2, DeflatePart, PTL DEF Spec
===============================================================================
