----------------------------- MODULE HuffmanCodes -----------------------------
(***************************************************************************)
(* How a dynamic block gets its Huffman codes, and how they get across: the*)
(* compressor sorts the symbols by how often they occur, computes a code of*)
(* minimum redundancy in place, limits its lengths, and sends the lengths  *)
(* packed; the decompressor unpacks them and builds its look-up table and  *)
(* tree.  One action per function, in the order they are called.           *)
(*                                                                         *)
(* Codes are numbers, the bit sent first the lowest.                       *)
(***************************************************************************)
EXTENDS Integers, Sequences, SequencesExt, FiniteSetsExt

CONSTANTS
  Counts,      \* how often each symbol occurs: functions from 0 .. n - 1
  Limits,      \* code_size_limit
  Lengths,     \* lengths of codes to send, from elsewhere
  Radix,       \* 256: a sort by a byte at a time
  FastBits,    \* TINFL_FAST_LOOKUP_BITS
  MaxZeros     \* 138: the zeros that one code stands for

VARIABLES
  count, limit, \* the frequencies of the symbols, and code_size_limit
  syms, keys,   \* the symbols sorted, and m_key of each
  num_codes,    \* how many codes there are of each length
  sizes,        \* m_huff_code_sizes
  packed,       \* packed_code_sizes
  table,        \* m_look_up and the tree
  stage         \* the function to be called next

vars == <<count, limit, syms, keys, num_codes, sizes, packed, table, stage>>

Init ==
  /\ \/ stage = "sort" /\ count \in Counts /\ limit \in Limits /\ sizes = <<>>
     \/ stage = "pack" /\ count = <<>> /\ limit = 15 /\ sizes \in Lengths
  /\ syms = <<>> /\ keys = <<>> /\ num_codes = <<>> /\ packed = <<>> /\ table = <<>>

UpTo(n) == [k \in 1 .. n |-> k]
Down(n) == [k \in 1 .. n |-> n + 1 - k]
Minor(x, y) == IF x < y THEN x ELSE y
-----------------------------------------------------------------------------
(* tdefl_radix_sort_syms: stable passes by digit, lowest first; a highest  *)
(* digit that is zero throughout needs none.                               *)
Digit(c, pass) == (c \div Radix ^ pass) % Radix
Place(s, i, pass) ==
  Cardinality({j \in DOMAIN s : Digit(count[s[j]], pass) < Digit(count[s[i]], pass)})
  + Cardinality({j \in 1 .. i : Digit(count[s[j]], pass) = Digit(count[s[i]], pass)})
Pass(s, pass) == [p \in DOMAIN s |-> s[CHOOSE i \in DOMAIN s : Place(s, i, pass) = p]]
MutantPasses(s) == <<0>>
Passes(s) == IF \A i \in DOMAIN s : Digit(count[s[i]], 1) = 0 THEN <<0>> ELSE <<0, 1>>

Sort ==
  LET used == SelectSeq([i \in 1 .. Cardinality(DOMAIN count) |-> i - 1], LAMBDA x : count[x] > 0)
  IN /\ stage = "sort" /\ stage' = "redundancy"
     /\ syms' = FoldLeft(Pass, used, Passes(used))
     /\ UNCHANGED <<count, limit, keys, num_codes, sizes, packed, table>>

(* tdefl_calculate_minimum_redundancy, in one array: the weights of the    *)
(* leaves give way to those of the nodes made, these to links to the parent,*)
(* these to depths of nodes, and these to depths of leaves.                *)
n == Len(syms)
Join(st, next, second) ==
  IF st.leaf >= n \/ ((second => st.root < next) /\ st.A[st.root] < st.A[st.leaf])
  THEN [st EXCEPT !.A = [@ EXCEPT ![next] = st.A[st.root] + (IF second THEN @ ELSE 0),
                                  ![st.root] = next],
                  !.root = @ + 1]
  ELSE [st EXCEPT !.A = [@ EXCEPT ![next] = st.A[st.leaf] + (IF second THEN @ ELSE 0)],
                  !.leaf = @ + 1]
Tree(A) == FoldLeft(LAMBDA st, next : Join(Join(st, next, FALSE), next, TRUE),
                    [A |-> [A EXCEPT ![0] = @ + A[1]], root |-> 0, leaf |-> 2], UpTo(n - 2)).A
NodeDepths(A) == FoldLeft(LAMBDA B, next : [B EXCEPT ![next - 1] = B[B[next - 1]] + 1],
                          [A EXCEPT ![n - 2] = 0], Down(n - 2))
Level(st, k) ==
  LET used == Cardinality({r \in 0 .. st.root : \A q \in r .. st.root : st.A[q] = k - 1})
      leaves == IF st.avbl > used THEN st.avbl - used ELSE 0
  IN IF st.avbl = 0 THEN st
     ELSE [A |-> [q \in DOMAIN st.A |-> IF q \in st.next - leaves + 1 .. st.next THEN k - 1 ELSE st.A[q]],
           root |-> st.root - used, next |-> st.next - leaves, avbl |-> 2 * used]
LeafDepths(A) == FoldLeft(Level, [A |-> A, root |-> n - 2, next |-> n - 1, avbl |-> 1], UpTo(n)).A

MinimumRedundancy ==
  LET A == [i \in 0 .. n - 1 |-> count[syms[i + 1]]]
  IN /\ stage = "redundancy" /\ stage' = "enforce"
     /\ keys' = IF n <= 1 THEN [i \in DOMAIN A |-> 1] ELSE LeafDepths(NodeDepths(Tree(A)))
     /\ UNCHANGED <<count, limit, syms, num_codes, sizes, packed, table>>

(* tdefl_huffman_enforce_max_code_size: codes that are too long get the    *)
(* limit, and while there are too many a shorter one makes way for two.    *)
Weight(c) == FoldLeft(LAMBDA sum, i : sum + c[i] * 2 ^ (limit - i), 0, UpTo(limit))
Shorten(c) ==
  LET fewer == [c EXCEPT ![limit] = @ - 1]
      i == Max({0} \cup {k \in 1 .. limit - 1 : c[k] > 0})
  IN IF Weight(c) = 2 ^ limit THEN c
     ELSE IF i = 0 THEN fewer ELSE [fewer EXCEPT ![i] = @ - 1, ![i + 1] = @ + 2]
Enforced(c) ==
  LET cut == [i \in 1 .. limit |-> IF i < limit THEN c[i] ELSE
                FoldLeft(LAMBDA sum, k : sum + c[k], 0, [k \in 1 .. 33 - limit |-> limit + k - 1])]
  IN IF n <= 1 THEN cut ELSE FoldLeft(LAMBDA x, k : Shorten(x), cut, UpTo(2 ^ limit))

Enforce ==
  /\ stage = "enforce" /\ stage' = "sizes"
  /\ num_codes' = Enforced([i \in 1 .. 32 |-> Cardinality({k \in DOMAIN keys : keys[k] = i})])
  /\ UNCHANGED <<count, limit, syms, keys, sizes, packed, table>>

(* The symbols that occur most get the shortest codes.                     *)
SizeAt(rank) ==
  Min({i \in 1 .. limit : rank <= FoldLeft(LAMBDA sum, k : sum + num_codes[k], 0, UpTo(i))})
Sizes ==
  /\ stage = "sizes" /\ stage' = "pack"
  /\ sizes' = [s \in DOMAIN count |->
                 IF count[s] = 0 THEN 0
                 ELSE SizeAt(n + 1 - (CHOOSE i \in DOMAIN syms : syms[i] = s))]
  /\ UNCHANGED <<count, limit, syms, keys, num_codes, packed, table>>
-----------------------------------------------------------------------------
(* tdefl_start_dynamic_block packs the lengths: 16 repeats the last length *)
(* three to six times, 17 and 18 stand for three to ten and eleven to 138  *)
(* zeros (MaxZeros here); shorter runs are written out.                    *)
Copies(x, k) == [i \in 1 .. k |-> x]
EndRun(st) ==
  [st EXCEPT !.rep = 0,
             !.out = @ \o (IF st.rep = 0 THEN <<>> ELSE IF st.rep < 3 THEN Copies(st.prev, st.rep)
                           ELSE <<16, st.rep - 3>>)]
EndZeros(st) ==
  [st EXCEPT !.zeros = 0,
             !.out = @ \o (IF st.zeros = 0 THEN <<>> ELSE IF st.zeros < 3 THEN Copies(0, st.zeros)
                           ELSE IF st.zeros <= 10 THEN <<17, st.zeros - 3>> ELSE <<18, st.zeros - 11>>)]
Another(st) == [st EXCEPT !.rep = @ + 1]
AnotherZero(st) == [st EXCEPT !.zeros = @ + 1]
PackOne(st, size) ==
  LET zero == AnotherZero(EndRun(st))
      rest == EndZeros(st)
  IN [IF size = 0 THEN IF zero.zeros = MaxZeros THEN EndZeros(zero) ELSE zero
      ELSE IF size # st.prev
           THEN LET fresh == EndRun(rest) IN [fresh EXCEPT !.out = Append(@, size)]
      ELSE IF st.rep + 1 = 6 THEN EndRun(Another(rest)) ELSE Another(rest)
      EXCEPT !.prev = size]
Packed(s) == LET st == FoldLeft(PackOne, [out |-> <<>>, zeros |-> 0, rep |-> 0, prev |-> 255], s)
             IN IF st.rep > 0 THEN EndRun(st).out ELSE EndZeros(st).out

Sequence(f) == [i \in 1 .. Cardinality(DOMAIN f) |-> f[i - 1]]
Pack ==
  /\ stage = "pack" /\ stage' = "build" /\ packed' = Packed(Sequence(sizes))
  /\ UNCHANGED <<count, limit, syms, keys, num_codes, sizes, table>>

(* The decompressor unpacks them.                                          *)
UnpackOne(st, x) ==
  IF st.code # 0
  THEN [text |-> st.text \o (IF st.code = 16 THEN Copies(Last(st.text), x + 3)
                             ELSE Copies(0, x + (IF st.code = 17 THEN 3 ELSE 11))), code |-> 0]
  ELSE IF x < 16 THEN [st EXCEPT !.text = Append(@, x)] ELSE [st EXCEPT !.code = x]
Unpacked == FoldLeft(UnpackOne, [text |-> <<>>, code |-> 0], packed).text
-----------------------------------------------------------------------------
(* Canonical codes: of one length in the order of the symbols, and longer  *)
(* ones behind shorter ones; turned round to be sent.                      *)
OfSize(i) == {s \in DOMAIN sizes : sizes[s] = i}
FirstCode(i) == FoldLeft(LAMBDA j, k : (j + Cardinality(OfSize(k))) * 2, 0, UpTo(i - 1))
Turned(code, size) ==
  FoldLeft(LAMBDA rev, k : (2 * rev) + ((code \div 2 ^ (k - 1)) % 2), 0, UpTo(size))
Code(s) == Turned(FirstCode(sizes[s]) + Cardinality({q \in OfSize(sizes[s]) : q < s}), sizes[s])

(* tinfl_decompress builds its table: short codes are looked up at once,   *)
(* longer ones lead to nodes of a tree, made where there is none.          *)
Node(st) == [st EXCEPT !.cur = st.free, !.free = @ - 2]
Bit(code, k) == (code \div 2 ^ k) % 2
Child(st, bit) ==
  LET at == bit - st.cur - 1
      made == [Node(st) EXCEPT !.tree = [i \in DOMAIN @ \cup {at} |-> IF i = at THEN st.free ELSE @[i]]]
  IN IF at \in DOMAIN st.tree /\ st.tree[at] # 0 THEN [st EXCEPT !.cur = st.tree[at]] ELSE made
AddSymbol(st, s) ==
  LET size == sizes[s]
      code == Code(s)
      low == code % 2 ^ FastBits
      root == IF st.look[low] # 0 THEN [st EXCEPT !.cur = st.look[low]]
              ELSE [Node(st) EXCEPT !.look[low] = st.free]
      end == FoldLeft(LAMBDA x, k : Child(x, Bit(code, FastBits + k - 1)), root, UpTo(size - FastBits - 1))
      leaf == Bit(code, size - 1) - end.cur - 1
  IN IF size = 0 THEN st
     ELSE IF size <= FastBits
     THEN [st EXCEPT !.look = [i \in DOMAIN @ |-> IF i % 2 ^ size = code THEN size * 512 + s ELSE @[i]]]
     ELSE [end EXCEPT !.tree = [i \in DOMAIN @ \cup {leaf} |-> IF i = leaf THEN s ELSE @[i]]]

Total == FoldLeft(LAMBDA sum, i : sum + Cardinality(OfSize(i)) * 2 ^ (16 - i), 0, UpTo(15))
Accepted == Total = 65536 \/ Cardinality({s \in DOMAIN sizes : sizes[s] > 0}) <= 1
Build ==
  /\ stage = "build"
  /\ IF Accepted
     THEN /\ table' = FoldLeft(AddSymbol, [look |-> [i \in 0 .. 2 ^ FastBits - 1 |-> 0], tree |-> <<>>,
                                           cur |-> 0, free |-> -1],
                               [i \in 1 .. Cardinality(DOMAIN sizes) |-> i - 1])
          /\ stage' = "done"
     ELSE stage' = "refused" /\ UNCHANGED table
  /\ UNCHANGED <<count, limit, syms, keys, num_codes, sizes, packed>>

Next == Sort \/ MinimumRedundancy \/ Enforce \/ Sizes \/ Pack \/ Build
Spec == Init /\ [][Next]_vars
-----------------------------------------------------------------------------
(* TINFL_HUFF_DECODE, of bits that begin with a code.                      *)
Walk(temp, bits, from) ==
  FoldLeft(LAMBDA x, k : IF x.sym < 0 THEN [sym |-> table.tree[-x.sym - 1 + Bit(bits, from + k - 1)],
                                            len |-> x.len + 1] ELSE x,
           [sym |-> temp, len |-> from], UpTo(15 - from))
Decoded(bits) ==
  LET temp == table.look[bits % 2 ^ FastBits]
  IN IF temp >= 0 THEN [sym |-> temp % 512, len |-> temp \div 512] ELSE Walk(temp, bits, FastBits)

(* The weight of a code of minimum redundancy, by Huffman's own rule.      *)
MergeTwo(st, k) ==
  LET s == SortSeq(st.left, LAMBDA x, y : x < y)
  IN [left |-> Append(SubSeq(s, 3, Len(s)), s[1] + s[2]), cost |-> st.cost + s[1] + s[2]]
BestCost(weights) ==
  FoldLeft(MergeTwo, [left |-> weights, cost |-> 0], UpTo(Len(weights) - 1)).cost
Cost(depth) == FoldLeft(LAMBDA sum, i : sum + count[syms[i]] * depth[i - 1], 0, UpTo(n))

(* Type invariant: no code is longer than the limit.                       *)
HuffmanTypeOK ==
  /\ \A s \in DOMAIN sizes : sizes[s] \in 0 .. limit
  /\ \A i \in DOMAIN keys : keys[i] \in 1 .. 32

(* The code computed in place costs what Huffman's costs, the depths of the*)
(* less frequent no smaller.                                               *)
Minimal ==
  stage = "enforce" /\ n > 1 =>
    /\ Cost(keys) = BestCost([i \in 1 .. n |-> count[syms[i]]])
    /\ \A i \in 1 .. n - 1 : keys[i - 1] >= keys[i]

(* A symbol that occurs has a code, none does that does not, and the       *)
(* decompressor accepts the lengths, however short the limit (it fails on  *)
(* codes that leave room or overlap, miniz.c:2599).                        *)
Complete ==
  /\ stage = "pack" /\ count # <<>> => \A s \in DOMAIN count : (sizes[s] > 0) = (count[s] > 0)
  /\ count # <<>> => stage # "refused"

(* What the decompressor unpacks is what was packed.                       *)
Unpacks == stage \in {"build", "done"} => Unpacked = Sequence(sizes)

(* Whatever follows a code, the tables decode it to its symbol and no more *)
(* of its bits.                                                            *)
Decodes ==
  stage = "done" => \A s \in DOMAIN sizes : sizes[s] > 0 =>
    \A more \in {0, 1, 5, 2 ^ 15 - 1} :
      Decoded(Code(s) + more * 2 ^ sizes[s]) = [sym |-> s, len |-> sizes[s]]
===============================================================================
