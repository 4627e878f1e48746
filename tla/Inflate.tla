------------------------------- MODULE Inflate -------------------------------
(***************************************************************************)
(* miniz's decompressor: tinfl_decompress, a coroutine that can be left    *)
(* wherever it wants a byte of input or a place for output and is resumed  *)
(* there by the next call, and the callers that loop around it: mz_inflate *)
(* as a zlib user drives it, and the one-call helpers.                     *)
(*                                                                         *)
(* A compressed stream is the sequence of fields the decompressor reads    *)
(* one after the other, each with its length in bits and what it stands    *)
(* for.  Bytes have eight bits; the bits read and not yet used are those   *)
(* between r.pos and the byte after cur.                                   *)
(***************************************************************************)
EXTENDS Integers, Sequences, SequencesExt

CONSTANTS
  Streams,     \* compressed streams: [fields, zlib, adler]
  Margins,     \* bytes the input has after the stream, or lacks
  DictSize,    \* TINFL_LZ_DICT_SIZE
  HeapSize,    \* 128: first size of the buffer of tinfl_decompress_mem_to_heap
  Chunks,      \* how much of the input the user offers at a time
  Rooms        \* how much room for output

VARIABLES
  stream, input,   \* the stream, and how many bytes of input there are
  client,          \* which function is called
  r,               \* tinfl_decompressor
  cur, out, buf,   \* pIn_buf_cur, pOut_buf_cur and the buffer it points into
  call,            \* the arguments of tinfl_decompress
  pc, status,      \* who runs, and what tinfl_decompress returned last
  z,               \* inflate_state, or the variables of the other callers
  delivered,       \* what the user has got
  answer,          \* what the user was told last
  before           \* history: bytes read and delivered when the user called

vars == <<stream, input, client, r, cur, out, buf, call, pc, status, z, delivered,
          answer, before>>
inputVars == <<stream, input, client>>
userVars == <<z, delivered, answer, before>>

Least(a, b) == IF a < b THEN a ELSE b
Most(a, b) == IF a > b THEN a ELSE b

(* What a stream stands for: literals, stored bytes and copies.            *)
Expand(text, f) ==
  CASE f.act = "lit" -> Append(text, f.val)
    [] f.act = "copy" /\ f.dist <= Len(text) -> 
         text \o [k \in 1 .. f.len |-> text[Len(text) - f.dist + 1 + ((k - 1) % f.dist)]]
    [] OTHER -> text
TextUpTo(s, n) ==
  LET text[k \in 0 .. n] == IF k = 0 THEN <<>> ELSE Expand(text[k - 1], s.fields[k])
  IN text[n]
Text(s) == TextUpTo(s, Len(s.fields))
Before(s, i) == s.fields[i].act = "copy" /\ s.fields[i].dist > Len(TextUpTo(s, i - 1))
Sound(s) == \A i \in DOMAIN s.fields : ~Before(s, i)

(* Where the bits of a field end; one that aligns ends at a whole byte.    *)
After(position, f) == IF f.way \in {"align", "finish"} THEN ((position + 7) \div 8) * 8
                      ELSE position + f.n
EndsAt(s, n) ==
  LET bits[k \in 0 .. n] == IF k = 0 THEN 0 ELSE After(bits[k - 1], s.fields[k])
  IN bits[n]
StreamBytes(s) == EndsAt(s, Len(s.fields)) \div 8

(* What a compressor can have written: a code has at most 15 bits and a    *)
(* symbol and the one after its literal are of one kind of code; a copy is *)
(* from the window; a stream without an error is a whole number of bytes.  *)
IsField(f) ==
  /\ f.way \in {"bits", "align", "raw", "huff", "sym", "finish", "bad"} /\ f.n \in 0 .. 16
  /\ f.way \in {"huff", "sym"} => f.n <= 15
  /\ f.way = "raw" => f.n = 8
  /\ f.way = "align" => f.n = 0
  /\ f.act \in {"none", "lit", "copy"}
  /\ f.act = "copy" => f.way # "sym" /\ f.len \in Nat \ {0} /\ f.dist \in 1 .. DictSize
HasError(s) == \E i \in 1 .. Len(s.fields) : s.fields[i].way = "bad"
IsStream(s) ==
  /\ Len(s.fields) \in Nat /\ DOMAIN s.fields = 1 .. Len(s.fields)
  /\ s.zlib \in BOOLEAN /\ s.adler \in BOOLEAN
  /\ \A i \in 1 .. Len(s.fields) :
       LET f == s.fields[i]
       IN IsField(f) /\ (f.way = "sym" /\ f.act = "lit" =>
                           i < Len(s.fields) /\ s.fields[i + 1].way = "sym")
  /\ HasError(s) \/ EndsAt(s, Len(s.fields)) % 8 = 0

(* What holds of the constants. *)
InflateAssumption ==
  /\ \A s \in Streams : IsStream(s)
  /\ DictSize \in {2 ^ k : k \in 0 .. 15} /\ HeapSize \in Nat \ {0}
  /\ Margins \subseteq Int /\ Chunks \subseteq Nat /\ Rooms \subseteq Nat

(* tinfl_init, and the coroutine's entry.                                  *)
Fresh == [i |-> 1, pos |-> 0, filling |-> FALSE, lit |-> <<>>,
          left |-> 0, dist |-> 0, from |-> 0, summed |-> 0]

(* mz_inflateInit2, and the start of the other callers.                    *)
NewState == [ofs |-> 0, avail |-> 0, first |-> TRUE, flushed |-> FALSE,
             last |-> "NEEDS_MORE_INPUT", flush |-> "none", in |-> 0, room |-> 0]

Init ==
  /\ stream \in Streams
  /\ \E margin \in Margins : input = Most(0, StreamBytes(stream) + margin)
  /\ client \in {"mz_inflate", "mem_to_callback", "mem_to_heap", "mem_to_mem"}
  /\ r = Fresh /\ cur = 0 /\ out = 0 /\ buf = <<>>
  /\ call = [base |-> 0, end |-> 0, next |-> 0, limit |-> 0, wraps |-> FALSE, more |-> FALSE]
  /\ pc = "user" /\ status = "none" /\ z = NewState
  /\ delivered = <<>> /\ answer = "none" /\ before = [cur |-> 0, delivered |-> 0]
-----------------------------------------------------------------------------
(* tinfl_decompress.                                                       *)

num_bits == 8 * cur - r.pos
Available == call.end - cur
Room == call.limit - out
Holding == r.lit # <<>> \/ r.left > 0
Running == pc = "tinfl"
Field == stream.fields[r.i]
AtField(ways) == Running /\ ~Holding /\ r.i <= Len(stream.fields) /\ Field.way \in ways
Failing == {"FAILED", "CANNOT_MAKE_PROGRESS", "ADLER32_MISMATCH"}

(* common_exit: whole bytes that were read ahead are put back, as far as   *)
(* this call read them, unless more input was asked for. Of a call that    *)
(* did not fail the checksum takes in what was written.                    *)
KeepsBits(st) == st \in {"NEEDS_MORE_INPUT", "CANNOT_MAKE_PROGRESS"}
PutBack == Most(call.base, cur - num_bits \div 8)
Exit(st) ==
  LET summed == r.summed + (IF st \in Failing THEN 0 ELSE out - call.next)
      right == stream.adler /\ summed = Len(Text(stream))
  IN /\ status' = IF st = "DONE" /\ stream.zlib /\ ~right THEN "ADLER32_MISMATCH" ELSE st
     /\ cur' = IF KeepsBits(st) THEN cur ELSE PutBack
     /\ r' = [r EXCEPT !.summed = summed]
     /\ pc' = "caller"
     /\ UNCHANGED <<inputVars, userVars, out, buf, call>>

Proceed(decompressor, position) ==
  /\ r' = decompressor /\ cur' = position
  /\ UNCHANGED <<inputVars, userVars, out, buf, call, pc, status>>

(* The field's bits are used; what it stands for is remembered until there *)
(* is room for it.                                                         *)
Used(d, f) == [d EXCEPT !.i = @ + 1, !.pos = After(@, f), !.filling = FALSE,
                        !.lit = IF f.act = "lit" THEN <<f.val>> ELSE <<>>,
                        !.left = IF f.act = "copy" THEN f.len ELSE 0,
                        !.dist = IF f.act = "copy" THEN f.dist ELSE @,
                        !.from = IF f.act = "copy" THEN out ELSE @]

Starve == Available = 0 /\ Exit(IF call.more THEN "NEEDS_MORE_INPUT" ELSE "CANNOT_MAKE_PROGRESS")

(* TINFL_GET_BYTE, TINFL_GET_BITS and TINFL_SKIP_BITS.                     *)
GetBits ==
  /\ AtField({"bits", "align"}) \/ (AtField({"raw"}) /\ num_bits > 0)
  /\ \/ num_bits >= Field.n /\ Proceed(Used(r, Field), cur)
     \/ num_bits < Field.n /\ Available > 0 /\ Proceed(r, cur + 1)
     \/ num_bits < Field.n /\ Starve

(* A stored byte, once no bits are left over: room first, then input.      *)
StoredByte ==
  /\ AtField({"raw"}) /\ num_bits = 0
  /\ \/ Room = 0 /\ Exit("HAS_MORE_OUTPUT")
     \/ Room > 0 /\ Available > 0 /\ Proceed(Used(r, Field), cur + 1)
     \/ Room > 0 /\ Starve

(* TINFL_HUFF_DECODE. With two bytes at hand it reads both; else, and when *)
(* it was left in the middle, just enough for the code.                    *)
Slow == AtField({"huff"}) \/ (AtField({"sym"}) /\ (r.filling \/ Available < 4 \/ Room < 2))
HuffDecode ==
  /\ Slow
  /\ \/ (num_bits >= 15 \/ (num_bits >= Field.n /\ (r.filling \/ Available < 2)))
        /\ Proceed(Used(r, Field), cur)
     \/ num_bits < 15 /\ ~r.filling /\ Available >= 2 /\ Proceed(Used(r, Field), cur + 2)
     \/ /\ num_bits < Field.n /\ (r.filling \/ Available < 2)
        /\ \/ Available > 0 /\ Proceed([r EXCEPT !.filling = TRUE], cur + 1)
           \/ /\ Available = 0 /\ r.filling /\ Starve
           \/ /\ Available = 0 /\ ~r.filling /\ Proceed([r EXCEPT !.filling = TRUE], cur)

(* The loop for the middle of the input: four bytes read when fewer than   *)
(* 30 bits are left, then two symbols, written while they are literals.    *)
FastDecode ==
  /\ AtField({"sym"}) /\ ~Slow
  /\ LET second == stream.fields[r.i + 1]
         one == Used(r, Field)
         two == IF Field.act = "lit" THEN Used(one, second) ELSE one
         text == IF Field.act # "lit" THEN <<>>
                 ELSE IF second.act # "lit" THEN <<Field.val>> ELSE <<Field.val, second.val>>
     IN /\ r' = [two EXCEPT !.lit = <<>>]
        /\ cur' = IF num_bits < 30 THEN cur + 4 ELSE cur
        /\ buf' = [k \in DOMAIN buf |-> IF k >= out /\ k < out + Len(text)
                                        THEN text[k - out + 1] ELSE buf[k]]
        /\ out' = out + Len(text)
  /\ UNCHANGED <<inputVars, userVars, call, pc, status>>

Write(val, decompressor) ==
  /\ Running /\ Room > 0
  /\ buf' = [buf EXCEPT ![out] = val] /\ out' = out + 1
  /\ r' = decompressor
  /\ UNCHANGED <<inputVars, userVars, cur, call, pc, status>>

WriteLiteral == r.lit # <<>> /\ Write(Head(r.lit), [r EXCEPT !.lit = <<>>])

(* A copy from before the text fails for good, if the buffer has its start. *)
TooFar == r.left > 0 /\ r.from < r.dist /\ ~call.wraps

(* The copy's source does not wrap. *)
MutantSource == IF r.from >= r.dist THEN (r.from - r.dist) % call.limit ELSE 0

(* One byte of a copy, from a distance back, round the buffer if it wraps. *)
Source == IF call.wraps THEN (r.from - r.dist) % call.limit ELSE r.from - r.dist
CopyByte ==
  r.left > 0 /\ ~TooFar /\ Write(buf[Source], [r EXCEPT !.left = @ - 1, !.from = @ + 1])

OutputFull == Running /\ Holding /\ ~TooFar /\ Room = 0 /\ Exit("HAS_MORE_OUTPUT")
Corrupt == Running /\ (AtField({"bad"}) \/ TooFar) /\ Exit("FAILED")

(* The end: the rest of the byte is dropped, bytes read ahead are put back.*)
Finish == AtField({"finish"})
          /\ LET aligned == Used(r, Field)
             IN Proceed(aligned, Most(call.base, Least(cur, aligned.pos \div 8)))
Done == Running /\ ~Holding /\ r.i > Len(stream.fields) /\ Exit("DONE")

Decompress == \/ GetBits \/ StoredByte \/ HuffDecode \/ FastDecode \/ WriteLiteral \/ CopyByte
              \/ OutputFull \/ Corrupt \/ Finish \/ Done
-----------------------------------------------------------------------------
(* The callers.                                                            *)

Call(offered, buffer, next, limit, wraps, more) ==
  /\ call' = [base |-> cur, end |-> cur + offered, next |-> next, limit |-> limit,
              wraps |-> wraps, more |-> more]
  /\ buf' = buffer /\ out' = next /\ pc' = "tinfl"
  /\ UNCHANGED <<inputVars, r, cur, status, answer>>

Answer(a) ==
  /\ answer' = a
  /\ pc' = IF client # "mz_inflate" \/ a \in {"STREAM_END", "DATA_ERROR", "STREAM_ERROR"}
           THEN "over" ELSE "user"
  /\ UNCHANGED <<inputVars, r, cur, out, buf, call, status, before>>

Zeroes(n) == [k \in 0 .. n - 1 |-> 0]
DictBuffer == IF buf = <<>> THEN Zeroes(DictSize) ELSE buf
Part(from, n) == [k \in 1 .. n |-> buf[from + k - 1]]

(* mz_inflate(flush): the early returns, MZ_FINISH on the first call, what *)
(* is left in the dictionary, or a call of tinfl_decompress.               *)
Usable(flush) == z.last \notin Failing /\ (z.flushed => flush = "finish")
mz_inflate(flush, offered, room) ==
  LET s == [z EXCEPT !.first = FALSE, !.flush = flush, !.in = offered, !.room = room,
                     !.flushed = @ \/ flush = "finish"]
      n == Least(z.avail, room)
  IN /\ pc = "user" /\ client = "mz_inflate" /\ offered <= input - cur
     /\ \/ /\ z.last \in Failing \/ (z.flushed /\ flush # "finish")
           /\ z' = [z EXCEPT !.first = FALSE] /\ UNCHANGED delivered
           /\ Answer(IF z.last \in Failing THEN "DATA_ERROR" ELSE "STREAM_ERROR")
        \/ /\ z.first /\ flush = "finish"
           /\ z' = s /\ UNCHANGED delivered
           /\ before' = [cur |-> cur, delivered |-> Len(delivered)]
           /\ Call(offered, Zeroes(room), 0, room, FALSE, FALSE)
        \/ /\ Usable(flush) /\ z.avail > 0
           /\ delivered' = delivered \o Part(z.ofs, n)
           /\ z' = [s EXCEPT !.avail = @ - n, !.ofs = (@ + n) % DictSize]
           /\ Answer(IF z.last = "DONE" /\ n = z.avail THEN "STREAM_END" ELSE "OK")
        \/ /\ Usable(flush) /\ z.avail = 0 /\ ~(z.first /\ flush = "finish")
           /\ z' = s /\ UNCHANGED delivered
           /\ before' = [cur |-> cur, delivered |-> Len(delivered)]
           /\ Call(offered, DictBuffer, z.ofs, DictSize, TRUE, flush # "finish")

(* The answer to MZ_FINISH on the first call.                              *)
FirstFinish ==
  /\ pc = "caller" /\ client = "mz_inflate" /\ ~call.wraps
  /\ delivered' = Part(0, out)
  /\ z' = [z EXCEPT !.last = IF status = "DONE" THEN status ELSE "FAILED"]
  /\ Answer(CASE status = "DONE" -> "STREAM_END" [] status \in Failing -> "DATA_ERROR"
              [] OTHER -> "BUF_ERROR")

(* The rest of the loop: what was produced goes to the user as far as there*)
(* is room, and the call ends or tinfl_decompress is called again.         *)
Given(produced, room) == Least(produced, room)
InflateLoop ==
  LET produced == out - call.next
      n == Given(produced, z.room)
      left == call.end - cur
      s == [z EXCEPT !.last = status, !.avail = produced - n, !.ofs = (call.next + n) % DictSize,
                     !.room = @ - n]
      ends == status = "DONE" \/ left = 0 \/ s.room = 0 \/ s.avail > 0
  IN /\ pc = "caller" /\ client = "mz_inflate" /\ call.wraps
     /\ z' = s /\ delivered' = delivered \o Part(call.next, n)
     /\ \/ status \in Failing /\ Answer("DATA_ERROR")
        \/ status = "NEEDS_MORE_INPUT" /\ z.in = 0 /\ Answer("BUF_ERROR")
        \/ /\ z.flush = "finish" /\ status = "DONE"
           /\ Answer(IF s.avail > 0 THEN "BUF_ERROR" ELSE "STREAM_END")
        \/ z.flush = "finish" /\ status = "HAS_MORE_OUTPUT" /\ s.room = 0 /\ Answer("BUF_ERROR")
        \/ /\ z.flush # "finish" /\ status \notin Failing /\ ends
           /\ ~(status = "NEEDS_MORE_INPUT" /\ z.in = 0)
           /\ Answer(IF status = "DONE" /\ s.avail = 0 THEN "STREAM_END" ELSE "OK")
        \/ /\ status \notin Failing
           /\ IF z.flush = "finish" THEN status = "HAS_MORE_OUTPUT" /\ s.room > 0 ELSE ~ends
           /\ UNCHANGED before
           /\ Call(left, buf, s.ofs, DictSize, TRUE, z.flush # "finish")

(* tinfl_decompress_mem_to_callback; the function called may refuse.       *)
ToCallback ==
  \/ /\ pc = "user" /\ client = "mem_to_callback" /\ UNCHANGED <<z, delivered, before>>
     /\ Call(input - cur, Zeroes(DictSize), 0, DictSize, TRUE, FALSE)
  \/ LET n == out - call.next
     IN /\ pc = "caller" /\ client = "mem_to_callback"
        /\ \/ n > 0 /\ UNCHANGED <<z, delivered>> /\ Answer("FAILED")
           \/ /\ delivered' = delivered \o Part(call.next, n)
              /\ z' = [z EXCEPT !.ofs = (@ + n) % DictSize]
              /\ \/ /\ status # "HAS_MORE_OUTPUT"
                    /\ Answer(IF status = "DONE" THEN "STREAM_END" ELSE "FAILED")
                 \/ /\ status = "HAS_MORE_OUTPUT" /\ UNCHANGED before
                    /\ Call(input - cur, buf, (z.ofs + n) % DictSize, DictSize, TRUE, FALSE)

(* tinfl_decompress_mem_to_heap: no buffer at first, one twice as large    *)
(* whenever it is full, or no memory for it.                               *)
ToHeap ==
  /\ client = "mem_to_heap" /\ UNCHANGED z
  /\ \/ pc = "user" /\ UNCHANGED <<delivered, before>> /\ Call(input, <<>>, 0, 0, FALSE, FALSE)
     \/ /\ pc = "caller" /\ status = "DONE"
        /\ delivered' = Part(0, out) /\ Answer("STREAM_END")
     \/ pc = "caller" /\ status # "DONE" /\ UNCHANGED delivered /\ Answer("FAILED")
     \/ LET size == Most(HeapSize, 2 * call.limit)
        IN /\ pc = "caller" /\ status = "HAS_MORE_OUTPUT" /\ UNCHANGED <<delivered, before>>
           /\ Call(input - cur, [k \in 0 .. size - 1 |-> IF k < out THEN buf[k] ELSE 0],
                   out, size, FALSE, FALSE)

(* tinfl_decompress_mem_to_mem.                                            *)
ToMemory ==
  /\ client = "mem_to_mem" /\ UNCHANGED z
  /\ \/ /\ pc = "user" /\ UNCHANGED <<delivered, before>>
        /\ \E room \in Rooms : Call(input, Zeroes(room), 0, room, FALSE, FALSE)
     \/ /\ pc = "caller"
        /\ delivered' = IF status = "DONE" THEN Part(0, out) ELSE delivered
        /\ Answer(IF status = "DONE" THEN "STREAM_END" ELSE "FAILED")

UserCalls == \E flush \in {"sync", "finish"}, room \in Rooms, offered \in Chunks \cup {input - cur} :
               mz_inflate(flush, offered, room)

Next == Decompress \/ UserCalls \/ FirstFinish \/ InflateLoop \/ ToCallback \/ ToHeap \/ ToMemory
Spec == Init /\ [][Next]_vars
-----------------------------------------------------------------------------
(* Type invariant: the input is read in order and output stays in its      *)
(* buffer; at most four bytes are read ahead of a need for 30 bits.        *)
InflateTypeOK ==
  /\ cur \in call.base .. Most(call.base, input) /\ num_bits \in 0 .. 61
  /\ out \in 0 .. call.limit /\ z.avail \in 0 .. DictSize /\ z.ofs \in 0 .. DictSize - 1 /\ z.room \in Nat
  /\ r.i \in 1 .. Len(stream.fields) + 1 /\ r.left \in Nat

(* However input and room are cut into pieces, the user gets the text of   *)
(* the stream from its beginning, and all of it when told that it ended.   *)
TextDelivered == Sound(stream) =>
  /\ IsPrefix(delivered, Text(stream))
  /\ answer = "STREAM_END" => delivered = Text(stream)

(* Nothing behind the stream is used up: at its end what was read ahead has*)
(* been put back to the byte ("if this assert fires then we've read beyond *)
(* the end", miniz.c:2853). A stream that is all there is not refused, and *)
(* one that copies from before its start is, where that can be told.       *)
ReadsToTheEnd ==
  /\ status = "DONE" => cur = StreamBytes(stream) /\ (call.wraps \/ Sound(stream))
  /\ Sound(stream) /\ ~HasError(stream)
       /\ input >= StreamBytes(stream) /\ stream.adler => status \notin {"FAILED", "ADLER32_MISMATCH"}

(* A caller is not locked into a loop (miniz.c:2874): a call that offers   *)
(* input and room takes some, delivers some, or says that it is over.      *)
CallAdvances ==
  pc = "user" /\ answer = "OK" /\ z.in > 0 /\ z.room > 0 =>
    cur > before.cur \/ Len(delivered) > before.delivered
===============================================================================
