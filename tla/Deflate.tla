------------------------------- MODULE Deflate -------------------------------
(***************************************************************************)
(* miniz's compressor: tdefl_compress, which moves input through a window  *)
(* into a buffer of literals and matches, a block at a time into output,   *)
(* and the callers around it: mz_deflate as a zlib user drives it, and the *)
(* one-call helpers that hand it a function to put output with.            *)
(*                                                                         *)
(* Output is counted in bytes; how many a compressed block takes is given, *)
(* for it is the Huffman codes that say so (HuffmanCodes).  What a         *)
(* decompressor makes of the blocks written is kept in `coded`.            *)
(***************************************************************************)
EXTENDS Integers, Sequences, FiniteSetsExt

CONSTANTS
  Sources,     \* texts to compress
  Modes,       \* flags and habits: [parsing, greedy, probes, size, flush]
  DictSize,    \* TDEFL_LZ_DICT_SIZE
  MaxMatch,    \* TDEFL_MAX_MATCH_LEN
  LongMatch,   \* 128: matches this long are not held back
  FarAway,     \* 8192: how far back a shortest match is no gain
  Filtered,    \* 5: the longest match TDEFL_FILTER_MATCHES forgets
  PosSpan,     \* 65536: positions in the chains have sixteen bits
  LzCodes,     \* how many literals and matches the buffer holds
  OutBufSize,  \* TDEFL_OUT_BUF_SIZE
  Offers, Rooms, \* how much input and room the user offers at a time
  MaxBytes     \* bound: the user stops when so many bytes are written

MinMatch == 3
(* What holds of the constants. *)
DeflateAssumption ==
  /\ DictSize \in Nat /\ MaxMatch \in MinMatch .. DictSize
  /\ PosSpan \in Nat \ {0} /\ PosSpan % DictSize = 0
  /\ Offers \subseteq Nat /\ Rooms \subseteq Nat
  /\ \A s \in Sources : Len(s) \in Nat /\ s = [k \in 1 .. Len(s) |-> s[k]]
  \* A block fits OutBufSize with what comes before and after it.
  /\ LzCodes \in Nat \ {0} /\ OutBufSize \in Nat /\ LzCodes + 10 <= OutBufSize
  /\ \A m \in Modes : m.probes \in Nat /\ m.size \in Nat \ {0} /\ m.size + 11 <= OutBufSize

VARIABLES
  source, mode, client,  \* the text, the flags and habits, and which function is called
  d,           \* tdefl_compressor
  a,           \* the arguments of the calls: flush, input and room left
  at, told,    \* who runs, and what the user was told last
  taken, got,  \* how much input the user gave and output the user got
  made, coded, \* history: bytes written, and the text that they stand for
  start        \* history: taken and got when the user called

vars == <<source, mode, client, d, a, at, told, taken, got, made, coded, start>>
caseVars == <<source, mode, client>>

Smaller(x, y) == IF x < y THEN x ELSE y
Room == a.room - got
Ahead == Smaller(a.given, Len(source)) - taken
Cell(i) == i % DictSize

(* tdefl_init.                                                             *)
Cleared == [k \in 0 .. PosSpan - 1 |-> 0]
tdefl_init == [dict |-> [k \in 0 .. DictSize + MaxMatch - 2 |-> 0],
               hash |-> <<>>, next |-> [k \in 0 .. DictSize - 1 |-> 0],
               pos |-> 0, ahead |-> 0, size |-> 0, saved |-> [len |-> 0, dist |-> 0, lit |-> 0],
               codes |-> <<>>, total |-> 0, dictPos |-> 0, summed |-> 0,
               ofs |-> 0, remaining |-> 0, finished |-> FALSE, wants |-> FALSE, last |-> "OKAY"]

Init ==
  /\ source \in Sources /\ mode \in Modes /\ client \in {"mz_deflate", "mem_to_heap", "mem_to_mem"}
  /\ d = tdefl_init /\ a = [flush |-> "none", given |-> 0, room |-> 0]
  /\ at = "user" /\ told = "none" /\ taken = 0 /\ got = 0 /\ made = 0 /\ coded = <<>>
  /\ start = [taken |-> 0, got |-> 0]
-----------------------------------------------------------------------------
(* The window.                                                             *)

(* A byte of input enters: the dictionary, its first cells kept twice so   *)
(* that a match is compared without wrapping, and the chain of positions   *)
(* with the same three bytes.                                              *)
Mirrored(i) == IF i < MaxMatch - 1 THEN {i, DictSize + i} ELSE {i}
Enter(e, c) ==
  LET i == Cell(e.pos + e.ahead)
      dict == [k \in DOMAIN e.dict |-> IF k \in Mirrored(i) THEN c ELSE e.dict[k]]
      p == e.pos + e.ahead - 2
      key == <<dict[Cell(p)], dict[Cell(p + 1)], c>>
      filled == [e EXCEPT !.dict = dict, !.ahead = @ + 1]
  IN IF e.ahead + e.size < MinMatch - 1 THEN filled
     ELSE [filled EXCEPT
             !.next[Cell(p)] = IF key \in DOMAIN e.hash THEN e.hash[key] ELSE 0,
             !.hash = [k \in DOMAIN @ \cup {key} |-> IF k = key THEN p % PosSpan ELSE @[k]]]

(* As much as there is enters, and what it overwrites leaves the dictionary. *)
Moving == Smaller(Ahead, MaxMatch - d.ahead)
MutantKept(e) == e.size
Kept(e) == Smaller(DictSize - e.ahead, e.size)
Filled ==
  LET after[n \in 0 .. Moving] == IF n = 0 THEN d ELSE Enter(after[n - 1], source[taken + n])
  IN [after[Moving] EXCEPT !.size = Kept(after[Moving])]

(* tdefl_find_match: along the chain, as far as the probes go and positions*)
(* lie in the dictionary, the first of the matches longest.                *)
SameBytes(e, p) ==
  LET from == Cell(e.pos)
      same == {n \in 1 .. e.ahead : \A k \in 0 .. n - 1 : e.dict[p + k] = e.dict[from + k]}
  IN Max(same \cup {0})
Follow(e, best) ==
  LET p == e.next[best.cell]
      dist == (e.pos - p) % PosSpan
      len == SameBytes(e, Cell(p))
  IN IF ~best.more \/ p = 0 \/ dist > e.size \/ dist = 0 \/ e.ahead <= best.len
     THEN [best EXCEPT !.more = FALSE]
     ELSE IF len > best.len THEN [best EXCEPT !.cell = Cell(p), !.len = len, !.dist = dist]
     ELSE [best EXCEPT !.cell = Cell(p)]
Unmatched(e) == [cell |-> Cell(e.pos), dist |-> 0, more |-> TRUE,
                 len |-> IF e.saved.len > 0 THEN e.saved.len ELSE MinMatch - 1]
Probe(e) ==
  LET best[n \in 0 .. mode.probes] == IF n = 0 THEN Unmatched(e) ELSE Follow(e, best[n - 1])
  IN best[mode.probes]

(* Only runs of the byte before are looked for (TDEFL_RLE_MATCHES).        *)
Run(e) ==
  LET same == {n \in 1 .. e.ahead : \A k \in 0 .. n - 1 :
                 e.dict[Cell(e.pos) + k] = e.dict[Cell(e.pos - 1)]}
      n == Max(same \cup {0})
  IN IF e.size > 0 /\ n >= MinMatch THEN [len |-> n, dist |-> 1] ELSE [len |-> 0, dist |-> 0]

Match(e) ==
  LET m == CASE mode.parsing = "rle" -> Run(e)
             [] mode.parsing = "raw" -> [len |-> MinMatch - 1, dist |-> 0]
             [] OTHER -> Probe(e)
      poor == \/ m.len = MinMatch /\ m.dist >= FarAway
              \/ Cell(e.pos) = m.dist
              \/ mode.parsing = "filter" /\ m.len <= Filtered
  IN IF poor THEN [len |-> 0, dist |-> 0] ELSE [len |-> m.len, dist |-> m.dist]

(* tdefl_record_literal, tdefl_record_match.                               *)
Record(e, code) == [e EXCEPT !.codes = Append(@, code), !.total = @ + code.len]
Literal(c) == [len |-> 1, dist |-> 0, lit |-> c]
Pair(m) == [len |-> m.len, dist |-> m.dist, lit |-> 0]
NoMatch == [len |-> 0, dist |-> 0, lit |-> 0]

(* A match is held back for a byte, for the next byte may have a longer.   *)
Held(e, m) == [e EXCEPT !.saved = [len |-> m.len, dist |-> m.dist, lit |-> e.dict[Cell(e.pos)]]]

(* The match held back is written whole, without moving on. *)
MutantMove(e, m) == IF e.saved.len = 0 THEN 1 ELSE e.saved.len

Direct(m) == m.len >= LongMatch
Better(e, m) == m.len > e.saved.len
Move(e, m) ==
  IF e.saved.len > 0 THEN IF ~Better(e, m) THEN e.saved.len - 1 ELSE IF Direct(m) THEN m.len ELSE 1
  ELSE IF m.dist # 0 /\ (mode.greedy \/ mode.parsing = "rle" \/ Direct(m)) THEN m.len ELSE 1
Parsed(e, m) ==
  IF e.saved.len > 0
  THEN IF ~Better(e, m) THEN [Record(e, Pair(e.saved)) EXCEPT !.saved = NoMatch]
       ELSE IF Direct(m) THEN [Record(Record(e, Literal(e.saved.lit)), Pair(m)) EXCEPT !.saved = NoMatch]
       ELSE Held(Record(e, Literal(e.saved.lit)), m)
  ELSE IF m.dist = 0 THEN Record(e, Literal(e.dict[Cell(e.pos)]))
  ELSE IF Move(e, m) > 1 THEN Record(e, Pair(m))
  ELSE Held(e, m)
Moved(e, n) == [e EXCEPT !.pos = @ + n, !.ahead = @ - n, !.size = Smaller(@ + n, DictSize)]
-----------------------------------------------------------------------------
(* tdefl_flush_block.                                                      *)

(* What a decompressor makes of literals and matches.                      *)
Expand(text, code) ==
  IF code.dist = 0 THEN Append(text, code.lit)
  ELSE IF code.dist > Smaller(Len(text), DictSize) THEN Append(text, "lost")
  ELSE text \o [k \in 1 .. code.len |-> text[Len(text) - code.dist + 1 + ((k - 1) % code.dist)]]
Expanded(text, codes) ==
  LET after[n \in 0 .. Len(codes)] == IF n = 0 THEN text ELSE Expand(after[n - 1], codes[n])
  IN after[Len(codes)]

(* The dictionary has what was recorded, whatever has been moved on since. *)
StillThere(e) == e.pos - e.dictPos <= e.size
Stored(e) == [k \in 1 .. e.total |-> e.dict[Cell(e.dictPos + k - 1)]]

(* The compressed block, or the bytes as they are, if that is no gain.     *)
Raw(e) == StillThere(e) /\ (mode.parsing = "raw" \/ (e.total > 0 /\ mode.size + 1 >= e.total))
Written(e, flush) ==
  (IF Raw(e) THEN e.total + 5 ELSE mode.size) + (CASE flush = "none" -> 0 [] flush = "finish" -> 4 [] OTHER -> 5)
(* The buffer starts again; a full flush drops the history of matches, too.*)
Forgotten(e) == [e EXCEPT !.hash = <<>>, !.next = [k \in DOMAIN @ |-> 0], !.size = 0]
Emptied(e, flush) ==
  [IF flush = "full" THEN Forgotten(e) ELSE e
   EXCEPT !.dictPos = @ + e.total, !.total = 0, !.codes = <<>>, !.finished = flush = "finish"]

(* Output goes to the function given, straight to the user where there is  *)
(* room for any block, or through a buffer that keeps what does not fit.   *)
Put(e, flush) ==
  LET bytes == Written(e, flush)
      fits == Smaller(bytes, Room)
  IN /\ made' = made + bytes
     /\ coded' = IF Raw(e) THEN coded \o Stored(e) ELSE Expanded(coded, e.codes)
     /\ IF client # "mz_deflate"
        THEN \/ /\ client = "mem_to_heap" \/ bytes <= Room
                /\ got' = got + bytes /\ d' = Emptied(e, flush)
             \/ /\ client = "mem_to_heap" \/ bytes > Room
                /\ UNCHANGED got /\ d' = [Emptied(e, "none") EXCEPT !.last = "PUT_BUF_FAILED"]
        ELSE IF Room >= OutBufSize THEN got' = got + bytes /\ d' = Emptied(e, flush)
        ELSE /\ got' = got + fits
             /\ d' = [Emptied(e, flush) EXCEPT !.ofs = IF fits < bytes THEN fits ELSE 0,
                                               !.remaining = bytes - fits]
-----------------------------------------------------------------------------
(* tdefl_compress, and tdefl_compress_normal in it.                        *)

Return == at' = "caller" /\ UNCHANGED <<caseVars, told, taken, coded, made, start>>

(* tdefl_flush_output_buffer.                                              *)
Drained(e, n) == [e EXCEPT !.ofs = @ + n, !.remaining = @ - n,
                           !.last = IF e.finished /\ e.remaining = n THEN "DONE" ELSE "OKAY"]
FlushOutput(e) == LET n == IF client = "mz_deflate" THEN Smaller(Room, e.remaining) ELSE 0
                  IN d' = Drained(e, n) /\ got' = got + n

(* A call is refused, only empties the buffer, or goes on.                 *)
Misused == d.last # "OKAY" \/ (d.wants /\ a.flush # "finish")
Compress ==
  /\ at = "tdefl"
  /\ LET e == [d EXCEPT !.wants = @ \/ a.flush = "finish"]
     IN \/ Misused /\ d' = [d EXCEPT !.last = "BAD_PARAM"] /\ UNCHANGED <<got, a>> /\ Return
        \/ /\ ~Misused /\ (d.remaining > 0 \/ d.finished)
           /\ FlushOutput(e) /\ UNCHANGED a /\ Return
        \/ /\ ~Misused /\ d.remaining = 0 /\ ~d.finished
           /\ d' = [e EXCEPT !.ofs = 0] /\ at' = "normal"
           /\ UNCHANGED <<caseVars, a, told, taken, got, made, coded, start>>

Looping == Ahead > 0 \/ (a.flush # "none" /\ d.ahead > 0)
Full(e) == Len(e.codes) >= LzCodes

(* One round of the loop: without a flush it keeps the lookahead full.     *)
Round ==
  /\ at = "normal" /\ Looping /\ taken' = taken + Moving
  /\ UNCHANGED <<caseVars, a, told, start>>
  /\ IF a.flush = "none" /\ Filled.ahead < MaxMatch
     THEN d' = Filled /\ at' = "ending" /\ UNCHANGED <<got, made, coded>>
     ELSE LET m == Match(Filled)
              e == Moved(Parsed(Filled, m), Move(Filled, m))
          IN \/ ~Full(e) /\ d' = e /\ UNCHANGED <<at, got, made, coded>>
             \/ /\ Full(e) /\ Put(e, "none")
                /\ at' = IF d'.last # "OKAY" THEN "caller" ELSE IF d'.remaining > 0 THEN "ending" ELSE at

Leave == /\ at = "normal" /\ ~Looping /\ at' = "ending"
         /\ UNCHANGED <<caseVars, d, a, told, taken, got, made, coded, start>>

(* The rest of tdefl_compress: the checksum, then the last block of a flush*)
(* once everything is in it.                                               *)
Summed == [d EXCEPT !.summed = taken]
Complete == a.flush # "none" /\ d.ahead = 0 /\ Ahead = 0 /\ d.remaining = 0
EndBlock ==
  /\ at = "ending" /\ Complete
  /\ Put(Summed, a.flush)
  /\ at' = "flushing" /\ UNCHANGED <<caseVars, a, told, taken, start>>

EndCall ==
  /\ at = "flushing" \/ (at = "ending" /\ ~Complete)
  /\ IF d.last = "PUT_BUF_FAILED" THEN UNCHANGED <<d, got>>
     ELSE FlushOutput(IF at = "ending" THEN Summed ELSE d)
  /\ UNCHANGED a /\ Return
-----------------------------------------------------------------------------
(* mz_deflate, and the one-call helpers.                                   *)

Tell(answer) == told' = answer /\ UNCHANGED <<caseVars, d, taken, got, made, coded>>

mz_deflate(flush, offered, room) ==
  /\ at = "user" /\ client = "mz_deflate" /\ made <= MaxBytes /\ offered <= Len(source) - taken
  /\ a' = [flush |-> flush, given |-> taken + offered, room |-> got + room]
  /\ start' = [taken |-> taken, got |-> got]
  /\ \/ room = 0 /\ Tell("BUF_ERROR") /\ UNCHANGED at
     \/ /\ room > 0 /\ d.last = "DONE" /\ UNCHANGED at
        /\ Tell(IF flush = "finish" THEN "STREAM_END" ELSE "BUF_ERROR")
     \/ room > 0 /\ d.last # "DONE" /\ at' = "tdefl" /\ Tell(told)

(* Around its loop: an error or the end, no room, no input, or once more.  *)
Stuck == a.flush = "none" /\ taken = start.taken /\ got = start.got
DeflateLoop ==
  /\ at = "caller" /\ client = "mz_deflate" /\ UNCHANGED <<a, start>>
  /\ \/ /\ at' = "user"
        /\ \/ d.last = "BAD_PARAM" /\ Tell("STREAM_ERROR")
           \/ d.last = "DONE" /\ Tell("STREAM_END")
           \/ d.last = "OKAY" /\ Room = 0 /\ Tell("OK")
           \/ /\ d.last = "OKAY" /\ Room > 0 /\ Ahead = 0 /\ a.flush # "finish"
              /\ Tell(IF Stuck THEN "BUF_ERROR" ELSE "OK")
     \/ /\ d.last = "OKAY" /\ Room > 0 /\ (Ahead > 0 \/ a.flush = "finish")
        /\ at' = "tdefl" /\ Tell(told)

(* tdefl_compress_mem_to_heap and tdefl_compress_mem_to_mem.               *)
OneCall ==
  /\ client # "mz_deflate"
  /\ \/ /\ at = "user" /\ told = "none" /\ at' = "tdefl" /\ UNCHANGED start /\ Tell(told)
        /\ \E room \in Rooms : a' = [flush |-> "finish", given |-> Len(source), room |-> room]
     \/ /\ at = "caller" /\ at' = "user" /\ UNCHANGED <<a, start>>
        /\ Tell(IF d.last = "DONE" THEN "STREAM_END" ELSE "FAILED")

UserCalls == \E flush \in {"none", mode.flush, "finish"}, room \in Rooms, offered \in Offers :
               mz_deflate(flush, Smaller(offered, Len(source) - taken), room)
Next == UserCalls \/ Compress \/ Round \/ Leave \/ EndBlock \/ EndCall \/ DeflateLoop \/ OneCall
Spec == Init /\ [][Next]_vars
-----------------------------------------------------------------------------
(* Type invariant: the window never holds more than the dictionary.        *)
DeflateTypeOK ==
  /\ d.ahead \in 0 .. MaxMatch /\ d.size \in 0 .. DictSize
  /\ d.size + d.ahead <= DictSize
  /\ d.remaining \in Nat /\ taken \in 0 .. Len(source) /\ Len(d.codes) <= LzCodes

(* Every byte taken is in the output, recorded, held back or in the        *)
(* lookahead, once and in order, whichever way it went: literals, matches  *)
(* into a dictionary that is being overwritten, or stored bytes.           *)
HeldBack == IF d.saved.len > 0 THEN <<d.saved.lit>> ELSE <<>>
Lookahead == [k \in 1 .. d.ahead |-> d.dict[Cell(d.pos + k - 1)]]
TextKept ==
  Expanded(coded, d.codes) \o HeldBack \o Lookahead = SubSeq(source, 1, taken)

(* Output that did not fit is handed over later, in order and but once.    *)
OutputKept == d.last # "PUT_BUF_FAILED" /\ d.last # "BAD_PARAM" => got + d.remaining = made

(* Who is told that the stream has ended has all of it, and its checksum   *)
(* is that of all input.                                                   *)
EndIsWhole ==
  told = "STREAM_END" =>
    got = made /\ coded = SubSeq(source, 1, taken) /\ d.summed = taken /\ d.codes = <<>>

(* "Can't make forward progress" (miniz.c:293) is told, never left to find *)
(* out: a call answered OK took input or gave output.                      *)
DeflateAdvances == at = "user" /\ told = "OK" => taken > start.taken \/ got > start.got
===============================================================================
