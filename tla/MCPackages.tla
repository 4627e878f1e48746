------------------------------- MODULE MCPackages -------------------------------
(* Values for model-checking Packages that a configuration cannot spell.     *)
EXTENDS Packages, SequencesExt

(* Up to three files whose names are of every length modulo four and overlap
   with the one looked for, and the trailer entry.                        *)
Names == {<<"k">>, <<"k", "e">>, <<"x", "y", "z">>, <<"k", "e", "x", "y">>}
Trailer == [name |-> <<"T", "T">>, filesize |-> 0]
MCArchives == {Append(s, Trailer) : s \in SeqOf([name : Names, filesize : {0, 1, 6}], 3)}
MCFilename == <<"k", "e">>

(* Compressed streams, field by field. *)
Field(way, n) == [way |-> way, n |-> n, act |-> "none"]
Lit(way, n, val) == [way |-> way, n |-> n, act |-> "lit", val |-> val]
Copy(way, n, len, dist) == [way |-> way, n |-> n, act |-> "copy", len |-> len, dist |-> dist]
Bits(n) == Field("bits", n)
Finish == <<Field("finish", 0)>>
StoredBlock == <<Bits(3), Field("align", 0), Bits(8), Bits(8), Bits(8), Bits(8),
                 Lit("raw", 8, 7), Lit("raw", 8, 8)>>
FixedBlock == <<Bits(3), Lit("sym", 8, 1), Lit("sym", 9, 2), Field("sym", 7),
                Copy("huff", 5, 3, 2), Lit("sym", 8, 3), Field("sym", 8), Bits(2),
                Field("huff", 5), Copy("bits", 1, 6, 5), Field("sym", 7)>>
DynamicBlock == <<Bits(3), Bits(5), Bits(5), Bits(4), Bits(3), Field("huff", 7), Bits(7),
                  Lit("sym", 15, 5), Lit("sym", 1, 6), Field("sym", 15), Copy("huff", 15, 4, 1),
                  Field("sym", 2)>>
Zlib(fields) == <<Bits(8), Bits(8)>> \o fields \o Finish \o <<Bits(8), Bits(8), Bits(8), Bits(8)>>
Stream(f, zlib, adler) == [fields |-> f, zlib |-> zlib, adler |-> adler]
MCStreams ==
  {Stream(FixedBlock \o Finish, FALSE, TRUE),
   Stream(DynamicBlock \o StoredBlock \o Finish, FALSE, TRUE),
   Stream(Zlib(StoredBlock \o FixedBlock), TRUE, TRUE),
   Stream(Zlib(DynamicBlock), TRUE, FALSE),
   Stream(<<Bits(3), Lit("sym", 8, 1), Field("sym", 7), Bits(3), Field("bad", 0)>>, FALSE, TRUE),
   Stream(<<Bits(3), Field("sym", 7), Copy("huff", 5, 3, 2)>> \o Finish, FALSE, TRUE)}
MCMargins == {-3, 0, 9}

(* Texts with repeats near and far, long enough for positions to come round,
   in a window of eight bytes.                                            *)
Mode(parsing, greedy, probes, bytes, flush) ==
  [parsing |-> parsing, greedy |-> greedy, probes |-> probes, size |-> bytes, flush |-> flush]
MCSources == {<<>>, <<1, 2, 1, 2, 1, 2, 1, 1, 2, 2, 1, 2, 1, 1, 1, 1, 1, 1>>,
              <<2, 1, 1, 1, 1, 2, 1, 1, 1, 1, 1, 2, 1, 2, 2, 1, 1>>}
MCModes == {Mode("normal", FALSE, 6, 1, "sync"), Mode("normal", FALSE, 3, 5, "full"),
            Mode("normal", TRUE, 1, 1, "full"), Mode("rle", FALSE, 1, 3, "sync"),
            Mode("raw", TRUE, 0, 3, "sync"), Mode("filter", FALSE, 3, 1, "none")}

(* Frequencies from even to so uneven that the limit bites, and lengths with
   runs on both sides of every count the packing has a code for.          *)
Fibonacci == <<1, 1, 2, 3, 5, 8, 13, 21>>
Run(x, k) == [i \in 1 .. k |-> x]
FromZero(q) == [i \in 0 .. Len(q) - 1 |-> q[i + 1]]
MCCounts == [0 .. 4 -> {0, 1, 3, 6}] \cup {FromZero(Fibonacci), FromZero(Reverse(Fibonacci))}
MCLengths == {FromZero(<<3, 3>> \o Run(0, k) \o <<3, 1, 2, 2>> \o Run(2, j)) :
                k \in {0, 1, 2, 3, 10, 11, 16, 19}, j \in {0, 1, 4, 5, 8}}

(* Files deflated, stored and empty, names that differ only in case or in
   length, archives begun in each way; two files in an archive make it full
   and a third one too large for the plain format.                        *)
File(name, text, bytes, deflated) ==
  [name |-> name, text |-> text, size |-> bytes, packed |-> deflated]
Begun(reserve, align, zip64) == [reserve |-> reserve, align |-> align, zip64 |-> zip64]
MCFiles == {File(<<1>>, <<"t">>, 40, 24), File(<<11, 2>>, <<>>, 0, 0)}
MCShelf == <<File(<<1, 3>>, <<"s">>, 5, 0)>>
MCSought == {<<1>>, <<1, 2>>, <<12>>, <<1, 3>>}
MCLower(c) == c % 10
MCDirectories == SeqOf({<<1>>, <<11, 2>>, <<2>>, <<1, 12>>}, 4)
MCStarts == {Begun(0, 0, FALSE), Begun(5, 32, FALSE), Begun(0, 0, TRUE)}
===============================================================================
