-------------------------------- MODULE Packages --------------------------------
(* The vendored packages and the search in the initrd side by side: each     *)
(* behaviour exercises one of them, named by part, and the variables of the  *)
(* others stay Off.  They share no state in the code either.                 *)
EXTENDS Integers, Sequences

CONSTANTS
  Off,                                            \* of a package not exercised
  Archives, Filename, Cuts,                       \* of CpioArchive
  Streams, Margins, HeapSize, Chunks, TextRooms,  \* of Inflate
  DictSize,                                       \* of Inflate and Deflate
  Sources, Modes, MaxMatch, LongMatch, FarAway,   \* of Deflate
  Filtered, PosSpan, LzCodes, OutBufSize, Offers, CodeRooms, MaxBytes,
  Counts, Limits, Lengths, Radix, FastBits, MaxZeros,  \* of HuffmanCodes
  Files, Sought, Lower(_), Shelf, Starts,         \* of ZipArchive
  Directories, MaxFiles, MaxSize, MaxEntries, MaxLen, MaxFailures

VARIABLES part,
  archive, contents, size, p, found,
  stream, input, client, r, cur, out, buf, call, pc, status, z, delivered, answer, before,
  source, mode, caller, d, a, at, told, taken, got, made, coded, start,
  count, limit, syms, keys, num_codes, sizes, packed, table, stage,
  z_zip, file, listed, saved, failures

Cpio == INSTANCE CpioArchive
Tinfl == INSTANCE Inflate WITH Rooms <- TextRooms
Tdefl == INSTANCE Deflate WITH Rooms <- CodeRooms, client <- caller
Codes == INSTANCE HuffmanCodes
Archive == INSTANCE ZipArchive WITH z <- z_zip

ASSUME PackagesAssumption ==
  /\ Cpio!CpioAssumption /\ Tinfl!InflateAssumption /\ Tdefl!DeflateAssumption
  /\ Archive!ZipAssumption
-----------------------------------------------------------------------------
cpioVars == <<archive, contents, size, p, found>>
inflateVars == <<stream, input, client, r, cur, out, buf, call, pc, status, z, delivered,
                 answer, before>>
deflateVars == <<source, mode, caller, d, a, at, told, taken, got, made, coded, start>>
huffmanVars == <<count, limit, syms, keys, num_codes, sizes, packed, table, stage>>
zipVars == <<z_zip, file, listed, saved, failures>>
NoCpio == archive = Off /\ contents = Off /\ size = Off /\ p = Off /\ found = Off
NoInflate == /\ stream = Off /\ input = Off /\ client = Off /\ r = Off /\ cur = Off /\ out = Off
             /\ buf = Off /\ call = Off /\ pc = Off /\ status = Off /\ z = Off
             /\ delivered = Off /\ answer = Off /\ before = Off
NoDeflate == /\ source = Off /\ mode = Off /\ caller = Off /\ d = Off /\ a = Off /\ at = Off
             /\ told = Off /\ taken = Off /\ got = Off /\ made = Off /\ coded = Off /\ start = Off
NoCodes == /\ count = Off /\ limit = Off /\ syms = Off /\ keys = Off /\ num_codes = Off
           /\ sizes = Off /\ packed = Off /\ table = Off /\ stage = Off
NoZip == z_zip = Off /\ file = Off /\ listed = Off /\ saved = Off /\ failures = Off
Is(q) == part = q

Init ==
  /\ \/ Is("cpio") /\ Cpio!Init
     \/ Is("inflate") /\ Tinfl!Init
     \/ Is("deflate") /\ Tdefl!Init
     \/ Is("huffman") /\ Codes!Init
     \/ Is("zip") /\ Archive!Init
  /\ IF Is("cpio") THEN TRUE ELSE NoCpio
  /\ IF Is("inflate") THEN TRUE ELSE NoInflate
  /\ IF Is("deflate") THEN TRUE ELSE NoDeflate
  /\ IF Is("huffman") THEN TRUE ELSE NoCodes
  /\ IF Is("zip") THEN TRUE ELSE NoZip

Next ==
  /\ UNCHANGED part
  /\ \/ Is("cpio") /\ Cpio!Next
     \/ Is("inflate") /\ Tinfl!Next
     \/ Is("deflate") /\ Tdefl!Next
     \/ Is("huffman") /\ Codes!Next
     \/ Is("zip") /\ Archive!Next
  /\ IF Is("cpio") THEN TRUE ELSE UNCHANGED cpioVars
  /\ IF Is("inflate") THEN TRUE ELSE UNCHANGED inflateVars
  /\ IF Is("deflate") THEN TRUE ELSE UNCHANGED deflateVars
  /\ IF Is("huffman") THEN TRUE ELSE UNCHANGED huffmanVars
  /\ IF Is("zip") THEN TRUE ELSE UNCHANGED zipVars

vars == <<part, cpioVars, inflateVars, deflateVars, huffmanVars, zipVars>>
Spec == Init /\ [][Next]_vars
-----------------------------------------------------------------------------
(* The type invariants of the components. *)
PackagesTypeOK ==
  /\ Is("inflate") => Tinfl!InflateTypeOK
  /\ Is("deflate") => Tdefl!DeflateTypeOK
  /\ Is("huffman") => Codes!HuffmanTypeOK
  /\ Is("zip") => Archive!ZipTypeOK

(* The walk over the initrd stays on its headers, what it finds is an
   entry's own data, and it passes by no file of the name looked for
   (minc.h, find_cpio_file).                                              *)
EntryFound == Is("cpio") => Cpio!InStep /\ Cpio!FoundIsEntry /\ Cpio!PresentIsFound

(* Decompression, cut into whatever pieces, delivers the text and stops at
   the end of its stream (miniz.c, tinfl_decompress, mz_inflate).         *)
Inflated == Is("inflate") => Tinfl!TextDelivered /\ Tinfl!ReadsToTheEnd /\ Tinfl!CallAdvances

(* Compression keeps the text through window, buffers and flushes, and hands
   over all of it (miniz.c, tdefl_compress, mz_deflate).                  *)
Deflated ==
  Is("deflate") => Tdefl!TextKept /\ Tdefl!OutputKept /\ Tdefl!EndIsWhole /\ Tdefl!DeflateAdvances

(* The codes of a dynamic block cost as little as can be, keep to the limit,
   and decode to their symbols where they are sent (miniz.c:753-1075).    *)
CodesDecode ==
  Is("huffman") => Codes!Minimal /\ Codes!Complete /\ Codes!Unpacks /\ Codes!Decodes

(* Whatever allocation or write fails, an archive holds what its user was
   told it does, and finds it by name (miniz.c, the mz_zip functions).     *)
ArchiveIntact ==
  Is("zip") => Archive!EntriesIntact /\ Archive!ReadsBack /\ Archive!NamesFound /\ Archive!BlockHolds
===============================================================================
