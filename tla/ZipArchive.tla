------------------------------ MODULE ZipArchive ------------------------------
(***************************************************************************)
(* miniz's zip archives: mz_zip_archive, the handle through which one      *)
(* program at a time writes an archive to a heap block or a file, extends  *)
(* one in place, or reads one back.  Any allocation and any write may      *)
(* fail; a write to a file may stop in the middle.                         *)
(*                                                                         *)
(* An archive is the set of records written, each with its offset and      *)
(* length in bytes; a record that is partly overwritten is gone.  What a   *)
(* call may do is a set of outcomes [z, file, ok], so that the calls made  *)
(* of others (adding in place) are composed of them.  Error codes, times,  *)
(* attributes, comments and directories' names are left out.               *)
(***************************************************************************)
EXTENDS Integers, Sequences, SequencesExt, FiniteSets, FiniteSetsExt

CONSTANTS
  Files,       \* what is added: [name, text, size, packed], a name a sequence
  Sought,      \* names looked for
  Lower(_),    \* MZ_TOLOWER
  Shelf,       \* the files of an archive that entries are copied from
  Starts,      \* how archives begin: [reserve, align, zip64]: the bytes left
               \* free, m_file_offset_alignment, and MZ_ZIP_FLAG_WRITE_ZIP64
  Directories, \* sequences of names to sort
  MaxFiles,    \* UINT16_MAX: more entries need the zip64 format
  MaxSize,     \* UINT32_MAX: so does a larger archive
  MaxEntries,  \* entries and
  MaxLen,      \* bytes at which the program stops adding to an archive
  MaxFailures  \* calls that fail, a bound of the model

(* What holds of the constants. *)
ZipAssumption ==
  /\ \A s \in Starts : s.align \in {0} \cup {2 ^ k : k \in 0 .. 5}
  /\ MaxFiles \in Nat \ {0} /\ MaxSize \in Nat

VARIABLES
  z,           \* the handle
  file,        \* the archive in its block or file; None if there is none
  listed,      \* history: the files that calls said are in the handle's archive
  saved,       \* history: {those of the archive finalized last}, or {}
  failures     \* history: how many calls have failed

vars == <<z, file, listed, saved, failures>>

None == [recs |-> {}, len |-> -1]
Nothing == <<"none">>
LocalSize == 30
CentralSize == 46
EndSize == 22
End64Size == 56
LocatorSize == 20
DescriptorSize(wide) == IF wide THEN 24 ELSE 16
Most(a, b) == IF a > b THEN a ELSE b
Least(a, b) == IF a < b THEN a ELSE b
Lowered(s) == [i \in DOMAIN s |-> Lower(s[i])]

-----------------------------------------------------------------------------
(* The bytes of an archive. *)
Blank == [recs |-> {}, len |-> 0]
Torn(f, ofs, n) ==
  IF n = 0 THEN f
  ELSE [recs |-> {q \in f.recs : q.ofs + q.len <= ofs \/ ofs + n <= q.ofs},
        len |-> Most(f.len, ofs + n)]
(* Of what nothing reads back only the room it takes is kept. *)
Put(f, rec) ==
  IF rec.len = 0 \/ rec.kind = "bytes" THEN Torn(f, rec.ofs, rec.len)
  ELSE [Torn(f, rec.ofs, rec.len) EXCEPT !.recs = @ \cup {rec}]
At(f, ofs, kind) == {q \in f.recs : q.ofs = ofs /\ q.kind = kind}
Record(f, ofs, kind) == CHOOSE q \in At(f, ofs, kind) : TRUE

(* mz_zip_heap_write_func: the block doubles until the write fits. *)
Capacity(cap, n) ==
  IF n <= cap THEN cap
  ELSE LET first == Most(64, cap)
       IN first * 2 ^ (CHOOSE k \in 0 .. 20 : /\ first * 2 ^ k >= n
                                              /\ \A j \in 0 .. k - 1 : first * 2 ^ j < n)
OnHeap(h) == h.type \in {"heap", "memory"}

(* Writes one after the other: all of them, or some and a part of the next,
   which for a file is all but a byte, and on the heap nothing.             *)
Written(h, f, writes) ==
  FoldLeft(LAMBDA w, rec : [file |-> Put(w.file, rec),
                            cap |-> IF OnHeap(h) /\ rec.len > 0
                                    THEN Capacity(w.cap, rec.ofs + rec.len) ELSE w.cap],
           [file |-> f, cap |-> h.cap], writes)
Stopped(h, f, writes) ==
  LET before(j) == Written(h, f, SubSeq(writes, 1, j - 1))
      parts(j) == IF writes[j].len = 0 THEN {}
                  ELSE IF OnHeap(h)
                  THEN IF writes[j].ofs + writes[j].len > before(j).cap THEN {0} ELSE {}
                  ELSE {writes[j].len - 1} \cup (IF j = 1 THEN {0} ELSE {})
  IN UNION {{[file |-> Torn(before(j).file, writes[j].ofs, n), cap |-> before(j).cap,
              done |-> j - 1] : n \in parts(j)} : j \in DOMAIN writes}

Outcome(h, f, ok) == [z |-> h, file |-> f, ok |-> ok]
-----------------------------------------------------------------------------
(* The handle.  mem says whether m_pMem points to a block. *)
Closed == [mode |-> "INVALID", type |-> "none", size |-> 0, cdofs |-> 0, total |-> 0, dir |-> <<>>,
           sorted |-> <<>>, unsorted |-> FALSE, zip64 |-> FALSE, cap |-> 0, mem |-> FALSE,
           align |-> 0]

writer_init(type, existing, align, zip64) ==
  [Closed EXCEPT !.mode = "WRITING", !.type = type, !.size = existing, !.align = align,
                 !.zip64 = zip64]

(* mz_zip_writer_init_heap_v2 and mz_zip_writer_init_file_v2. *)
init_heap(reserve, align, zip64) ==
  {Outcome(Closed, None, FALSE),
   Outcome([writer_init("heap", reserve, align, zip64) EXCEPT !.cap = reserve,
                                                              !.mem = reserve > 0], Blank, TRUE)}
init_file(f, reserve, align, zip64) ==
  LET h == writer_init("file", reserve, align, zip64)
  IN {Outcome(Closed, f, FALSE), Outcome(h, [Blank EXCEPT !.len = reserve], TRUE)}
     \cup (IF reserve = 0 THEN {} ELSE {Outcome(Closed, Blank, FALSE)})

(* mz_zip_writer_end_internal: the heap's block goes with the handle. *)
end_writer(h, f) == Outcome(Closed, IF OnHeap(h) /\ h.mem THEN None ELSE f, TRUE)

-----------------------------------------------------------------------------
(* Adding an entry. *)
EntrySize(e) == CentralSize + Len(e.name) + e.extra
DirSize(dir) == FoldLeft(LAMBDA sum, e : sum + EntrySize(e), 0, dir)
Padding(h) == IF h.align = 0 THEN 0 ELSE (h.align - (h.size % h.align)) % h.align
IsStored(f) == f.packed = 0 \/ f.size <= 3
CompSize(f) == IF IsStored(f) THEN f.size ELSE f.packed

(* The zip64 fields, in the local header and in the directory: there only
   for what the plain ones cannot hold.                                   *)
Extra64(h, size, ofs) ==
  IF h.zip64 /\ (size >= MaxSize \/ ofs >= MaxSize)
  THEN 4 + (IF size >= MaxSize THEN 16 ELSE 0) + (IF ofs >= MaxSize THEN 8 ELSE 0)
  ELSE 0

(* The entry count or size that no longer fits turns the archive into
   zip64; the size looks at all but the file to be added.                 *)
Widened(h, f) ==
  [h EXCEPT !.zip64 = \/ @ \/ h.total = MaxFiles \/ f.size > MaxSize
                      \/ h.size + Padding(h) + LocalSize + Len(f.name) + CentralSize + Len(f.name)
                           + DirSize(h.dir) + EndSize + DescriptorSize(FALSE) > MaxSize]

Entry(f, ofs, extra) ==
  [name |-> f.name, crc |-> f.text, comp |-> CompSize(f), uncomp |-> f.size,
   stored |-> IsStored(f), ofs |-> ofs, extra |-> extra]
LocalHeader(f, ofs, extra) ==
  [kind |-> "local", ofs |-> ofs, len |-> LocalSize, namelen |-> Len(f.name), extra |-> extra]
Laid(kind, ofs, len, what) == [kind |-> kind, ofs |-> ofs, len |-> len, what |-> what]
Bytes(ofs, len) == [kind |-> "bytes", ofs |-> ofs, len |-> len]

(* What is written for an entry, in this order: padding, local header, name,
   extra fields, data and, unless the file is empty, the data descriptor.   *)
EntryWrites(h, f, extra, wide) ==
  LET ofs == h.size + Padding(h)
      name == ofs + LocalSize
      fields == name + Len(f.name)
      data == fields + extra
      after == data + CompSize(f)
  IN <<Bytes(h.size, Padding(h)), LocalHeader(f, ofs, extra), Bytes(name, Len(f.name)),
       Bytes(fields, extra), Laid("data", data, CompSize(f), f.text),
       Bytes(after, IF f.size > 0 THEN DescriptorSize(wide) ELSE 0)>>
WrittenEnd(writes) == Last(writes).ofs + Last(writes).len

(* Nothing of the handle changes until all is written. *)
Failures(h, f, writes) ==
  {Outcome([h EXCEPT !.cap = w.cap, !.mem = @ \/ w.cap > 0], w.file, FALSE) :
     w \in Stopped(h, f, writes)}
MutantAdded(h, f, writes, e) ==   \* the directory is not put back
  LET w == Written(h, f, writes)
      wrote == [h EXCEPT !.cap = w.cap, !.mem = @ \/ w.cap > 0, !.dir = Append(@, e)]
  IN {Outcome([wrote EXCEPT !.total = @ + 1, !.size = WrittenEnd(writes)], w.file, TRUE),
      Outcome(wrote, w.file, FALSE)}

(* The directory's new entry may find no memory once all is written. *)
Added(h, f, writes, e) ==
  LET w == Written(h, f, writes)
      wrote == [h EXCEPT !.cap = w.cap, !.mem = @ \/ w.cap > 0]
  IN {Outcome([wrote EXCEPT !.dir = Append(@, e), !.total = @ + 1, !.size = WrittenEnd(writes)],
              w.file, TRUE),
      Outcome(wrote, w.file, FALSE)}

(* mz_zip_writer_add_mem_ex_v2. *)
add_mem(h, file0, f) ==
  LET w == Widened(h, f)
      ofs == w.size + Padding(w)
      extra == Extra64(w, f.size, ofs)
      writes == EntryWrites(w, f, extra, extra > 0)
  IN IF h.mode # "WRITING" THEN {Outcome(h, file0, FALSE)}
     ELSE {Outcome(w, file0, FALSE)}    \* no memory for the directory or the compressor
          \cup IF ~w.zip64 /\ ofs > MaxSize
               THEN Failures(w, file0, <<Head(writes)>>)
                    \cup {LET p == Written(w, file0, <<Head(writes)>>)
                          IN Outcome([w EXCEPT !.cap = p.cap], p.file, FALSE)}
               ELSE Failures(w, file0, writes) \cup Added(w, file0, writes, Entry(f, ofs, extra))
-----------------------------------------------------------------------------
(* Finalizing: the directory and the records at the end. *)
FinalWrites(h) ==
  LET size == DirSize(h.dir)
      ofs == IF h.total = 0 THEN 0 ELSE h.size
      end64 == h.size + (IF h.total = 0 THEN 0 ELSE size)
      last == end64 + (IF h.zip64 THEN End64Size + LocatorSize ELSE 0)
      fields == [total |-> h.total, size |-> IF h.total = 0 THEN 0 ELSE size, ofs |-> ofs]
      short == [total |-> Least(MaxFiles, h.total), size |-> Least(MaxSize, fields.size),
                ofs |-> Least(MaxSize, ofs)]
  IN (IF h.total = 0 THEN <<>> ELSE <<Laid("directory", h.size, size, h.dir)>>)
     \o (IF h.zip64 THEN <<Laid("end64", end64, End64Size, fields),
                           Laid("locator", end64 + End64Size, LocatorSize, end64)>> ELSE <<>>)
     \o <<Laid("end", last, EndSize, short)>>

TooLarge(h) == /\ ~h.zip64
               /\ h.total > MaxFiles \/ h.size + DirSize(h.dir) + EndSize > MaxSize

(* What was written stays counted when a later write fails, and when the
   file cannot be flushed.                                                *)
finalize_archive(h, f) ==
  LET writes == FinalWrites(h)
      upTo(k) == IF k = 0 THEN h.size ELSE writes[k].ofs + writes[k].len
      all == Written(h, f, writes)
  IN IF h.mode # "WRITING" \/ TooLarge(h) THEN {Outcome(h, f, FALSE)}
     ELSE {Outcome([h EXCEPT !.cap = s.cap, !.size = upTo(s.done)], s.file, FALSE) :
             s \in Stopped(h, f, writes)}
          \cup {Outcome([h EXCEPT !.cap = all.cap, !.mem = @ \/ all.cap > 0,
                                  !.size = WrittenEnd(writes),
                                  !.mode = "FINALIZED"], all.file, TRUE)}
          \cup (IF h.type # "file" THEN {}
                ELSE {Outcome([h EXCEPT !.size = upTo(Len(writes) - 1)], all.file, FALSE)})
-----------------------------------------------------------------------------
(* Looking up names: the index sorted by name, without regard to case. *)
Common(a, b) ==
  LET n == Least(Len(a), Len(b))
  IN CHOOSE k \in 0 .. n : /\ \A i \in 1 .. k : Lower(a[i]) = Lower(b[i])
                           /\ (k < n => Lower(a[k + 1]) # Lower(b[k + 1]))
Compare(a, b) ==
  LET k == Common(a, b)
  IN IF k = Least(Len(a), Len(b)) THEN Len(a) - Len(b) ELSE Lower(a[k + 1]) - Lower(b[k + 1])

(* mz_zip_reader_sort_central_dir_offsets_by_filename: a heap sort of the
   indices.  Sifted moves one down in the heap of the first `end` of them. *)
Swapped(p, i, j) == [p EXCEPT ![i] = p[j], ![j] = p[i]]
Sifted(p, dir, start, end) ==
  LET less(q, i, j) == Compare(dir[q[i]].name, dir[q[j]].name) < 0
      child(q, i) == LET left == 2 * i + 1
                     IN IF left + 1 < end /\ less(q, left, left + 1) THEN left + 1 ELSE left
      down(s, k) == IF s.stop \/ 2 * s.root + 1 >= end THEN s
                    ELSE LET c == child(s.p, s.root)
                         IN IF less(s.p, s.root, c)
                            THEN [p |-> Swapped(s.p, s.root, c), root |-> c, stop |-> FALSE]
                            ELSE [s EXCEPT !.stop = TRUE]
  IN FoldLeft(down, [p |-> p, root |-> start, stop |-> FALSE], [k \in 1 .. end |-> k]).p
SortedNames(dir) ==
  LET n == Len(dir)
      heap == FoldLeft(LAMBDA p, k : Sifted(p, dir, (n \div 2) - k, n),
                       [i \in 0 .. n - 1 |-> i + 1], [k \in 1 .. n \div 2 |-> k])
  IN IF n <= 1 THEN [i \in 0 .. n - 1 |-> i + 1]
     ELSE FoldLeft(LAMBDA p, k : Sifted(Swapped(p, n - k, 0), dir, 0, n - k),
                   heap, [k \in 1 .. n - 1 |-> k])

binary_search(h, name) ==
  LET look(s, k) ==
        LET m == s.l + ((s.h - s.l) \div 2)
            comp == Compare(h.dir[h.sorted[m]].name, name)
        IN IF s.found # -1 \/ s.l > s.h THEN s
           ELSE IF comp = 0 THEN [s EXCEPT !.found = h.sorted[m]]
           ELSE IF comp < 0 THEN [s EXCEPT !.l = m + 1] ELSE [s EXCEPT !.h = m - 1]
  IN FoldLeft(look, [l |-> 0, h |-> h.total - 1, found |-> -1],
              [k \in 1 .. h.total |-> k]).found
linear_search(h, name, exact) ==
  LET same(i) == IF exact THEN h.dir[i].name = name ELSE Lowered(h.dir[i].name) = Lowered(name)
      hits == {i \in 1 .. h.total : same(i)}
  IN IF hits = {} THEN -1 ELSE Min(hits)
locate_file(h, name, exact) ==
  IF h.mode = "READING" /\ ~h.unsorted /\ ~exact /\ h.sorted # <<>>
  THEN binary_search(h, name) ELSE linear_search(h, name, exact)
-----------------------------------------------------------------------------
(* Reading.  mz_zip_reader_read_central_dir looks for the last end record
   and believes the zip64 one before it.                                  *)
Ends(f) == {q \in f.recs : q.kind = "end"}
EndOf(f) == CHOOSE q \in Ends(f) : \A o \in Ends(f) : o.ofs <= q.ofs
Wide(f, end) ==
  /\ end.ofs >= LocatorSize + End64Size
  /\ At(f, end.ofs - LocatorSize, "locator") # {}
  /\ At(f, Record(f, end.ofs - LocatorSize, "locator").what, "end64") # {}
Fields(f) ==
  LET end == EndOf(f)
  IN IF Wide(f, end)
     THEN Record(f, Record(f, end.ofs - LocatorSize, "locator").what, "end64").what
     ELSE end.what
DirectoryRead(f) ==
  IF Fields(f).total = 0 THEN <<>> ELSE Record(f, Fields(f).ofs, "directory").what
Readable(f) ==
  /\ Ends(f) # {}
  /\ Fields(f).total > 0 =>
       LET d == Fields(f)
           dir == DirectoryRead(f)
           fits(e) == /\ e.stored => e.comp = e.uncomp
                      /\ e.uncomp > 0 => e.comp > 0
                      /\ e.ofs + LocalSize + e.comp <= f.len
       IN /\ At(f, d.ofs, "directory") # {}
          /\ Len(dir) = d.total /\ DirSize(dir) = d.size
          /\ d.ofs + d.size <= f.len
          /\ \A i \in DOMAIN dir : fits(dir[i])

(* mz_zip_reader_init_mem and mz_zip_reader_init_file_v2, with the failure
   of an allocation or a read.                                            *)
reader_init(f, type, unsorted) ==
  {Outcome(Closed, f, FALSE)}
  \cup IF ~Readable(f) THEN {}
       ELSE LET dir == DirectoryRead(f)
            IN {Outcome([Closed EXCEPT
                  !.mode = "READING", !.type = type, !.size = f.len, !.cdofs = Fields(f).ofs,
                  !.total = Fields(f).total, !.dir = dir, !.unsorted = unsorted,
                  !.sorted = IF unsorted \/ dir = <<>> THEN <<>> ELSE SortedNames(dir),
                  !.zip64 = Wide(f, EndOf(f)), !.mem = (type = "memory")], f, TRUE)}

(* mz_zip_reader_extract_to_mem_no_alloc1: the text of entry i, or Nothing. *)
extract(h, f, i) ==
  IF i \notin 1 .. h.total THEN Nothing
  ELSE LET e == h.dir[i]
           local == Record(f, e.ofs, "local")
           data == e.ofs + LocalSize + local.namelen + local.extra
       IN IF e.comp = 0 THEN <<>>
          ELSE IF /\ At(f, e.ofs, "local") # {}
                  /\ data + e.comp <= h.size
                  /\ \E q \in At(f, data, "data") : q.len = e.comp /\ q.what = e.crc
               THEN e.crc ELSE Nothing

(* mz_zip_writer_init_from_reader_v2: new entries go where the directory is. *)
init_from_reader(h, f) ==
  LET open == [h EXCEPT !.mode = "WRITING", !.size = h.cdofs, !.cdofs = 0, !.sorted = <<>>,
                        !.cap = IF h.type = "memory" THEN f.len ELSE 0]
  IN IF \/ h.mode # "READING" 
        \/ ~h.zip64 /\ (h.total = MaxFiles \/ h.size + CentralSize + LocalSize > MaxSize)
     THEN {Outcome(h, f, FALSE)}
     ELSE {Outcome(open, f, TRUE)}
          \cup (IF h.type = "file" THEN {Outcome(Closed, f, FALSE)} ELSE {})  \* reopening failed
-----------------------------------------------------------------------------
(* mz_zip_writer_add_from_zip_reader: the bytes of an entry and what the
   directory says of it are copied; only its place is new.  The buffer is
   allocated once the header is written.                                   *)
AsFile(e) == [name |-> e.name, text |-> e.crc, size |-> e.uncomp,
              packed |-> IF e.stored THEN 0 ELSE e.comp]
add_from(h, f, src, i) ==
  LET e == src.z.dir[i]
      copy == AsFile(e)
      writes == EntryWrites(h, copy, 0, h.zip64)
      approx == h.size + Padding(h) + LocalSize + Len(e.name) + e.comp + DescriptorSize(FALSE)
                + DirSize(h.dir) + EntrySize(e) + EndSize + 64
      entry == [e EXCEPT !.ofs = h.size + Padding(h), !.extra = IF h.zip64 THEN 28 ELSE @]
      header == Written(h, f, SubSeq(writes, 1, 2))
  IN IF \/ h.mode # "WRITING" \/ (src.z.zip64 /\ ~h.zip64)
        \/ (~h.zip64 /\ (h.total = MaxFiles \/ approx >= MaxSize))
     THEN {Outcome(h, f, FALSE)}
     ELSE {Outcome([h EXCEPT !.cap = header.cap, !.mem = @ \/ header.cap > 0], header.file, FALSE)}
          \cup Failures(h, f, writes) \cup Added(h, f, writes, entry)

(* The archive on the shelf, made by the calls above. *)
Success(outcomes) == CHOOSE o \in outcomes : o.ok
Made(files) ==
  LET start == [z |-> writer_init("heap", 0, 0, FALSE), file |-> Blank]
      all == FoldLeft(LAMBDA o, f : Success(add_mem(o.z, o.file, f)), start, files)
      end == Success(finalize_archive(all.z, all.file))
  IN Success(reader_init(end.file, "memory", FALSE))
Source == Made(Shelf)

(* mz_zip_add_mem_to_archive_file_in_place_v2: a new archive, or the one
   there opened for writing; one file added; finalized even if that failed.
   A new archive is deleted when anything failed.  whole says whether the
   directory was written to the end.                                       *)
in_place(f, new) ==
  LET created == f = None
      opened == IF created THEN init_file(f, 0, 0, FALSE) 
                ELSE UNION {init_from_reader(o.z, o.file) :
                              o \in {q \in reader_init(f, "file", TRUE) : q.ok}}
      tried == UNION {add_mem(o.z, o.file, new) : o \in {q \in opened : q.ok}}
      ended == UNION {{[file |-> e.file, added |-> a.ok, whole |-> e.ok] :
                         e \in finalize_archive(a.z, a.file)} : a \in tried}
  IN {[file |-> f, added |-> FALSE, whole |-> TRUE]}
     \cup {IF created /\ ~(e.added /\ e.whole) THEN [e EXCEPT !.file = None] ELSE e : e \in ended}
-----------------------------------------------------------------------------
Init == z = Closed /\ file = None /\ listed = <<>> /\ saved = {} /\ failures = 0

Do(outcomes, onSuccess, onFailure) ==
  \E o \in outcomes :
    /\ z' = o.z /\ file' = o.file
    /\ IF o.ok THEN onSuccess /\ UNCHANGED failures
       ELSE onFailure /\ failures < MaxFailures /\ failures' = failures + 1
Same == UNCHANGED <<listed, saved>>
Gone == listed' = <<>> /\ saved' = IF file' = file THEN saved ELSE {}

InitHeap ==
  /\ z.mode = "INVALID" /\ file = None
  /\ \E s \in Starts : Do(init_heap(s.reserve, s.align, s.zip64), Same, Same)
InitFile ==
  /\ z.mode = "INVALID"
  /\ \E s \in Starts : Do(init_file(file, s.reserve, s.align, s.zip64),
                           listed' = <<>> /\ saved' = {}, Gone)

Room == z.mode = "WRITING" /\ Len(listed) < MaxEntries /\ z.size < MaxLen
AddMem ==
  /\ Room
  /\ \E f \in Files :
       Do(add_mem(z, file, f), listed' = Append(listed, f) /\ UNCHANGED saved, Same)
AddFromReader ==
  /\ Room
  /\ \E i \in DOMAIN Shelf :
       Do(add_from(z, file, Source, i), 
          listed' = Append(listed, Shelf[i]) /\ UNCHANGED saved, Same)

FinalizeArchive ==
  /\ z.mode = "WRITING" /\ z.size < MaxLen
  /\ Do(finalize_archive(z, file), saved' = {listed} /\ UNCHANGED listed, Same)

(* mz_zip_writer_finalize_heap_archive gives the block to the user. *)
FinalizeHeap ==
  /\ z.mode = "WRITING" /\ OnHeap(z) /\ z.size < MaxLen
  /\ Do({IF o.ok THEN [o EXCEPT !.z.mem = FALSE, !.z.cap = 0] ELSE o :
           o \in finalize_archive(z, file)}, saved' = {listed} /\ UNCHANGED listed, Same)

(* mz_zip_end *)
End ==
  /\ z.mode # "INVALID"
  /\ Do({IF z.mode = "READING" THEN Outcome(Closed, file, TRUE) ELSE end_writer(z, file)},
        Gone, Gone)

ReaderInit ==
  /\ z.mode = "INVALID" /\ file # None
  /\ \E type \in {"memory", "file"}, unsorted \in BOOLEAN :
       Do(reader_init(file, type, unsorted),
          listed' = [i \in DOMAIN z'.dir |-> AsFile(z'.dir[i])] /\ UNCHANGED saved, Same)
(* The directory of an archive without entries is said to be at 0.  If its
   end record is further on, what is added goes to 0 and the old end record
   stays last: such an archive is not extended here.                        *)
Extensible(f) == DirectoryRead(f) # <<>> \/ EndOf(f).ofs = 0

InitFromReader ==
  /\ z.mode = "READING" /\ Extensible(file)
  /\ Do(init_from_reader(z, file), saved' = {} /\ UNCHANGED listed,
        (IF z'.mode = "INVALID" THEN listed' = <<>> ELSE UNCHANGED listed) /\ UNCHANGED saved)

AddInPlace ==
  /\ z.mode = "INVALID"
  /\ file # None /\ Readable(file) => Extensible(file) /\ Len(DirectoryRead(file)) < MaxEntries
  /\ \E f \in Files : \E e \in in_place(file, f) :
       /\ file' = e.file
       /\ saved' = IF e.file = None \/ ~e.whole THEN {}
                   ELSE IF ~e.added THEN saved
                   ELSE IF file = None THEN {<<f>>} ELSE {Append(s, f) : s \in saved}
       /\ IF e.added /\ e.whole THEN UNCHANGED failures
          ELSE failures < MaxFailures /\ failures' = failures + 1
  /\ UNCHANGED <<z, listed>>

Next == \/ InitHeap \/ InitFile \/ AddMem \/ AddFromReader \/ FinalizeArchive \/ FinalizeHeap
        \/ End \/ ReaderInit \/ InitFromReader \/ AddInPlace
Spec == Init /\ [][Next]_vars
-----------------------------------------------------------------------------
ZipTypeOK ==
  /\ z.mode \in {"INVALID", "READING", "WRITING", "FINALIZED"}
  /\ z.type \in {"none", "heap", "memory", "file"}
  /\ z.size \in Nat /\ z.total \in 0 .. MaxEntries /\ z.cap \in Nat
  /\ \A q \in file.recs : q.ofs + q.len <= file.len
  /\ Cardinality(saved) <= 1 /\ failures \in 0 .. MaxFailures

(* Whatever failed before, the handle lists the files it was said to hold,
   and each can be read; none is where it should not be.                    *)
EntriesIntact ==
  z.mode # "INVALID" =>
    /\ z.total = Len(z.dir) /\ z.total = Len(listed)
    /\ \A i \in DOMAIN listed :
         /\ z.dir[i].name = listed[i].name
         /\ extract(z, file, i) = listed[i].text
         /\ z.align > 0 => z.dir[i].ofs % z.align = 0

(* An archive finalized reads back as what was put in, and stays so when a
   file added in place could not be, as long as its directory was written. *)
ReadsBack ==
  z.mode # "WRITING" =>
    \A s \in saved :
      LET dir == DirectoryRead(file)
      IN Readable(file) /\ Len(dir) = Len(s) /\ \A i \in DOMAIN s : dir[i].name = s[i].name

(* A name is found by the sorted index if and only if it is in the
   directory, and the entry found bears it.                                *)
Bearing(dir, name) == {k \in DOMAIN dir : Lowered(dir[k].name) = Lowered(name)}
FindsNames(h) ==
  \A name \in Sought : LET i == locate_file(h, name, FALSE)
                      IN IF Bearing(h.dir, name) = {} THEN i = -1 ELSE i \in Bearing(h.dir, name)
HandleOf(names) ==
  LET dir == [i \in DOMAIN names |-> [name |-> names[i]]]
  IN [Closed EXCEPT !.mode = "READING", !.total = Len(names), !.dir = dir,
                    !.sorted = SortedNames(dir)]
NamesFound ==
  /\ z.mode \in {"READING", "WRITING"} => FindsNames(z)
  /\ file = None => \A names \in Directories : FindsNames(HandleOf(names))

(* The block is large enough for all that is in it. *)
BlockHolds == OnHeap(z) /\ z.mem /\ z.mode # "INVALID" /\ z.mode # "READING" => file.len <= z.cap
=============================================================================
