------------------------------ MODULE CpioArchive ------------------------------
(***************************************************************************)
(* find_cpio_file, with which the loader finds the kernel in the initrd: a *)
(* pointer walks the headers of a cpio archive ("newc" format), each       *)
(* followed by a name and the file's bytes, both padded to four bytes.     *)
(* The walk trusts the sizes it reads: what keeps it on the headers is     *)
(* that it computes the same padding as the archiver.                      *)
(*                                                                         *)
(* The archive is what lies where in it: `contents` maps an offset to the  *)
(* header found there.  Anything else read as a header has no magic.       *)
(***************************************************************************)
EXTENDS Integers, Sequences, SequencesExt, PartialSums

CONSTANTS
  Archives,    \* sequences of entries [name, filesize], a name a sequence
  Filename,    \* the name looked for
  Cuts         \* how many bytes may be missing at the end

HeaderSize == 110
None == [start |-> -1, filesize |-> -1]
(* What holds of the constants. *)
CpioAssumption ==
  /\ Cuts \subseteq Nat /\ Filename # <<>>
  /\ \A ar \in Archives :
       /\ Len(ar) \in Nat /\ DOMAIN ar = 1 .. Len(ar)
       /\ \A k \in DOMAIN ar : Len(ar[k].name) \in Nat /\ ar[k].filesize \in Nat

(* The archiver, after the format: an entry takes its header and name, then
   its data, each padded to a multiple of four.                           *)
Padded(n) == n + ((4 - (n % 4)) % 4)
Namesize(e) == Len(e.name) + 1
EntrySize(e) == Padded(HeaderSize + Namesize(e)) + Padded(e.filesize)
Sizes(ar) == [k \in DOMAIN ar |-> EntrySize(ar[k])]
Offset(ar, k) == SumTo(Sizes(ar), k - 1)
Headers(ar) == [o \in {Offset(ar, k) : k \in DOMAIN ar} |->
                  ar[CHOOSE k \in DOMAIN ar : Offset(ar, k) = o]]

VARIABLES
  archive, contents, size,   \* the file, its headers by offset, bytes read
  p,           \* the offset of the header to look at
  found        \* the answer: None, or the start and length of the data

vars == <<archive, contents, size, p, found>>

Init ==
  /\ archive \in Archives
  /\ contents = Headers(archive)
  /\ \E cut \in Cuts : size = Offset(archive, Len(archive) + 1) - cut
  /\ p = 0
  /\ found = None

(* The data begins where the name ends: padding is forgotten. *)
MutantAlignUp(n) == n
AlignUp(n) == ((n + 3) \div 4) * 4

(* strncmp over namesize - 1 characters: the name of the entry without its
   terminator, so the filename need only begin with it.                   *)
Matches(e) == IsPrefix(e.name, Filename)

InBounds == p + HeaderSize <= size
IsHeader == InBounds /\ p \in DOMAIN contents

DataOf(e) == AlignUp(p + HeaderSize + Namesize(e))

Scanning == found = None /\ IsHeader

(* One round of the loop: the name fits, or the entry is skipped. *)
Find ==
  /\ Scanning /\ Matches(contents[p])
  /\ found' = [start |-> DataOf(contents[p]), filesize |-> contents[p].filesize]
  /\ UNCHANGED <<archive, contents, size, p>>

Skip ==
  /\ Scanning /\ ~Matches(contents[p])
  /\ p' = AlignUp(DataOf(contents[p]) + contents[p].filesize)
  /\ UNCHANGED <<archive, contents, size, found>>

Next == Find \/ Skip
Spec == Init /\ [][Next]_vars
-----------------------------------------------------------------------------
(* The entries the walk can see: those whose header was read whole. *)
Visible == {k \in DOMAIN archive : Offset(archive, k) + HeaderSize <= size}
IsEntry(k) == found = [start |-> Offset(archive, k)
                                 + Padded(HeaderSize + Namesize(archive[k])),
                       filesize |-> archive[k].filesize]

(* The walk never leaves the headers, whatever the lengths of names and
   files: it stands on an entry or past the last one.                     *)
InStep == \E k \in 1 .. (Len(archive) + 1) : p = Offset(archive, k)

(* The answer is some entry's own data. *)
FoundIsEntry == found # None => \E k \in Visible : IsEntry(k)

(* A file that is there is found: the loader does not report "Could not
   locate kernel.elf" over an archive that holds it.                      *)
PresentIsFound ==
  found = None /\ ~IsHeader => \A k \in Visible : archive[k].name # Filename
===============================================================================
