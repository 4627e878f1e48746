------------------------------- MODULE MCLoader -------------------------------
(* A machine of 17 pages and two processors; tables of eight entries, so the
   loader needs up to three tables for its identity map and two for the
   kernel's pages, which begin at page 24.                                *)
EXTENDS Loader

TwoSegments == <<[page |-> 24, count |-> 1], [page |-> 25, count |-> 2]>>

\* A second segment larger than everything that is mapped after it.
LargeSegment == <<[page |-> 24, count |-> 1], [page |-> 25, count |-> 10]>>
===============================================================================
