----------------------------- MODULE MCMemoryMaps -----------------------------
(* Firmware memory maps for model checking: three regions laid end to end     *)
(* from frame 1, of three types, listed in every order.                       *)
EXTENDS Integers, FiniteSetsExt

Types == {"ConventionalMemory", "LoaderData", "RuntimeServicesData"}
Regions == 1 .. 3
Orders == {p \in [Regions -> Regions] : {p[r] : r \in Regions} = Regions}

MapOf(types, sizes, order) ==
  LET start(r) == 1 + FoldSet(LAMBDA q, sum : sum + sizes[q], 0, 1 .. (r - 1))
      region(r) == [Type |-> types[r], PhysicalStart |-> start(r),
                    NumberOfPages |-> sizes[r]]
  IN [k \in Regions |-> region(order[k])]

MapsOf(pages) == {MapOf(types, sizes, order) :
                    types \in [Regions -> Types], sizes \in [Regions -> pages],
                    order \in Orders}
===============================================================================
