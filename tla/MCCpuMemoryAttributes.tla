----------------------- MODULE MCCpuMemoryAttributes -----------------------
(* An instance for TLC: 32 pages, of which 8 are below "1MB", and requests  *)
(* that fail half-way, need several MTRRs, are programmed from above, or    *)
(* match, cover, cut and merge with each other.                             *)
EXTENDS CpuMemoryAttributes

Table == <<[base |-> 0, len |-> 2], [base |-> 4, len |-> 2]>>
Request(base, len, types) == {[base |-> base, len |-> len, type |-> type] : type \in types}
RequestSet ==
  Request(0, 6, {"WB"}) \cup Request(0, 5, {"UC"}) \cup Request(6, 10, {"WC"}) \cup
  Request(30, 2, {"WC"}) \cup Request(16, 14, {"WB"}) \cup Request(8, 24, {"UC"}) \cup
  Request(8, 20, {"WB"}) \cup Request(16, 16, {"WT"}) \cup Request(24, 8, {"WC"}) \cup
  Request(10, 13, {"WB"}) \cup Request(12, 8, {"WB", "WC"})
=============================================================================
