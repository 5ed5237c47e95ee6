--------------------------- MODULE MCStorageService ---------------------------
(***************************************************************************)
(* The service on streams of up to one chunk: two contents, two digests.   *)
(***************************************************************************)
EXTENDS StorageService, TLC

CONSTANTS c0, c1    \* the digests of <<>> and <<x>>

MCSha256 == [c \in Content |-> IF c = <<>> THEN c0 ELSE c1]

Symmetry == Permutations(Request)
=============================================================================
