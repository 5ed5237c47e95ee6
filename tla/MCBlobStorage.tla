---------------------------- MODULE MCBlobStorage ----------------------------
(***************************************************************************)
(* The adapter on streams of up to two chunks of one value, whose three    *)
(* contents have three digests, with one malformed key.                    *)
(***************************************************************************)
EXTENDS FilesystemRefinesContract, TLC

CONSTANTS c0, c1, c2    \* the digests of <<>>, <<x>> and <<x, x>>

MCSha256 == [c \in Content |-> CASE Len(c) = 0 -> c0 [] Len(c) = 1 -> c1 [] OTHER -> c2]
MCDigest == {MCSha256[c] : c \in Content}

Symmetry == Permutations(Request)
=============================================================================
