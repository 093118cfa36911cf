---------------------------- MODULE MCDiskStorage ----------------------------
(***************************************************************************)
(* The instance of DiskStorage for TLC: a signed chunk of size 1, and an    *)
(* unsigned one that exceeds the quota of 2 all by itself.                  *)
(***************************************************************************)
EXTENDS DiskStorage, TLC

CONSTANTS k1, k2, small, huge, alice

MCBlobSize == [b \in Blobs |-> IF b = small THEN 1 ELSE 3]
MCBlobAuthor == [b \in Blobs |-> IF b = small THEN alice ELSE NoAuthor]
MCScores == {-1, 0}
Symmetry == Permutations(Keys)
=============================================================================
