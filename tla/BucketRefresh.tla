----------------------------- MODULE BucketRefresh -----------------------------
(***************************************************************************)
(* The periodic refresh of the k-buckets (src/internal/dht/workers.go): one  *)
(* lookup per bucket, for a random identifier.                              *)
(***************************************************************************)
EXTENDS NodeID

CONSTANTS
  localID,
  ByteSize     \* bits of a byte (8), of which Bits is a multiple

\* What the constants are: an instance assumes it.
RefreshAssumption ==
  localID \in NodeID /\ ByteSize \in Nat \ {0} /\ Bits % ByteSize = 0

VARIABLES
  index,    \* the bucket refreshBuckets works on; Bits once it is done
  target    \* the identifier it looks up

vars == <<index, target>>

\* The byte of a position, and the positions of a byte.
ByteOf(i) == i \div ByteSize
Byte(b) == (b * ByteSize)..(b * ByteSize + ByteSize - 1)

\* mutant: the bit of the bucket is set instead of flipped
SetBit(n, i) == n \cup {i}
FlipBit(n, i) == XOR(n, {i})

\* generateRandomIDInBucket: the bit of the bucket is flipped, then random
\* bits replace the bytes before that byte, and the bits below it in the byte.
\* Bytes are stored big-endian, so "before" is above.
RandomIDs(i) ==
  LET above == {p \in Positions : ByteOf(p) > ByteOf(i)}
      below == {p \in Byte(ByteOf(i)) : p < i}
  IN  {(FlipBit(localID, i) \ (above \cup below)) \cup random :
         random \in SUBSET (above \cup below)}

Init == index = 0 /\ target \in RandomIDs(0)

\* The lookup of one target ends, and the next bucket has its turn.
RefreshNext ==
  /\ index < Bits - 1
  /\ index' = index + 1
  /\ target' \in RandomIDs(index + 1)

\* The next period starts over.
RefreshAgain ==
  /\ index = Bits - 1
  /\ index' = 0
  /\ target' \in RandomIDs(0)

Next == RefreshNext \/ RefreshAgain
Spec == Init /\ [][Next]_vars

-----------------------------------------------------------------------------
(* Properties *)

\* No lookup is for the node itself or for a node nearer than the bucket: the
\* buckets from the refreshed one up are all a refresh can reach.
NeverBelow == getBucketIndex(localID, target) >= index

\* A claim that does not hold (see README.md).
\* workers.go:150: "For each bucket index, generate a random ID": the target
\* belongs to the bucket it is generated for.
TargetInBucket == getBucketIndex(localID, target) = index
===============================================================================
