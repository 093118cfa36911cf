-------------------------------- MODULE NodeID --------------------------------
(***************************************************************************)
(* 160-bit identifiers (src/internal/dht/node.go).  An identifier is the    *)
(* set of the positions of its one bits, 0 being the least significant: the *)
(* code's big-endian byte i holds the positions (Bytes-1-i)*8 and up.       *)
(***************************************************************************)
EXTENDS Integers, FiniteSets

CONSTANT Bits    \* the length of an identifier (160)

ASSUME BitsAssumption == Bits \in Nat \ {0}

Positions == 0..(Bits - 1)
NodeID == SUBSET Positions

XOR(n, other) == (n \ other) \cup (other \ n)

\* The comparison of big-endian bytes: at the highest position where the two
\* differ, it is other that has a one.
Less(n, other) ==
  \E p \in other \ n : \A q \in XOR(n, other) : q <= p

\* The highest one bit of the distance; -1 when there is no distance.
getBucketIndex(local, other) ==
  LET dist == XOR(local, other)
  IN  IF dist = {} THEN -1
      ELSE CHOOSE p \in dist : \A q \in dist : q <= p
===============================================================================
