---------------------------- MODULE MCRingBuffer -----------------------------
(* Small instances of RingBuffer.                                           *)
EXTENDS RingBuffer

CONSTANTS a, b

TwoBytes == {a, b}

\* Every block up to one byte more than the pool holds.
ShortBlocks == UNION {[1 .. n -> Byte] : n \in 0 .. Size + 1}

\* Requests for nothing, for all and for more than there can be.
ShortRequests == 0 .. Size + 1
==============================================================================
