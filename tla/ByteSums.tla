------------------------------- MODULE ByteSums ------------------------------
(* What the parsers' running checksums are compared with.                   *)
EXTENDS Integers, Sequences

\* The sum of the numbers of a sequence.
Total(s) ==
  LET upTo[k \in 0 .. Len(s)] == IF k = 0 THEN 0 ELSE upTo[k - 1] + s[k]
  IN upTo[Len(s)]

\* Every number times the number of sums it enters, when all are summed anew
\* with each that is added.
Weighted(s) == [k \in 1 .. Len(s) |-> (Len(s) + 1 - k) * s[k]]
==============================================================================
