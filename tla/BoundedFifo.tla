----------------------------- MODULE BoundedFifo -----------------------------
(***************************************************************************)
(* What a ring buffer promises: a first-in-first-out queue of bytes of     *)
(* bounded capacity.  A put appends as much of its block as fits and says  *)
(* how much that was; a get removes as much as was asked for and is there. *)
(***************************************************************************)
EXTENDS Integers, Sequences

CONSTANTS
  Byte,       \* the bytes
  Capacity,   \* how many of them fit
  Blocks,     \* the blocks of bytes that are put
  Requests    \* the amounts that are asked for

VARIABLES
  queue,      \* the bytes put and not yet taken
  out,        \* the bytes the last get delivered
  ret         \* the number the last put or get returned

vars == <<queue, out, ret>>

Lesser(m, n) == IF m < n THEN m ELSE n

Init == queue = <<>> /\ out = <<>> /\ ret = 0

Put(block) ==
  /\ ret' = Lesser(Len(block), Capacity - Len(queue))
  /\ queue' = queue \o SubSeq(block, 1, ret')
  /\ UNCHANGED out

Get(n) ==
  /\ ret' = Lesser(n, Len(queue))
  /\ out' = SubSeq(queue, 1, ret')
  /\ queue' = SubSeq(queue, ret' + 1, Len(queue))

Clear == queue' = <<>> /\ UNCHANGED <<out, ret>>

Next ==
  \/ \E block \in Blocks : Put(block)
  \/ \E n \in Requests : Get(n)
  \/ Clear

Spec == Init /\ [][Next]_vars
==============================================================================
