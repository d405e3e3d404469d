------------------------------- MODULE Mailbox -------------------------------
(***************************************************************************)
(* What a topic of the data exchange unit promises its readers: one place  *)
(* that holds the newest sample.  A sample is published in one step; a     *)
(* reader that reads is given the newest one, never an older one and never *)
(* half of two.                                                            *)
(***************************************************************************)
EXTENDS Naturals

CONSTANT Readers   \* the reading nodes

VARIABLES
  latest,    \* the number of the newest sample
  members,   \* the readers that have joined
  seen       \* the newest sample when the reader last read, or joined

vars == <<latest, members, seen>>

Init ==
  /\ latest = 0
  /\ members = {}
  /\ seen = [r \in Readers |-> 0]

Publish ==
  /\ latest' = latest + 1
  /\ UNCHANGED <<members, seen>>

Join(r) ==
  /\ r \in Readers \ members
  /\ members' = members \cup {r}
  /\ seen' = [seen EXCEPT ![r] = latest]
  /\ UNCHANGED latest

Read(r) ==
  /\ r \in members
  /\ seen' = [seen EXCEPT ![r] = latest]
  /\ UNCHANGED <<latest, members>>

Next == Publish \/ \E r \in Readers : Join(r) \/ Read(r)

Spec == Init /\ [][Next]_vars
==============================================================================
