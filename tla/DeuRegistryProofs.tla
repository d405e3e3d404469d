-------------------------- MODULE DeuRegistryProofs --------------------------
(***************************************************************************)
(* Proofs about DeuRegistry, for any threads, topics, names and number of  *)
(* calls: the list stays a list (ListWhole), names clash only between      *)
(* neighbours (ClashesAreNeighbours), the first topic stays                *)
(* (FirstTopicStays) and a leaked mutex is reported (LeakMeansError).      *)
(*                                                                         *)
(* The list is the least set of cells that a walk from the head cannot     *)
(* leave.  So to bound it one shows a set that cannot be left, and to find *)
(* a cell on it one shows that it is in all of them; nothing here is by    *)
(* induction over the list.  Successors have larger numbers and skip no    *)
(* cell of the list (Ordered), which is what cutting it anywhere keeps.    *)
(***************************************************************************)
EXTENDS DeuRegistry, FiniteSets, TLAPS, FiniteSetTheorems

\* Calls that have not returned.
Busy == {t \in Threads : pc[t] # "idle"}

\* The cells there are; the others are as malloc will find them.
Allocated == 0 .. cells

CellsInv ==
  /\ \A c \in Allocated : held[c] # NULL \/ (c = Topic_List /\ cells = 0)
  /\ \A c \in Cells \ Allocated : held[c] = NULL /\ next[c] = NULL
  /\ \A c \in Cells : next[c] # NULL => held[c] # NULL /\ next[c] > c /\ next[c] <= cells

\* The successor of a cell on the list is not beyond any later cell of it.
Ordered == \A c, d \in OnList : c < d => next[c] # NULL /\ next[c] <= d

Ends == \E c \in OnList : next[c] = NULL

\* A thread that has walked the list has compared all that is before the cell
\* it ended at, and nothing is put there afterwards.
Walked ==
  \A t \in Threads : pc[t] \in {"calloc", "link"} =>
    /\ cp[t] <= cells
    /\ \A c \in OnList : c < cp[t] => Name[held[c]] # Name[arg[t]]

\* Each cell was allocated by a call that has returned.
CellsCounted == IsFiniteSet(Busy) /\ cells + Cardinality(Busy) <= calls

ArgsInv == \A t \in Busy : arg[t] # NULL

ListInv == CellsInv /\ Ordered /\ Ends /\ Walked /\ ClashesAreNeighbours

RegistryInv == TypeOK /\ CellsCounted /\ ArgsInv /\ ListInv

------------------------------------------------------------------------------
(* The list                                                                 *)

LEMMA CellNumbers ==
  /\ MaxCalls \in Nat /\ Topic_List \in Cells /\ NULL \notin Cells
  /\ \A c \in Cells : c \in Nat /\ c <= MaxCalls
  /\ \A tpc \in Topics : tpc # NULL
  /\ \A t \in Threads : t # NULL
  BY Given DEF Topic_List, Cells

\* The list is inside every set that a walk cannot leave.
LEMMA ListInside ==
  ASSUME NEW S \in SUBSET Cells, Closed(S)
  PROVE  OnList \subseteq S
  BY DEF OnList

\* It is one of them.
LEMMA ListClosed ==
  ASSUME next \in [Cells -> Cells \cup {NULL}]
  PROVE  Closed(OnList) /\ OnList \subseteq Cells
<1>1. Topic_List \in OnList
  BY CellNumbers DEF OnList, Closed
<1>2. ASSUME NEW c \in OnList, next[c] # NULL PROVE next[c] \in OnList
  <2>1. c \in Cells /\ next[c] \in Cells
    BY <1>2 DEF OnList
  <2>2. ASSUME NEW S \in SUBSET Cells, Closed(S) PROVE next[c] \in S
    BY <1>2, <2>2 DEF OnList, Closed
  <2> QED
    BY <2>1, <2>2 DEF OnList
<1> QED
  BY <1>1, <1>2 DEF Closed, OnList

\* Nothing is on it that was not allocated.
LEMMA ListAllocated ==
  ASSUME TypeOK, CellsInv
  PROVE  OnList \subseteq Allocated
<1>1. Closed(Allocated) /\ Allocated \subseteq Cells
  <2>1. cells \in Nat /\ cells <= MaxCalls
    BY CellNumbers DEF TypeOK
  <2>2. Allocated \subseteq Cells /\ Topic_List \in Allocated
    BY <2>1, CellNumbers DEF Allocated, Cells, Topic_List
  <2>3. ASSUME NEW c \in Allocated, next[c] # NULL PROVE next[c] \in Allocated
    <3>1. next[c] \in Cells /\ next[c] <= cells
      BY <2>2, <2>3 DEF TypeOK, CellsInv
    <3> QED
      BY <3>1, <2>1 DEF Cells, Allocated
  <2> QED
    BY <2>2, <2>3 DEF Closed
<1> QED
  BY <1>1, ListInside

\* Cell p is given another successor: none, or the cell that comes next.
Relink(p, n) ==
  /\ n = NULL \/ (n = cells + 1 /\ n \in Cells)
  /\ next' \in [Cells -> Cells \cup {NULL}]
  /\ next'[p] = n
  /\ \A c \in Cells \ {p} : next'[c] = next[c]

\* The new list has cells of the old one, and the new cell.
LEMMA RelinkAdds ==
  ASSUME TypeOK, CellsInv, NEW p \in Allocated, NEW n, Relink(p, n)
  PROVE  OnList' \subseteq OnList \cup ({n} \ {NULL})
<1> DEFINE S == OnList \cup ({n} \ {NULL})
<1>1. Closed(OnList) /\ OnList \subseteq Cells
  BY ListClosed DEF TypeOK
<1>2. S \subseteq Cells
  BY <1>1 DEF Relink
<1>3. n # NULL => n \in Cells \ Allocated /\ n # p
  BY CellNumbers DEF TypeOK, Relink, Allocated
<1>4. \A c \in S : next'[c] # NULL => next'[c] \in S
  <2> SUFFICES ASSUME NEW c \in S, next'[c] # NULL PROVE next'[c] \in S
    OBVIOUS
  <2>1. CASE c = p
    BY <2>1 DEF Relink
  <2>2. CASE c # p
    <3>1. c \in Cells /\ next'[c] = next[c]
      BY <1>2, <2>2 DEF Relink
    <3>2. c \in OnList
      BY <3>1, <1>3 DEF CellsInv
    <3> QED
      BY <3>1, <3>2, <1>1 DEF Closed
  <2> QED
    BY <2>1, <2>2
<1>5. Topic_List \in S
  BY <1>1 DEF Closed
<1> HIDE DEF S
<1>6. \A c \in OnList' : c \in S
  BY <1>2, <1>4, <1>5 DEF OnList, Closed
<1> QED
  BY <1>6 DEF S

\* Away from the list nothing changes.
LEMMA RelinkOff ==
  ASSUME TypeOK, CellsInv, NEW p \in Allocated, NEW n, Relink(p, n), p \notin OnList
  PROVE  OnList' = OnList
<1>1. Closed(OnList) /\ OnList \subseteq Cells
  BY ListClosed DEF TypeOK
<1>2. \A c \in OnList : next'[c] = next[c]
  BY <1>1 DEF Relink
<1>3. OnList' \subseteq OnList
  <2>1. Closed(OnList)
    BY <1>1
  <2>2. Topic_List \in OnList /\ \A c \in OnList : next'[c] # NULL => next'[c] \in OnList
    BY <1>1, <1>2 DEF Closed
  <2> DEFINE S == OnList
  <2>3. /\ S \in SUBSET Cells /\ Topic_List \in S
        /\ \A c \in S : next'[c] # NULL => next'[c] \in S
    BY <1>1, <2>2
  <2> HIDE DEF S
  <2>4. \A c \in OnList' : c \in S
    BY <2>3 DEF OnList, Closed
  <2> QED
    BY <2>4 DEF S
<1>4. ASSUME NEW S \in SUBSET Cells, Topic_List \in S,
             \A c \in S : next'[c] # NULL => next'[c] \in S
      PROVE  OnList \subseteq S
  <2>1. Closed(OnList \cap S)
    BY <1>1, <1>2, <1>4 DEF Closed
  <2> QED
    BY <2>1, <1>1, ListInside
<1>5. OnList \subseteq OnList'
  BY <1>1, <1>4 DEF OnList, Closed
<1> QED
  BY <1>3, <1>5

\* On the list, it ends with p and what p is given.
LEMMA RelinkOn ==
  ASSUME TypeOK, CellsInv, Ordered, NEW p \in OnList, NEW n, Relink(p, n)
  PROVE  /\ OnList' \subseteq {c \in OnList : c <= p} \cup ({n} \ {NULL})
         /\ p \in OnList' /\ (n # NULL => n \in OnList')
<1>1. Closed(OnList) /\ OnList \subseteq Cells /\ OnList \subseteq Allocated
  BY ListClosed, ListAllocated DEF TypeOK
<1>2. n # NULL => n \in Cells \ Allocated /\ n # p
  BY <1>1, CellNumbers DEF TypeOK, Relink, Allocated
<1>3. OnList' \subseteq {c \in OnList : c <= p} \cup ({n} \ {NULL})
  <2> DEFINE S == {c \in OnList : c <= p} \cup ({n} \ {NULL})
  <2>1. S \in SUBSET Cells
    BY <1>1 DEF Relink
  <2>2. Topic_List \in S
    BY <1>1, CellNumbers DEF Closed, Topic_List
  <2>3. ASSUME NEW c \in S, next'[c] # NULL PROVE next'[c] \in S
    <3>1. CASE c = p
      BY <3>1, <2>3 DEF Relink
    <3>2. CASE c # p
      <4>1. next'[c] = next[c]
        BY <2>1, <3>2 DEF Relink
      <4>2. c \in OnList /\ c <= p
        BY <4>1, <1>2, <2>3 DEF CellsInv
      <4>3. c < p
        BY <4>2, <3>2, <1>1, CellNumbers
      <4>4. next[c] \in OnList /\ next[c] <= p
        BY <4>1, <4>2, <4>3, <2>3, <1>1 DEF Ordered, Closed
      <4> QED
        BY <4>1, <4>4
    <3> QED
      BY <3>1, <3>2
  <2> HIDE DEF S
  <2>4. \A c \in OnList' : c \in S
    BY <2>1, <2>2, <2>3 DEF OnList, Closed
  <2> QED
    BY <2>4 DEF S
<1>4. ASSUME NEW S \in SUBSET Cells, Topic_List \in S,
             \A c \in S : next'[c] # NULL => next'[c] \in S
      PROVE  p \in S /\ (n # NULL => n \in S)
  <2>1. p \in S
    <3> SUFFICES ASSUME p \notin S PROVE FALSE
      OBVIOUS
    <3>1. Closed(OnList \cap S)
      BY <1>1, <1>4 DEF Closed, Relink
    <3> QED
      BY <3>1, <1>1, ListInside
  <2> QED
    BY <2>1, <1>4 DEF Relink
<1>5. p \in OnList' /\ (n # NULL => n \in OnList')
  BY <1>1, <1>2, <1>4 DEF OnList, Closed
<1> QED
  BY <1>3, <1>5

\* So the list keeps its order and its end.
LEMMA RelinkKeeps ==
  ASSUME TypeOK, CellsInv, Ordered, Ends, NEW p \in Allocated, NEW n, Relink(p, n)
  PROVE  Ordered' /\ Ends'
<1>1. OnList \subseteq Cells /\ OnList \subseteq Allocated
  BY ListClosed, ListAllocated DEF TypeOK
<1>2. /\ cells \in Nat /\ p \in Nat /\ p <= cells
      /\ \A c \in OnList : c \in Nat /\ c <= cells
  BY <1>1, CellNumbers DEF TypeOK, Allocated
<1>3. n # NULL => n = cells + 1 /\ n \in Cells \ Allocated /\ n # p /\ next'[n] = NULL
  BY <1>1, <1>2, CellNumbers DEF TypeOK, Relink, Allocated, CellsInv
<1>4. CASE p \notin OnList
  <2>1. OnList' = OnList
    BY <1>4, RelinkOff
  <2>2. \A c \in OnList : next'[c] = next[c]
    BY <1>1, <1>4 DEF Relink
  <2> QED
    BY <2>1, <2>2 DEF Ordered, Ends
<1>5. CASE p \in OnList
  <2>1. /\ OnList' \subseteq {c \in OnList : c <= p} \cup ({n} \ {NULL})
        /\ p \in OnList' /\ (n # NULL => n \in OnList')
    BY <1>5, RelinkOn
  <2>2. Ends'
    <3>1. CASE n = NULL
      BY <2>1, <3>1 DEF Ends, Relink
    <3>2. CASE n # NULL
      BY <2>1, <1>3, <3>2 DEF Ends
    <3> QED
      BY <3>1, <3>2
  <2>3. ASSUME NEW c \in OnList', NEW d \in OnList', c < d
        PROVE  next'[c] # NULL /\ next'[c] <= d
    <3>1. c \in OnList /\ c <= p
      BY <2>1, <2>3, <1>2, <1>3
    <3>2. CASE c = p
      <4>1. d = n /\ n # NULL
        BY <2>1, <2>3, <3>2, <1>2
      <4> QED
        BY <3>2, <4>1, <1>2, <1>3 DEF Relink
    <3>3. CASE c # p
      <4>1. c < p /\ next'[c] = next[c] /\ next[c] # NULL /\ next[c] <= p
        BY <3>1, <3>3, <1>1, <1>2, <1>5 DEF Relink, Ordered
      <4>2. CASE d = n /\ n # NULL
        <5>1. next[c] \in Nat
          BY <4>1, <3>1, <1>1, CellNumbers DEF TypeOK
        <5> QED
          BY <4>1, <4>2, <5>1, <1>2, <1>3
      <4>3. CASE d \in OnList
        BY <4>1, <4>3, <3>1, <2>3 DEF Ordered
      <4> QED
        BY <4>2, <4>3, <2>1
    <3> QED
      BY <3>2, <3>3
  <2> QED
    BY <2>2, <2>3 DEF Ordered
<1> QED
  BY <1>4, <1>5

------------------------------------------------------------------------------
(* The steps of a call                                                      *)

\* Every step of a call leaves the number of cells and the calls under way
\* within the calls that were made.
LEMMA BusyChanges ==
  ASSUME TypeOK, IsFiniteSet(Busy), NEW t \in Threads, NEW to,
         pc' = [pc EXCEPT ![t] = to]
  PROVE  /\ IsFiniteSet(Busy') /\ Cardinality(Busy) \in Nat
         /\ pc[t] = "idle" /\ to # "idle" => Cardinality(Busy') = Cardinality(Busy) + 1
         /\ pc[t] # "idle" /\ to = "idle" => Cardinality(Busy') = Cardinality(Busy) - 1
         /\ pc[t] # "idle" /\ to # "idle" => Cardinality(Busy') = Cardinality(Busy)
         /\ Busy' \subseteq Busy \cup {t} /\ (to = "idle" => t \notin Busy')
<1>1. /\ to = "idle" => Busy' = Busy \ {t}
      /\ to # "idle" => Busy' = Busy \cup {t}
      /\ t \in Busy <=> pc[t] # "idle"
  BY DEF TypeOK, Busy
<1>2. /\ IsFiniteSet(Busy \cup {t}) /\ IsFiniteSet(Busy \ {t})
      /\ t \notin Busy => Cardinality(Busy \cup {t}) = Cardinality(Busy) + 1
      /\ t \in Busy => Cardinality(Busy \ {t}) = Cardinality(Busy) - 1
      /\ t \in Busy => Cardinality(Busy \cup {t}) = Cardinality(Busy)
  BY FS_AddElement, FS_RemoveElement
<1>3. Cardinality(Busy) \in Nat
  BY FS_CardinalityType
<1> QED
  BY <1>1, <1>2, <1>3

\* What a step of a call is to the list: cell p, where the walk had ended, is
\* filled, or given a successor; or the list is left alone.
Fill(t) ==
  /\ held[cp[t]] = NULL
  /\ held' = [held EXCEPT ![cp[t]] = arg[t]]
  /\ next' = [next EXCEPT ![cp[t]] = NULL]
  /\ UNCHANGED cells

Extend(t) ==
  /\ held[cp[t]] # NULL
  /\ cells' = cells + 1
  /\ next' = [next EXCEPT ![cp[t]] = cells', ![cells'] = NULL]
  /\ held' = [held EXCEPT ![cells'] = arg[t]]

Cut(t) ==
  /\ held[cp[t]] # NULL
  /\ next' = [next EXCEPT ![cp[t]] = NULL]
  /\ UNCHANGED <<held, cells>>

\* The lists of two states are the same when the cells are.
LEMMA SameCells ==
  ASSUME UNCHANGED <<next>>
  PROVE  OnList' = OnList
  BY DEF OnList, Closed

\* Filling the first cell: there is no other.
LEMMA FillKeeps ==
  ASSUME TypeOK, CellsInv, Ordered, Ends, ClashesAreNeighbours, NEW t \in Threads,
         cp[t] <= cells, arg[t] \in Topics, Fill(t)
  PROVE  /\ CellsInv' /\ Ordered' /\ Ends' /\ ClashesAreNeighbours'
         /\ OnList' = OnList /\ OnList \subseteq {Topic_List}
<1>1. cells \in Nat /\ cp[t] \in Allocated /\ cp[t] \in Cells
  BY CellNumbers DEF TypeOK, Allocated
<1>2. cp[t] = Topic_List /\ cells = 0
  BY <1>1 DEF Fill, CellsInv
<1>3. next' = next
  <2>1. next[cp[t]] = NULL
    BY <1>1 DEF Fill, CellsInv
  <2> QED
    BY <2>1, <1>1 DEF Fill, TypeOK
<1>4. OnList' = OnList
  BY <1>3, SameCells
<1>5. OnList \subseteq {Topic_List}
  BY <1>2, ListAllocated, CellNumbers DEF Allocated, Topic_List
<1>6. Ordered' /\ Ends'
  BY <1>3, <1>4 DEF Ordered, Ends
<1>7. ClashesAreNeighbours'
  BY <1>4, <1>5 DEF ClashesAreNeighbours, Topic_List
<1>8. CellsInv'
  <2>1. /\ held'[Topic_List] # NULL
        /\ \A c \in Cells \ {Topic_List} : held'[c] = held[c]
    BY <1>1, <1>2, CellNumbers DEF Fill, TypeOK
  <2>2. cells' = cells /\ Allocated' = Allocated /\ Allocated = {Topic_List}
    BY <1>2 DEF Fill, Allocated, Topic_List
  <2> QED
    BY <2>1, <2>2, <1>3 DEF CellsInv
<1> QED
  BY <1>4, <1>5, <1>6, <1>7, <1>8

\* Linking a new cell, wherever cp is by now.
LEMMA ExtendKeeps ==
  ASSUME TypeOK, ListInv, NEW t \in Threads, pc[t] = "link", arg[t] \in Topics,
         cells < MaxCalls, Extend(t)
  PROVE  /\ CellsInv' /\ Ordered' /\ Ends' /\ ClashesAreNeighbours'
         /\ OnList' \subseteq OnList \cup {cells + 1}
         /\ \A c \in OnList : held'[c] = held[c]
<1> DEFINE p == cp[t]
           n == cells + 1
<1>1. /\ cells \in Nat /\ n \in Cells \ Allocated /\ n # NULL
      /\ p \in Allocated /\ p \in Cells /\ p <= cells /\ p # n
  BY CellNumbers DEF TypeOK, ListInv, Walked, Allocated, Cells
<1>2. /\ next' = [next EXCEPT ![p] = n, ![n] = NULL]
      /\ held' = [held EXCEPT ![n] = arg[t]]
      /\ cells' = n /\ held[p] # NULL
  BY DEF Extend
<1>3. next[n] = NULL
  BY <1>1 DEF ListInv, CellsInv
<1> HIDE DEF p, n
<1>4. Relink(p, n)
  BY <1>1, <1>2, <1>3 DEF Relink, TypeOK, n
<1>5. /\ held'[n] = arg[t] /\ arg[t] # NULL
      /\ \A c \in Cells \ {n} : held'[c] = held[c]
  BY <1>1, <1>2, CellNumbers DEF TypeOK
<1>6. Ordered' /\ Ends'
  BY <1>1, <1>4, RelinkKeeps DEF ListInv
<1>7. OnList \subseteq Cells /\ OnList \subseteq Allocated
  BY ListClosed, ListAllocated DEF TypeOK, ListInv
<1>8. OnList' \subseteq OnList \cup {n}
  BY <1>1, <1>4, RelinkAdds DEF ListInv
<1>9. \A c \in OnList : held'[c] = held[c]
  BY <1>1, <1>5, <1>7
<1>10. CellsInv'
  <2>1. /\ Allocated' = Allocated \cup {n}
        /\ n > 0
    BY <1>1, <1>2 DEF Allocated, n
  <2>2. \A c \in Allocated' : held'[c] # NULL
    <3>1. \A c \in Allocated : c \in Cells /\ c # n
      BY <1>1, CellNumbers DEF Allocated, n, TypeOK, Cells
    <3>2. \A c \in Allocated : held[c] # NULL
      <4>1. CASE cells = 0
        <5>1. \A c \in Allocated : c = p
          BY <4>1, <1>1 DEF Allocated
        <5> QED
          BY <5>1, <1>2
      <4>2. CASE cells # 0
        BY <4>2 DEF ListInv, CellsInv
      <4> QED
        BY <4>1, <4>2
    <3> QED
      BY <2>1, <3>1, <3>2, <1>5
  <2>3. \A c \in Cells \ Allocated' : held'[c] = NULL /\ next'[c] = NULL
    BY <2>1, <1>1, <1>4, <1>5 DEF Relink, ListInv, CellsInv
  <2>4. ASSUME NEW c \in Cells, next'[c] # NULL
        PROVE  held'[c] # NULL /\ next'[c] > c /\ next'[c] <= cells'
    <3>1. CASE c = p
      <4>1. held'[c] = held[c] /\ held[c] # NULL /\ next'[c] = n /\ cells' = n
        BY <3>1, <1>1, <1>2, <1>4, <1>5 DEF Relink
      <4>2. c \in Nat /\ n \in Nat /\ c < n
        BY <3>1, <1>1, CellNumbers DEF n
      <4> QED
        BY <4>1, <4>2
    <3>2. CASE c # p
      <4>1. next'[c] = next[c] /\ c # n
        BY <3>2, <2>4, <1>3, <1>4 DEF Relink
      <4>2. held'[c] # NULL /\ next[c] > c /\ next[c] <= cells /\ next[c] \in Nat
        BY <4>1, <2>4, <1>5, CellNumbers DEF ListInv, CellsInv, TypeOK
      <4> QED
        BY <4>1, <4>2, <1>1, <1>2 DEF n
    <3> QED
      BY <3>1, <3>2
  <2> QED
    BY <2>2, <2>3, <2>4 DEF CellsInv
<1>11. ClashesAreNeighbours'
  <2> SUFFICES ASSUME NEW c \in OnList', NEW d \in OnList', c < d,
                      held'[c] # NULL, Name[held'[c]] = Name[held'[d]]
               PROVE  next'[c] = d
    BY DEF ClashesAreNeighbours
  <2>1. /\ \A k \in OnList : k \in Nat /\ k <= cells /\ k # n
        /\ p \in Nat /\ n \in Nat /\ p < n
    BY <1>1, <1>7, CellNumbers DEF Allocated, n
  <2>2. c \in OnList /\ held'[c] = held[c]
    <3>1. SUFFICES ASSUME c = n PROVE FALSE
      BY <1>8, <1>9
    <3>2. n < d /\ (d \in OnList \/ d = n) /\ cells \in Nat
      BY <3>1, <1>1, <1>8 DEF n
    <3> QED
      BY <3>2, <2>1 DEF n
  <2>3. p \in OnList => OnList' \subseteq {k \in OnList : k <= p} \cup {n}
    BY <1>1, <1>4, RelinkOn DEF ListInv
  <2>4. p \notin OnList => OnList' = OnList
    BY <1>1, <1>4, RelinkOff DEF ListInv
  <2>5. CASE d = n
    <3>1. p \in OnList /\ c <= p
      BY <2>5, <2>1, <2>2, <2>3, <2>4
    <3>2. ~(c < p)
      BY <2>2, <2>5, <1>5 DEF ListInv, Walked, p
    <3>3. c = p
      BY <3>1, <3>2, <2>1, <2>2
    <3> QED
      BY <3>3, <2>5, <1>4 DEF Relink
  <2>6. CASE d # n
    <3>1. d \in OnList /\ held'[d] = held[d]
      BY <2>6, <1>8, <1>9
    <3>2. next[c] = d
      BY <2>2, <3>1 DEF ListInv, ClashesAreNeighbours
    <3>3. c # p
      BY <2>1, <2>3, <2>6, <3>1, <2>2
    <3> QED
      BY <3>2, <3>3, <2>2, <1>4, <1>7 DEF Relink
  <2> QED
    BY <2>5, <2>6
<1> QED
  BY <1>6, <1>8, <1>9, <1>10, <1>11 DEF n

\* No memory for a cell: what came after cp is cut off.
LEMMA CutKeeps ==
  ASSUME TypeOK, ListInv, NEW t \in Threads, pc[t] = "link", Cut(t)
  PROVE  /\ CellsInv' /\ Ordered' /\ Ends' /\ ClashesAreNeighbours'
         /\ OnList' \subseteq OnList
<1> DEFINE p == cp[t]
<1>1. cells \in Nat /\ p \in Allocated /\ p \in Cells
  BY CellNumbers DEF TypeOK, ListInv, Walked, Allocated, Cells
<1>2. Relink(p, NULL)
  BY <1>1 DEF Cut, Relink, TypeOK
<1>3. UNCHANGED <<held, cells>> /\ Allocated' = Allocated
  BY DEF Cut, Allocated
<1> HIDE DEF p
<1>4. Ordered' /\ Ends'
  BY <1>1, <1>2, RelinkKeeps DEF ListInv
<1>5. OnList' \subseteq OnList
  BY <1>1, <1>2, RelinkAdds DEF ListInv
<1>6. CellsInv'
  BY <1>2, <1>3 DEF Relink, ListInv, CellsInv
<1>7. OnList \subseteq Cells /\ \A k \in OnList : k \in Nat
  BY ListClosed, CellNumbers DEF TypeOK
<1>8. ClashesAreNeighbours'
  <2> SUFFICES ASSUME NEW c \in OnList', NEW d \in OnList', c < d,
                      held'[c] # NULL, Name[held'[c]] = Name[held'[d]]
               PROVE  next'[c] = d
    BY DEF ClashesAreNeighbours
  <2>1. c \in OnList /\ d \in OnList /\ next[c] = d
    BY <1>3, <1>5 DEF ListInv, ClashesAreNeighbours
  <2>2. p \in OnList => OnList' \subseteq {k \in OnList : k <= p}
    BY <1>1, <1>2, RelinkOn DEF ListInv
  <2>3. c # p
    BY <2>1, <2>2, <1>7
  <2> QED
    BY <2>1, <2>3, <1>2, <1>7 DEF Relink
<1> QED
  BY <1>4, <1>5, <1>6, <1>8

------------------------------------------------------------------------------
(* The invariant                                                            *)

LEMMA Initially == Init => RegistryInv
<1> SUFFICES ASSUME Init PROVE RegistryInv
  OBVIOUS
<1> USE DEF Init
<1>1. TypeOK
  BY CellNumbers DEF TypeOK, Cells
<1>2. CellsCounted /\ ArgsInv
  <2>1. Busy = {}
    BY DEF Busy
  <2> QED
    BY <2>1, FS_EmptySet DEF CellsCounted, ArgsInv
<1>3. CellsInv
  BY CellNumbers DEF CellsInv, Allocated, Topic_List
<1>4. OnList \subseteq {Topic_List} /\ Topic_List \in OnList
  <2>1. OnList \subseteq Allocated /\ Closed(OnList)
    BY <1>1, <1>3, ListAllocated, ListClosed DEF TypeOK
  <2> QED
    BY <2>1 DEF Allocated, Closed, Topic_List
<1>5. Ordered /\ Ends /\ Walked /\ ClashesAreNeighbours
  BY <1>4, CellNumbers DEF Ordered, Ends, Walked, ClashesAreNeighbours, Topic_List
<1> QED
  BY <1>1, <1>2, <1>3, <1>5 DEF RegistryInv, ListInv

\* Steps that leave the list alone: only a walk that ends has to be looked at.
LEMMA QuietKeeps ==
  ASSUME TypeOK, ListInv, NEW t \in Threads, UNCHANGED listVars,
         NEW to, pc' = [pc EXCEPT ![t] = to],
         \A u \in Threads \ {t} : cp'[u] = cp[u] /\ arg'[u] = arg[u],
         to \in {"calloc", "link"} =>
           /\ cp'[t] <= cells
           /\ \A c \in OnList : c < cp'[t] => Name[held[c]] # Name[arg'[t]]
  PROVE  ListInv'
<1>1. OnList' = OnList /\ Allocated' = Allocated
  BY SameCells DEF listVars, Allocated
<1>2. CellsInv' /\ Ordered' /\ Ends' /\ ClashesAreNeighbours'
  BY <1>1 DEF listVars, ListInv, CellsInv, Ordered, Ends, ClashesAreNeighbours
<1>3. Walked'
  BY <1>1 DEF listVars, ListInv, Walked, TypeOK
<1> QED
  BY <1>2, <1>3 DEF ListInv

\* A step of a call keeps the types and the counts.
LEMMA CallKeeps ==
  ASSUME RegistryInv, NEW t \in Threads, Advertise(t)
  PROVE  TypeOK' /\ CellsCounted' /\ ArgsInv'
<1>1. /\ TypeOK /\ IsFiniteSet(Busy) /\ cells + Cardinality(Busy) <= calls
      /\ pc[t] # "idle" => arg[t] \in Topics
      /\ cells \in Nat /\ calls \in Nat /\ MaxCalls \in Nat /\ calls <= MaxCalls
  BY CellNumbers DEF RegistryInv, CellsCounted, ArgsInv, TypeOK, Busy
<1> DEFINE Counted(to) ==
      /\ pc' = [pc EXCEPT ![t] = to]
      /\ IsFiniteSet(Busy') /\ cells' + Cardinality(Busy') <= calls'
      /\ Busy' \subseteq Busy \cup {t} /\ (to = "idle" => t \notin Busy')
<1>2. CASE AdvLock(t)
  <2>1. /\ pc[t] = "idle" /\ calls < MaxCalls /\ calls' = calls + 1 /\ cells' = cells
        /\ pc' = [pc EXCEPT ![t] = "walk"]
    BY <1>2 DEF AdvLock, listVars
  <2>2. /\ IsFiniteSet(Busy') /\ Cardinality(Busy') = Cardinality(Busy) + 1
        /\ Cardinality(Busy) \in Nat /\ Busy' \subseteq Busy \cup {t}
    <3>1. "walk" # "idle" /\ IsFiniteSet(Busy) /\ TypeOK
      BY <1>1
    <3> QED
      BY ONLY <3>1, <2>1, BusyChanges, t \in Threads
  <2>3. CellsCounted' /\ calls' \in 0 .. MaxCalls
    BY <1>1, <2>1, <2>2 DEF CellsCounted
  <2>4. PICK tpc \in Topics : arg' = [arg EXCEPT ![t] = tpc]
    BY <1>2 DEF AdvLock
  <2>5. ArgsInv'
    BY <2>2, <2>4, CellNumbers DEF ArgsInv, RegistryInv, TypeOK, Busy
  <2>6. TypeOK'
    BY <1>2, <2>3, <2>4 DEF AdvLock, listVars, RegistryInv, TypeOK
  <2> QED
    BY <2>3, <2>5, <2>6
<1>3. ASSUME NEW to \in {"idle", "calloc", "link"}, pc[t] # "idle",
             pc' = [pc EXCEPT ![t] = to], UNCHANGED <<calls, arg>>,
             cells' = cells \/ (to = "idle" /\ cells' = cells + 1)
      PROVE  CellsCounted' /\ ArgsInv' /\ cells' \in Cells
  <2>1. /\ IsFiniteSet(Busy') /\ Cardinality(Busy) \in Nat /\ Cardinality(Busy') \in Nat
        /\ to = "idle" => Cardinality(Busy') = Cardinality(Busy) - 1
        /\ to # "idle" => Cardinality(Busy') = Cardinality(Busy)
        /\ Busy' \subseteq Busy \cup {t}
    BY <1>1, <1>3, BusyChanges, FS_CardinalityType
  <2>2. cells' + Cardinality(Busy') <= calls'
    BY <1>1, <1>3, <2>1
  <2>3. ArgsInv'
    BY <1>1, <1>3, <2>1, CellNumbers DEF ArgsInv, RegistryInv
  <2>4. cells' \in Nat /\ cells' <= MaxCalls
    BY <1>1, <1>3, <2>1, <2>2
  <2> QED
    BY <2>1, <2>2, <2>3, <2>4 DEF CellsCounted, Cells
<1>4. CASE AdvClash(t)
  BY <1>4, <1>3 DEF AdvClash, RegistryInv, TypeOK, listVars
<1>5. CASE AdvFindEnd(t)
  <2>1. LastOnList \in Cells
    BY ListClosed DEF RegistryInv, ListInv, Ends, TypeOK, LastOnList
  <2>2. CellsCounted' /\ ArgsInv'
    BY <1>5, <1>3 DEF AdvFindEnd, listVars
  <2>3. TypeOK'
    BY <1>5, <2>1 DEF AdvFindEnd, RegistryInv, TypeOK, listVars
  <2> QED
    BY <2>2, <2>3
<1>6. CASE AdvAllocate(t)
  <2>1. CellsCounted' /\ ArgsInv'
    BY <1>6, <1>3 DEF AdvAllocate, listVars
  <2>2. TypeOK'
    BY <1>6 DEF AdvAllocate, RegistryInv, TypeOK, listVars
  <2> QED
    BY <2>1, <2>2
<1>7. CASE AdvNoData(t)
  <2>1. CellsCounted' /\ ArgsInv'
    BY <1>7, <1>3 DEF AdvNoData, listVars
  <2>2. TypeOK'
    BY <1>7 DEF AdvNoData, RegistryInv, TypeOK, listVars
  <2> QED
    BY <2>1, <2>2
<1>8. CASE AdvFill(t)
  <2>1. CellsCounted' /\ ArgsInv' /\ cells' \in Cells
    BY <1>8, <1>3 DEF AdvFill
  <2>2. TypeOK'
    BY <1>8, <1>1 DEF AdvFill, RegistryInv, TypeOK
  <2> QED
    BY <2>1, <2>2
<1>9. CASE AdvAppend(t)
  <2>1. CellsCounted' /\ ArgsInv' /\ cells' \in Cells
    BY <1>9, <1>3 DEF AdvAppend
  <2>2. held' \in [Cells -> Topics \cup {NULL}] /\ next' \in [Cells -> Cells \cup {NULL}]
    BY <1>9, <1>1, <2>1 DEF AdvAppend, TypeOK
  <2>3. TypeOK'
    BY <1>9, <2>1, <2>2 DEF AdvAppend, RegistryInv, TypeOK
  <2> QED
    BY <2>1, <2>3
<1>10. CASE AdvNoCell(t)
  <2>1. CellsCounted' /\ ArgsInv' /\ cells' \in Cells
    BY <1>10, <1>3 DEF AdvNoCell
  <2>2. TypeOK'
    BY <1>10, <1>1 DEF AdvNoCell, RegistryInv, TypeOK
  <2> QED
    BY <2>1, <2>2
<1> QED
  BY <1>2, <1>4, <1>5, <1>6, <1>7, <1>8, <1>9, <1>10 DEF Advertise

\* It keeps the list.
LEMMA CallKeepsList ==
  ASSUME RegistryInv, NEW t \in Threads, Advertise(t)
  PROVE  ListInv'
<1>1. TypeOK /\ ListInv
  BY DEF RegistryInv
<1>2. CASE AdvLock(t)
  <2>1. \A u \in Threads \ {t} : cp'[u] = cp[u] /\ arg'[u] = arg[u]
    BY <1>2 DEF AdvLock, RegistryInv, TypeOK
  <2> QED
    BY <1>1, <1>2, <2>1, QuietKeeps DEF AdvLock
<1>3. CASE AdvClash(t) \/ AdvNoData(t)
  BY <1>1, <1>3, QuietKeeps DEF AdvClash, AdvNoData
<1>4. CASE AdvAllocate(t)
  BY <1>1, <1>4, QuietKeeps DEF AdvAllocate, ListInv, Walked
<1>5. CASE AdvFindEnd(t)
  <2> DEFINE last == LastOnList
  <2>1. last \in OnList /\ next[last] = NULL
    BY <1>1 DEF ListInv, Ends, LastOnList
  <2>2. last <= cells
    BY <1>1, <2>1, ListAllocated, CellNumbers DEF ListInv, Allocated
  <2>3. \A c \in OnList : c < last => next[c] # NULL
    BY <1>1, <2>1 DEF ListInv, Ordered
  <2>4. \A c \in OnList : c < last => Name[held[c]] # Name[arg[t]]
    BY <1>5, <2>3 DEF AdvFindEnd, Clashes
  <2>5. cp'[t] = last /\ arg' = arg /\ \A u \in Threads \ {t} : cp'[u] = cp[u]
    BY <1>5 DEF AdvFindEnd, RegistryInv, TypeOK
  <2> HIDE DEF last
  <2> QED
    BY <1>1, <1>5, <2>2, <2>4, <2>5, QuietKeeps DEF AdvFindEnd
<1>6. ASSUME pc[t] = "link", pc' = [pc EXCEPT ![t] = "idle"], UNCHANGED <<cp, arg>>,
             CellsInv', Ordered', Ends', ClashesAreNeighbours', cells' \in {cells, cells + 1},
             OnList' \subseteq OnList \cup {cells + 1},
             \A u \in Threads : pc[u] \in {"calloc", "link"} =>
               \A c \in OnList : c < cp[u] => held'[c] = held[c]
      PROVE  ListInv'
  <2>1. cells \in Nat
    BY <1>1, CellNumbers DEF TypeOK
  <2>2. ASSUME NEW u \in Threads, pc'[u] \in {"calloc", "link"}
        PROVE  /\ cp'[u] <= cells'
               /\ \A c \in OnList' : c < cp'[u] => Name[held'[c]] # Name[arg'[u]]
    <3>1. pc[u] = pc'[u] /\ cp'[u] = cp[u] /\ arg'[u] = arg[u] /\ cp[u] \in Nat
      BY <1>1, <1>6, <2>2, CellNumbers DEF TypeOK
    <3>2. cp[u] <= cells /\ \A c \in OnList : c < cp[u] => Name[held[c]] # Name[arg[u]]
      BY <1>1, <2>2, <3>1 DEF ListInv, Walked
    <3>3. \A c \in OnList' : c < cp[u] => c \in OnList
      BY <1>6, <2>1, <3>1, <3>2
    <3>4. cp[u] <= cells'
      BY <1>6, <2>1, <3>1, <3>2
    <3>5. \A c \in OnList : c < cp[u] => held'[c] = held[c]
      BY <1>6, <2>2, <3>1
    <3> QED
      BY <3>1, <3>2, <3>3, <3>4, <3>5
  <2> QED
    BY <1>6, <2>2 DEF ListInv, Walked
<1>7. pc[t] = "link" => cp[t] <= cells /\ arg[t] \in Topics
  BY DEF RegistryInv, TypeOK, ListInv, Walked, ArgsInv, Busy
<1>8. CASE AdvFill(t)
  <2>1. /\ pc[t] = "link" /\ pc' = [pc EXCEPT ![t] = "idle"] /\ UNCHANGED <<cp, arg, cells>>
        /\ Fill(t)
    BY <1>8 DEF AdvFill, Fill
  <2>2. /\ CellsInv' /\ Ordered' /\ Ends' /\ ClashesAreNeighbours'
        /\ OnList' = OnList /\ OnList \subseteq {Topic_List}
    BY <1>1, <1>7, <2>1, FillKeeps DEF ListInv
  <2>3. cells = 0
    <3>1. held[cp[t]] = NULL /\ cp[t] \in Allocated
      BY <1>1, <1>7, <2>1, CellNumbers DEF Fill, Allocated, TypeOK
    <3> QED
      BY <1>1, <3>1 DEF ListInv, CellsInv
  <2>4. ASSUME NEW u \in Threads, pc[u] \in {"calloc", "link"}, NEW c \in OnList, c < cp[u]
        PROVE  FALSE
    <3>1. cp[u] <= 0 /\ c = 0
      BY <1>1, <2>2, <2>3, <2>4 DEF ListInv, Walked, Topic_List
    <3>2. cp[u] \in Nat
      BY <1>1, CellNumbers DEF TypeOK
    <3> QED
      BY ONLY <3>1, <3>2, <2>4
  <2> QED
    BY <1>6, <2>1, <2>2, <2>4
<1>9. CASE AdvAppend(t)
  <2>1. /\ pc[t] = "link" /\ pc' = [pc EXCEPT ![t] = "idle"] /\ UNCHANGED <<cp, arg>>
        /\ Extend(t)
    BY <1>9 DEF AdvAppend, Extend
  <2>2. cells < MaxCalls
    <3>1. t \in Busy /\ IsFiniteSet(Busy) /\ cells + Cardinality(Busy) <= calls
      BY <2>1 DEF RegistryInv, CellsCounted, Busy
    <3>2. Cardinality(Busy) \in Nat /\ Cardinality(Busy) # 0
      BY <3>1, FS_CardinalityType, FS_EmptySet
    <3> QED
      BY <1>1, <3>1, <3>2, CellNumbers DEF TypeOK
  <2>3. /\ CellsInv' /\ Ordered' /\ Ends' /\ ClashesAreNeighbours'
        /\ OnList' \subseteq OnList \cup {cells + 1}
        /\ \A c \in OnList : held'[c] = held[c]
    BY <1>1, <1>7, <2>1, <2>2, ExtendKeeps
  <2> QED
    BY <1>6, <2>1, <2>3 DEF Extend
<1>10. CASE AdvNoCell(t)
  <2>1. /\ pc[t] = "link" /\ pc' = [pc EXCEPT ![t] = "idle"] /\ UNCHANGED <<cp, arg>>
        /\ Cut(t)
    BY <1>10 DEF AdvNoCell, Cut
  <2>2. /\ CellsInv' /\ Ordered' /\ Ends' /\ ClashesAreNeighbours'
        /\ OnList' \subseteq OnList
    BY <1>1, <2>1, CutKeeps
  <2> QED
    BY <1>6, <2>1, <2>2 DEF Cut
<1> QED
  BY <1>2, <1>3, <1>4, <1>5, <1>8, <1>9, <1>10 DEF Advertise

LEMMA Stuttering ==
  ASSUME RegistryInv, UNCHANGED vars
  PROVE  RegistryInv'
<1>1. UNCHANGED <<mutex, held, next, cells, data, calls, pc, arg, cp, result>>
  BY DEF vars, listVars
<1>2. OnList' = OnList /\ Allocated' = Allocated /\ Busy' = Busy
  BY <1>1, SameCells DEF Allocated, Busy
<1> QED
  BY <1>1, <1>2 DEF RegistryInv, TypeOK, CellsCounted, ArgsInv, ListInv, CellsInv, Ordered,
                    Ends, Walked, ClashesAreNeighbours

LEMMA Invariant == Spec => []RegistryInv
<1>1. RegistryInv /\ [Next]_vars => RegistryInv'
  BY CallKeeps, CallKeepsList, Stuttering DEF Next, RegistryInv
<1> QED
  BY Initially, <1>1, PTL DEF Spec

------------------------------------------------------------------------------
(* What it says                                                             *)

\* The type of every variable.
THEOREM TypeCorrect == Spec => []TypeOK
<1>1. RegistryInv => TypeOK
  BY DEF RegistryInv
<1> QED
  BY <1>1, Invariant, PTL

\* However the threads overtake one another between the two critical
\* sections, the list stays a list: it ends, every cell on it was allocated,
\* and once a topic was registered every cell on it holds one.
THEOREM ListStaysWhole == Spec => []ListWhole
<1>1. RegistryInv => ListWhole
  <2> SUFFICES ASSUME RegistryInv PROVE ListWhole
    OBVIOUS
  <2>1. OnList \subseteq Allocated
    BY ListAllocated DEF RegistryInv, ListInv
  <2>2. \A c \in Allocated : c <= cells /\ (c = Topic_List \/ held[c] # NULL)
    <3>1. cells \in Nat
      BY CellNumbers DEF RegistryInv, TypeOK
    <3> QED
      BY <3>1 DEF RegistryInv, ListInv, CellsInv, Allocated
  <2> QED
    BY <2>1, <2>2 DEF RegistryInv, ListInv, Ends, ListWhole
<1> QED
  BY <1>1, Invariant, PTL

\* Names clash only between neighbours: the loop misses the cell the walk ends
\* at and no other, also when other threads append meanwhile.
THEOREM ClashesOnlyBetweenNeighbours == Spec => []ClashesAreNeighbours
<1>1. RegistryInv => ClashesAreNeighbours
  BY DEF RegistryInv, ListInv
<1> QED
  BY <1>1, Invariant, PTL

\* The first topic stays, whatever threads link after it.
THEOREM FirstTopicIsKept == Spec => FirstTopicStays
<1>1. ASSUME RegistryInv, Next, held[Topic_List] # NULL
      PROVE  held'[Topic_List] = held[Topic_List]
  <2>1. PICK t \in Threads : Advertise(t)
    BY <1>1 DEF Next
  <2>2. CASE AdvFill(t)
    BY <1>1, <2>2 DEF AdvFill, RegistryInv, TypeOK
  <2>3. CASE AdvAppend(t)
    <3>1. cells' # Topic_List
      BY <1>1, <2>3, CellNumbers DEF AdvAppend, RegistryInv, TypeOK, Topic_List
    <3> QED
      BY <1>1, <2>3, <3>1, CellNumbers DEF AdvAppend, RegistryInv, TypeOK
  <2>4. CASE ~AdvFill(t) /\ ~AdvAppend(t)
    BY <2>1, <2>4 DEF Advertise, AdvLock, AdvClash, AdvFindEnd, AdvAllocate, AdvNoData,
                      AdvNoCell, listVars
  <2> QED
    BY <2>2, <2>3, <2>4
<1>2. RegistryInv /\ [Next]_vars
        => [held[Topic_List] # NULL => held'[Topic_List] = held[Topic_List]]_held
  BY <1>1 DEF vars, listVars
<1> QED
  BY <1>2, Invariant, PTL DEF Spec, FirstTopicStays

\* A call that came back with the mutex still taken returned -1.
THEOREM LeaksAreErrors == Spec => []LeakMeansError
<1>1. Init => LeakMeansError
  BY CellNumbers DEF Init, LeakMeansError
<1>2. ASSUME RegistryInv, LeakMeansError, NEW t \in Threads, Advertise(t)
      PROVE  LeakMeansError'
  <2> SUFFICES ASSUME NEW u \in Threads, mutex' = u, pc'[u] = "idle"
               PROVE  result'[u] = -1
    BY DEF LeakMeansError
  <2>1. u # NULL
    BY CellNumbers
  <2> USE <1>2 DEF RegistryInv, TypeOK, LeakMeansError
  <2>2. CASE AdvLock(t)
    BY <2>2 DEF AdvLock
  <2>3. CASE AdvClash(t)
    BY <2>3 DEF AdvClash
  <2>4. CASE AdvFindEnd(t)
    BY <2>1, <2>4 DEF AdvFindEnd
  <2>5. CASE AdvAllocate(t)
    BY <2>5 DEF AdvAllocate
  <2>6. CASE AdvNoData(t)
    BY <2>6 DEF AdvNoData
  <2>7. CASE AdvFill(t) \/ AdvAppend(t)
    BY <2>1, <2>7 DEF AdvFill, AdvAppend
  <2>8. CASE AdvNoCell(t)
    BY <2>8 DEF AdvNoCell
  <2> QED
    BY <2>2, <2>3, <2>4, <2>5, <2>6, <2>7, <2>8 DEF Advertise
<1>3. RegistryInv /\ LeakMeansError /\ [Next]_vars => LeakMeansError'
  BY <1>2 DEF Next, vars, LeakMeansError
<1> QED
  BY <1>1, <1>3, Invariant, PTL DEF Spec
------------------------------------------------------------------------------
(* When a topic can be lost                                                 *)

\* A cell without successor is given one: no cell leaves the list.
LEMMA RelinkEnd ==
  ASSUME TypeOK, NEW p \in Cells, NEW n, Relink(p, n), next[p] = NULL
  PROVE  OnList \subseteq OnList'
<1>1. ASSUME NEW S \in SUBSET Cells, Topic_List \in S,
             \A c \in S : next'[c] # NULL => next'[c] \in S
      PROVE  OnList \subseteq S
  <2>1. Closed(S)
    BY <1>1 DEF Closed, Relink
  <2> QED
    BY <2>1, ListInside
<1>2. OnList \subseteq Cells
  BY DEF OnList
<1> QED
  BY <1>1, <1>2 DEF OnList, Closed

\* No thread is about to link after a cell that has a successor by now: none
\* was overtaken between its walk and its append.
NoneOvertaken == \A t \in Threads : pc[t] = "link" => next[cp[t]] = NULL

\* Then no topic is lost in the next step.
LEMMA StepKeepsTopics ==
  ASSUME RegistryInv, NoneOvertaken, NEW t \in Threads, Advertise(t)
  PROVE  Registered \subseteq Registered'
<1>1. TypeOK /\ CellsInv
  BY DEF RegistryInv, ListInv
<1>2. OnList \subseteq Cells
  BY DEF OnList
<1>3. ASSUME OnList \subseteq OnList', \A c \in OnList : held[c] # NULL => held'[c] = held[c]
      PROVE  Registered \subseteq Registered'
  BY <1>3 DEF Registered
<1>4. CASE UNCHANGED <<held, next>>
  BY <1>3, <1>4, SameCells
<1>5. pc[t] = "link" => /\ cp[t] \in Cells /\ next[cp[t]] = NULL
                        /\ cells \in Cells /\ cells <= MaxCalls
  BY <1>1, CellNumbers DEF TypeOK, NoneOvertaken
<1>6. CASE AdvFill(t) \/ AdvNoCell(t)
  <2>1. pc[t] = "link" /\ next' = [next EXCEPT ![cp[t]] = NULL]
    BY <1>6 DEF AdvFill, AdvNoCell
  <2>2. Relink(cp[t], NULL)
    BY <1>1, <1>5, <2>1 DEF Relink, TypeOK
  <2>3. \A c \in OnList : held[c] # NULL => held'[c] = held[c]
    BY <1>1, <1>2, <1>6 DEF AdvFill, AdvNoCell, TypeOK
  <2> QED
    BY <1>1, <1>3, <1>5, <2>1, <2>2, <2>3, RelinkEnd
<1>7. CASE AdvAppend(t)
  <2>1. pc[t] = "link" /\ cells' = cells + 1
        /\ next' = [next EXCEPT ![cp[t]] = cells', ![cells'] = NULL]
        /\ held' = [held EXCEPT ![cells'] = arg[t]]
    BY <1>7 DEF AdvAppend
  <2>2. cells < MaxCalls
    <3>1. t \in Busy /\ IsFiniteSet(Busy) /\ cells + Cardinality(Busy) <= calls
      BY <2>1 DEF RegistryInv, CellsCounted, Busy
    <3>2. Cardinality(Busy) \in Nat /\ Cardinality(Busy) # 0
      BY <3>1, FS_CardinalityType, FS_EmptySet
    <3> QED
      BY <1>1, <3>1, <3>2, CellNumbers DEF TypeOK
  <2>3. cells + 1 \in Cells \ Allocated
    BY <1>1, <2>2, CellNumbers DEF TypeOK, Cells, Allocated
  <2>4. held[cells + 1] = NULL /\ next[cells + 1] = NULL
    BY <1>1, <2>3 DEF CellsInv
  <2>5. cp[t] # cells + 1
    BY <2>4, <1>7 DEF AdvAppend
  <2>6. Relink(cp[t], cells + 1)
    BY <1>1, <1>5, <2>1, <2>3, <2>4, <2>5 DEF Relink, TypeOK
  <2>7. \A c \in OnList : held[c] # NULL => held'[c] = held[c]
    BY <1>1, <1>2, <2>1, <2>4 DEF TypeOK
  <2> QED
    BY <1>1, <1>3, <1>5, <2>1, <2>6, <2>7, RelinkEnd
<1> QED
  BY <1>4, <1>6, <1>7 DEF Advertise, AdvLock, AdvClash, AdvFindEnd, AdvAllocate, AdvNoData, listVars

\* A topic is lost only where a thread was overtaken between its walk and its
\* append; running out of memory for a cell loses none.
THEOREM LostOnlyWhenOvertaken ==
  Spec => [][NoneOvertaken => Registered \subseteq Registered']_vars
<1>1. RegistryInv /\ [Next]_vars => [NoneOvertaken => Registered \subseteq Registered']_vars
  BY StepKeepsTopics DEF Next
<1> QED
  BY <1>1, Invariant, PTL DEF Spec

\* So where one thread advertises, as the sensor thread alone does in this
\* program, a topic on the list stays on it, as uDEU.c:38 promises: the walk's
\* last cell is still the last when the mutex is taken again.
THEOREM OneThreadLosesNone ==
  ASSUME NEW only, Threads = {only}
  PROVE  Spec => AppendsOnly
<1> DEFINE Last == pc[only] \in {"calloc", "link"} => next[cp[only]] = NULL
<1>1. Init => Last
  BY DEF Init
<1>2. ASSUME RegistryInv, Last, Advertise(only) PROVE Last'
  <2>1. CASE AdvFindEnd(only)
    <3>1. next[LastOnList] = NULL
      BY <1>2 DEF RegistryInv, ListInv, Ends, LastOnList
    <3>2. cp'[only] = LastOnList /\ next' = next
      BY <1>2, <2>1 DEF AdvFindEnd, RegistryInv, TypeOK, listVars
    <3> QED
      BY <3>1, <3>2
  <2>2. CASE AdvAllocate(only)
    BY <1>2, <2>2 DEF AdvAllocate, listVars
  <2>3. CASE ~AdvFindEnd(only) /\ ~AdvAllocate(only)
    <3>1. pc'[only] \notin {"calloc", "link"}
      BY <1>2, <2>3 DEF Advertise, AdvLock, AdvClash, AdvNoData, AdvFill, AdvAppend, AdvNoCell,
                        RegistryInv, TypeOK
    <3> QED
      BY <3>1
  <2> QED
    BY <2>1, <2>2, <2>3
<1>3. RegistryInv /\ Last /\ [Next]_vars => Last'
  BY <1>2 DEF Next, vars, listVars
<1>4. Last => NoneOvertaken
  BY DEF NoneOvertaken
<1>5. RegistryInv /\ Last /\ [Next]_vars => [Registered \subseteq Registered']_vars
  BY <1>4, StepKeepsTopics DEF Next
<1> HIDE DEF Last
<1> QED
  BY <1>1, <1>3, <1>5, Invariant, PTL DEF Spec, AppendsOnly
==============================================================================
