----------------------------- MODULE DeuRegistry -----------------------------
(***************************************************************************)
(* deu_advertise (framework/uDEU/uDEU.c): how threads register topics in   *)
(* the list that starts at _Topic_List.                                    *)
(*                                                                         *)
(* The list is walked under deu_mutex, the mutex is released to allocate   *)
(* the topic's data, and taken again to append at the cell where the walk  *)
(* ended.  Cells are numbered in the order of their allocation, cell 0     *)
(* being _Topic_List itself.                                               *)
(***************************************************************************)
EXTENDS Integers

CONSTANTS
  Threads,    \* threads that call deu_advertise
  Topics,     \* the topics they advertise
  Name,       \* tpc->name, a function on Topics
  MaxCalls,   \* bound of the model: calls made in a behaviour
  NULL

ASSUME Given ==
  /\ MaxCalls \in Nat
  /\ NULL \notin Threads \cup Topics \cup (0 .. MaxCalls)
  /\ Name \in [Topics -> {Name[tpc] : tpc \in Topics}]

VARIABLES
  mutex,   \* the thread that holds deu_mutex, or NULL
  held,    \* the tpc_t field of each cell, NULL in a cell not filled
  next,    \* the next field of each cell, NULL at the end
  cells,   \* how many cells malloc returned
  data,    \* whether tpc->data points to a block
  calls,   \* how many calls were made
  pc,      \* where each thread stands in deu_advertise
  arg,     \* its argument tpc
  cp,      \* its local variable cp
  result   \* what its last call returned

listVars == <<held, next, cells>>
vars == <<mutex, listVars, data, calls, pc, arg, cp, result>>

Topic_List  == 0
Cells == 0 .. MaxCalls

\* The cells reached from the head: those in every set that a walk cannot leave.
Closed(S) == Topic_List \in S /\ \A c \in S : next[c] # NULL => next[c] \in S
OnList == {c \in Cells : \A S \in SUBSET Cells : Closed(S) => c \in S}
LastOnList == CHOOSE c \in OnList : next[c] = NULL

Registered == {held[c] : c \in OnList} \ {NULL}

------------------------------------------------------------------------------
\* deu_advertise(tpc) is called and takes the mutex.
AdvLock(t) ==
  /\ pc[t] = "idle"
  /\ calls < MaxCalls
  /\ mutex = NULL
  /\ \E tpc \in Topics : arg' = [arg EXCEPT ![t] = tpc]
  /\ calls' = calls + 1
  /\ mutex' = t
  /\ pc' = [pc EXCEPT ![t] = "walk"]
  /\ UNCHANGED <<listVars, data, cp, result>>

\* Slip: the loop compares all cells but the head.
ClashesPastHead(tpc) ==
  \E c \in OnList \ {Topic_List} : next[c] # NULL /\ Name[held[c]] = Name[tpc]

\* The loop compares the names of the cells that have a successor.
Clashes(tpc) ==
  \E c \in OnList : next[c] # NULL /\ Name[held[c]] = Name[tpc]

\* It finds the name: returns -1 and keeps the mutex.
AdvClash(t) ==
  /\ pc[t] = "walk"
  /\ Clashes(arg[t])
  /\ result' = [result EXCEPT ![t] = -1]
  /\ pc' = [pc EXCEPT ![t] = "idle"]
  /\ UNCHANGED <<mutex, listVars, data, calls, arg, cp>>

\* Slip: the walk goes on while cp, and not cp->next, is non-NULL.
AdvFindEndPast(t) ==
  /\ pc[t] = "walk"
  /\ ~ Clashes(arg[t])
  /\ cp' = [cp EXCEPT ![t] = NULL]
  /\ mutex' = NULL
  /\ pc' = [pc EXCEPT ![t] = "calloc"]
  /\ UNCHANGED <<listVars, data, calls, arg, result>>

\* It does not: cp is the last cell and the mutex is released.
AdvFindEnd(t) ==
  /\ pc[t] = "walk"
  /\ ~ Clashes(arg[t])
  /\ cp' = [cp EXCEPT ![t] = LastOnList]
  /\ mutex' = NULL
  /\ pc' = [pc EXCEPT ![t] = "calloc"]
  /\ UNCHANGED <<listVars, data, calls, arg, result>>

\* tpc->data = calloc(...) gives a block.
AdvAllocate(t) ==
  /\ pc[t] = "calloc"
  /\ data' = [data EXCEPT ![arg[t]] = TRUE]
  /\ pc' = [pc EXCEPT ![t] = "link"]
  /\ UNCHANGED <<mutex, listVars, calls, arg, cp, result>>

\* It gives NULL, which is stored, and -1 is returned.
AdvNoData(t) ==
  /\ pc[t] = "calloc"
  /\ data' = [data EXCEPT ![arg[t]] = FALSE]
  /\ result' = [result EXCEPT ![t] = -1]
  /\ pc' = [pc EXCEPT ![t] = "idle"]
  /\ UNCHANGED <<mutex, listVars, calls, arg, cp>>

\* Slip: the first cell is filled whatever it holds.
AdvFillBlind(t) ==
  /\ pc[t] = "link" /\ mutex = NULL
  /\ cp[t] = Topic_List
  /\ held' = [held EXCEPT ![cp[t]] = arg[t]]
  /\ next' = [next EXCEPT ![cp[t]] = NULL]
  /\ result' = [result EXCEPT ![t] = 0]
  /\ pc' = [pc EXCEPT ![t] = "idle"]
  /\ UNCHANGED <<mutex, cells, data, calls, arg, cp>>

\* Slip: the head is filled and the call returns without the unlock.
AdvFillKeeps(t) ==
  /\ pc[t] = "link" /\ mutex = NULL
  /\ held[cp[t]] = NULL
  /\ held' = [held EXCEPT ![cp[t]] = arg[t]]
  /\ next' = [next EXCEPT ![cp[t]] = NULL]
  /\ mutex' = t
  /\ result' = [result EXCEPT ![t] = 0]
  /\ pc' = [pc EXCEPT ![t] = "idle"]
  /\ UNCHANGED <<cells, data, calls, arg, cp>>

\* Under the mutex: cp holds no topic (it is the head of an empty list) and is
\* filled.
AdvFill(t) ==
  /\ pc[t] = "link" /\ mutex = NULL
  /\ held[cp[t]] = NULL
  /\ held' = [held EXCEPT ![cp[t]] = arg[t]]
  /\ next' = [next EXCEPT ![cp[t]] = NULL]
  /\ result' = [result EXCEPT ![t] = 0]
  /\ pc' = [pc EXCEPT ![t] = "idle"]
  /\ UNCHANGED <<mutex, cells, data, calls, arg, cp>>

\* Slip: the topic is stored in the old cell, cp not having moved on.
AdvAppendInPlace(t) ==
  /\ pc[t] = "link" /\ mutex = NULL
  /\ held[cp[t]] # NULL
  /\ cells' = cells + 1
  /\ held' = [held EXCEPT ![cp[t]] = arg[t]]
  /\ next' = [next EXCEPT ![cp[t]] = NULL]
  /\ result' = [result EXCEPT ![t] = 0]
  /\ pc' = [pc EXCEPT ![t] = "idle"]
  /\ UNCHANGED <<mutex, data, calls, arg, cp>>

\* Slip: storing the topic is left to the case of the empty head.
AdvAppendEmpty(t) ==
  /\ pc[t] = "link" /\ mutex = NULL
  /\ held[cp[t]] # NULL
  /\ cells' = cells + 1
  /\ next' = [next EXCEPT ![cp[t]] = cells', ![cells'] = NULL]
  /\ result' = [result EXCEPT ![t] = 0]
  /\ pc' = [pc EXCEPT ![t] = "idle"]
  /\ UNCHANGED <<mutex, held, data, calls, arg, cp>>

\* Under the mutex: a new cell becomes the successor of cp, whatever its next
\* was by now, and the end of the list.
AdvAppend(t) ==
  /\ pc[t] = "link" /\ mutex = NULL
  /\ held[cp[t]] # NULL
  /\ cells' = cells + 1
  /\ next' = [next EXCEPT ![cp[t]] = cells', ![cells'] = NULL]
  /\ held' = [held EXCEPT ![cells'] = arg[t]]
  /\ result' = [result EXCEPT ![t] = 0]
  /\ pc' = [pc EXCEPT ![t] = "idle"]
  /\ UNCHANGED <<mutex, data, calls, arg, cp>>

\* Under the mutex: no memory for a cell.  cp->next becomes NULL, -1 is
\* returned and the mutex stays taken.
AdvNoCell(t) ==
  /\ pc[t] = "link" /\ mutex = NULL
  /\ held[cp[t]] # NULL
  /\ next' = [next EXCEPT ![cp[t]] = NULL]
  /\ mutex' = t
  /\ result' = [result EXCEPT ![t] = -1]
  /\ pc' = [pc EXCEPT ![t] = "idle"]
  /\ UNCHANGED <<held, cells, data, calls, arg, cp>>

------------------------------------------------------------------------------
Init ==
  /\ mutex = NULL
  /\ held = [c \in Cells |-> NULL]
  /\ next = [c \in Cells |-> NULL]
  /\ cells = 0
  /\ data = [tpc \in Topics |-> FALSE]
  /\ calls = 0
  /\ pc = [t \in Threads |-> "idle"]
  /\ arg = [t \in Threads |-> NULL]
  /\ cp = [t \in Threads |-> Topic_List]
  /\ result = [t \in Threads |-> 0]

Advertise(t) ==
  \/ AdvLock(t) \/ AdvClash(t) \/ AdvFindEnd(t) \/ AdvAllocate(t)
  \/ AdvNoData(t) \/ AdvFill(t) \/ AdvAppend(t) \/ AdvNoCell(t)

Next == \E t \in Threads : Advertise(t)

Spec == Init /\ [][Next]_vars

------------------------------------------------------------------------------
(* Properties                                                               *)

\* The type of every variable.
TypeOK ==
  /\ mutex \in Threads \cup {NULL}
  /\ held \in [Cells -> Topics \cup {NULL}]
  /\ next \in [Cells -> Cells \cup {NULL}]
  /\ cells \in Cells
  /\ data \in [Topics -> BOOLEAN]
  /\ calls \in 0 .. MaxCalls
  /\ pc \in [Threads -> {"idle", "walk", "calloc", "link"}]
  /\ arg \in [Threads -> Topics \cup {NULL}]
  /\ cp \in [Threads -> Cells]
  /\ result \in [Threads -> {0, -1}]

\* However the threads overtake one another between the two critical
\* sections, the list stays a list: it ends, every cell on it was allocated,
\* and once a topic was registered every cell on it holds one.
ListWhole ==
  /\ \E c \in OnList : next[c] = NULL
  /\ \A c \in OnList : c <= cells /\ (held[Topic_List] # NULL => held[c] # NULL)

\* A call that came back with the mutex still taken returned -1.
LeakMeansError == \A t \in Threads : mutex = t /\ pc[t] = "idle" => result[t] = -1

\* The test of cp->tpc_t, which the author wonders about (uDEU.c:41), is what
\* keeps the first topic: a second thread whose walk ended at the empty head
\* does not overwrite it.
FirstTopicStays ==
  [][held[Topic_List] # NULL => held'[Topic_List] = held[Topic_List]]_held

\* Names clash only between neighbours: the loop misses the cell the walk ends
\* at and no other, also when other threads append meanwhile.
ClashesAreNeighbours ==
  \A c, d \in OnList :
    c < d /\ held[c] # NULL /\ Name[held[c]] = Name[held[d]] => next[c] = d

------------------------------------------------------------------------------
(* A property the code's own words promise and the code does not keep.       *)

\* "Add the topic to the global list" (uDEU.c:38): a topic that is on the list
\* stays on it.  It does with one thread, also when a call runs out of memory;
\* it does not with two, although the code calls the step atomic (uDEU.c:31).
AppendsOnly == [][Registered \subseteq Registered']_vars
==============================================================================
