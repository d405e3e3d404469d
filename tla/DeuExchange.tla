----------------------------- MODULE DeuExchange -----------------------------
(***************************************************************************)
(* One topic of the Micro Data Exchange Unit (framework/uDEU/uDEU.c): the  *)
(* threads that publish on it and the nodes subscribed to it.              *)
(*                                                                         *)
(* The topic is already advertised (its data block is allocated); module   *)
(* DeuRegistry models deu_advertise.  Topics share nothing but deu_mutex,  *)
(* so a second topic could only delay the threads modelled here.           *)
(*                                                                         *)
(* Samples are numbered in the order in which they enter the topic.  The   *)
(* data block is two words, lo and hi, because deu_publish fills it with a *)
(* memcpy that an unlocked reader can see half done.                       *)
(*                                                                         *)
(* Every subscribing thread owns one node and is named after it.           *)
(***************************************************************************)
EXTENDS Integers, Sequences

CONSTANTS
  Publishers,        \* threads that call deu_publish
  SyncReaders,       \* nodes with a semaphore, read with deu_poll_sync
  PollReaders,       \* nodes without one, read with deu_poll
  CbReaders,         \* nodes with a callback
  DEU_MAX_LINK_NUM,  \* most nodes of a topic
  MaxPublish,        \* bound of the model: samples published in a behaviour
  WildNext,          \* what malloc can leave in node->next: is it non-NULL?
  NULL               \* the free mutex

Readers == SyncReaders \cup PollReaders
Nodes   == Readers \cup CbReaders

\* A node has a semaphore, a callback or neither, and NULL is no thread.
ASSUME NodeKinds ==
  /\ SyncReaders \cap PollReaders = {}
  /\ CbReaders \cap Readers = {}
  /\ NULL \notin Publishers

\* The bounds are numbers, and malloc leaves at least one value behind.
ASSUME Bounds ==
  /\ DEU_MAX_LINK_NUM \in Nat
  /\ MaxPublish \in Nat
  /\ WildNext \in SUBSET BOOLEAN

VARIABLES
  mutex,      \* the publisher that holds deu_mutex, or NULL
  seq,        \* number of samples that entered the topic
  data,       \* tpc->data
  published,  \* tpc->published
  link,       \* the list from tpc->link_head to tpc->link_tail
  wild,       \* the next field of the tail node is not NULL
  renewal,    \* node->renewal
  sem,        \* value of *node->sem
  ppc,        \* where each publisher stands in deu_publish
  cur,        \* its local variable node, as a position in link
  semVal,     \* its local variable sem_val
  rpc,        \* where each subscribing thread stands
  got,        \* the sample last handed to the node (buf, or cb's argument)
  since       \* history: the number of samples when the node was linked

topicVars == <<seq, data, published>>
listVars  == <<link, wild, since>>
nodeVars  == <<renewal, sem, got>>
pubVars   == <<ppc, cur, semVal>>
vars == <<mutex, topicVars, listVars, nodeVars, pubVars, rpc>>

Sample == [lo : Nat, hi : Nat]
Zero   == [lo |-> 0, hi |-> 0]

NoNode    == 0       \* the NULL that ends the list
StrayNode == -1      \* a next field nobody initialised

------------------------------------------------------------------------------
(* The list of nodes: following link_head and next.                         *)

FirstNode   == IF link = <<>> THEN NoNode ELSE 1
\* Slip: while (node->next != NULL), the walk stops short of the tail.
NextNodeShort(i) == IF i < Len(link) - 1 THEN i + 1 ELSE NoNode

NextNode(i) == IF i < Len(link) THEN i + 1
                                ELSE IF wild THEN StrayNode ELSE NoNode

Linked == {link[i] : i \in 1 .. Len(link)}

------------------------------------------------------------------------------
(* deu_publish                                                              *)

\* Takes deu_mutex and copies the first word of the sample.
PubLock(p) ==
  /\ ppc[p] = "idle"
  /\ mutex = NULL
  /\ seq < MaxPublish
  /\ mutex' = p
  /\ seq' = seq + 1
  /\ data' = [data EXCEPT !.lo = seq + 1]
  /\ ppc' = [ppc EXCEPT ![p] = "copy"]
  /\ UNCHANGED <<published, listVars, nodeVars, cur, semVal, rpc>>

\* Copies the rest of it and starts at tpc->link_head.
PubCopy(p) ==
  /\ ppc[p] = "copy"
  /\ data' = [data EXCEPT !.hi = data.lo]
  /\ cur' = [cur EXCEPT ![p] = FirstNode]
  /\ ppc' = [ppc EXCEPT ![p] = "mark"]
  /\ UNCHANGED <<mutex, seq, published, listVars, nodeVars, semVal, rpc>>

\* Slip: renewal counts the samples.
PubMarkCounting(p) ==
  /\ ppc[p] = "mark"
  /\ cur[p] > 0
  /\ LET node == link[cur[p]] IN
       /\ renewal' = [renewal EXCEPT ![node] = @ + 1]
       /\ IF node \in SyncReaders
            THEN ppc' = [ppc EXCEPT ![p] = "getvalue"] /\ UNCHANGED cur
            ELSE cur' = [cur EXCEPT ![p] = NextNode(cur[p])] /\ UNCHANGED ppc
  /\ UNCHANGED <<mutex, topicVars, listVars, sem, got, semVal, rpc>>

\* node->renewal = 1; a node without a semaphore is done with.
PubMark(p) ==
  /\ ppc[p] = "mark"
  /\ cur[p] > 0
  /\ LET node == link[cur[p]] IN
       /\ renewal' = [renewal EXCEPT ![node] = 1]
       /\ \/ /\ node \in SyncReaders
             /\ ppc' = [ppc EXCEPT ![p] = "getvalue"]
             /\ UNCHANGED cur
          \/ /\ node \notin SyncReaders
             /\ cur' = [cur EXCEPT ![p] = NextNode(cur[p])]
             /\ UNCHANGED ppc
  /\ UNCHANGED <<mutex, topicVars, listVars, sem, got, semVal, rpc>>

\* sem_getvalue: the waiter may still take the semaphore before PubPost.
PubGetValue(p) ==
  /\ ppc[p] = "getvalue"
  /\ semVal' = [semVal EXCEPT ![p] = sem[link[cur[p]]]]
  /\ ppc' = [ppc EXCEPT ![p] = "post"]
  /\ UNCHANGED <<mutex, topicVars, listVars, nodeVars, cur, rpc>>

\* Slip: posts whatever sem_getvalue said.
PubPostAlways(p) ==
  /\ ppc[p] = "post"
  /\ sem' = [sem EXCEPT ![link[cur[p]]] = @ + 1]
  /\ cur' = [cur EXCEPT ![p] = NextNode(cur[p])]
  /\ ppc' = [ppc EXCEPT ![p] = "mark"]
  /\ UNCHANGED <<mutex, topicVars, listVars, renewal, got, semVal, rpc>>

\* Slip: if (sem_val), the test turned round.
PubPostInverted(p) ==
  /\ ppc[p] = "post"
  /\ LET node == link[cur[p]] IN
       sem' = IF semVal[p] # 0 THEN [sem EXCEPT ![node] = @ + 1] ELSE sem
  /\ cur' = [cur EXCEPT ![p] = NextNode(cur[p])]
  /\ ppc' = [ppc EXCEPT ![p] = "mark"]
  /\ UNCHANGED <<mutex, topicVars, listVars, renewal, got, semVal, rpc>>

\* if (sem_val == 0) sem_post(node->sem)
PubPost(p) ==
  /\ ppc[p] = "post"
  /\ LET node == link[cur[p]] IN
       sem' = IF semVal[p] = 0 THEN [sem EXCEPT ![node] = @ + 1] ELSE sem
  /\ cur' = [cur EXCEPT ![p] = NextNode(cur[p])]
  /\ ppc' = [ppc EXCEPT ![p] = "mark"]
  /\ UNCHANGED <<mutex, topicVars, listVars, renewal, got, semVal, rpc>>

\* End of the list: tpc->published = 1 and the mutex is released.
PubUnlock(p) ==
  /\ ppc[p] = "mark"
  /\ cur[p] = NoNode
  /\ published' = TRUE
  /\ mutex' = NULL
  /\ ppc' = [ppc EXCEPT ![p] = "callbacks"]
  /\ UNCHANGED <<seq, data, listVars, nodeVars, cur, semVal, rpc>>

\* node = tpc->link_head, read without the mutex.
PubRestart(p) ==
  /\ ppc[p] = "callbacks"
  /\ cur' = [cur EXCEPT ![p] = FirstNode]
  /\ ppc' = [ppc EXCEPT ![p] = "call"]
  /\ UNCHANGED <<mutex, topicVars, listVars, nodeVars, semVal, rpc>>

\* node->cb(tpc->data), without the mutex either.
PubCall(p) ==
  /\ ppc[p] = "call"
  /\ cur[p] > 0
  /\ LET node == link[cur[p]] IN
       got' = IF node \in CbReaders THEN [got EXCEPT ![node] = data] ELSE got
  /\ cur' = [cur EXCEPT ![p] = NextNode(cur[p])]
  /\ UNCHANGED <<mutex, topicVars, listVars, renewal, sem, ppc, semVal, rpc>>

\* deu_publish returns 0.
PubReturn(p) ==
  /\ ppc[p] = "call"
  /\ cur[p] = NoNode
  /\ ppc' = [ppc EXCEPT ![p] = "idle"]
  /\ UNCHANGED <<mutex, topicVars, listVars, nodeVars, cur, semVal, rpc>>

------------------------------------------------------------------------------
(* deu_subscribe                                                            *)

\* Returns NULL: the topic is full.
SubFull(n) ==
  /\ rpc[n] = "start"
  /\ Len(link) >= DEU_MAX_LINK_NUM
  /\ rpc' = [rpc EXCEPT ![n] = "refused"]
  /\ UNCHANGED <<mutex, topicVars, listVars, nodeVars, pubVars>>

\* Returns NULL: malloc failed.
SubNoMemory(n) ==
  /\ rpc[n] = "start"
  /\ Len(link) < DEU_MAX_LINK_NUM
  /\ rpc' = [rpc EXCEPT ![n] = "refused"]
  /\ UNCHANGED <<mutex, topicVars, listVars, nodeVars, pubVars>>

\* The link_size test, made before the mutex is taken, and the new node.
SubCheck(n) ==
  /\ rpc[n] = "start"
  /\ Len(link) < DEU_MAX_LINK_NUM
  /\ renewal' = [renewal EXCEPT ![n] = 0]
  /\ rpc' = [rpc EXCEPT ![n] = "link"]
  /\ UNCHANGED <<mutex, topicVars, listVars, sem, got, pubVars>>

\* Appends the node under the mutex.  node->next is left as malloc had it.
SubLink(n) ==
  /\ rpc[n] = "link"
  /\ mutex = NULL
  /\ link' = Append(link, n)
  /\ wild' \in WildNext
  /\ since' = [since EXCEPT ![n] = seq]
  /\ rpc' = [rpc EXCEPT ![n] = "linked"]
  /\ UNCHANGED <<mutex, topicVars, nodeVars, pubVars>>

\* Slip: no call for the sample published before the node was linked.
SubReturnSilent(n) ==
  /\ rpc[n] = "linked"
  /\ rpc' = [rpc EXCEPT ![n] = "ready"]
  /\ UNCHANGED <<mutex, topicVars, listVars, nodeVars, pubVars>>

\* A callback runs at once when the topic is published, without the mutex.
SubReturn(n) ==
  /\ rpc[n] = "linked"
  /\ got' = IF published /\ n \in CbReaders THEN [got EXCEPT ![n] = data]
                                            ELSE got
  /\ rpc' = [rpc EXCEPT ![n] = "ready"]
  /\ UNCHANGED <<mutex, topicVars, listVars, renewal, sem, pubVars>>

------------------------------------------------------------------------------
(* deu_poll_sync and deu_poll                                               *)

\* deu_poll_sync: sem_wait(node->sem)
SemWait(n) ==
  /\ n \in SyncReaders
  /\ rpc[n] = "ready"
  /\ sem[n] > 0
  /\ sem' = [sem EXCEPT ![n] = @ - 1]
  /\ rpc' = [rpc EXCEPT ![n] = "copy"]
  /\ UNCHANGED <<mutex, topicVars, listVars, renewal, got, pubVars>>

\* Slip: the flag is not looked at.
PollCheckBlind(n) ==
  /\ n \in PollReaders
  /\ rpc[n] = "ready"
  /\ mutex = NULL
  /\ rpc' = [rpc EXCEPT ![n] = "copy"]
  /\ UNCHANGED <<mutex, topicVars, listVars, nodeVars, pubVars>>

\* deu_poll: finds renewal set.  Finding it clear it returns -1 and changes
\* nothing, which is a stuttering step.
PollCheck(n) ==
  /\ n \in PollReaders
  /\ rpc[n] = "ready"
  /\ mutex = NULL
  /\ renewal[n] = 1
  /\ rpc' = [rpc EXCEPT ![n] = "copy"]
  /\ UNCHANGED <<mutex, topicVars, listVars, nodeVars, pubVars>>

\* Slip: copies without taking the mutex.
PollCopyUnlocked(n) ==
  /\ rpc[n] = "copy"
  /\ got' = [got EXCEPT ![n] = data]
  /\ renewal' = [renewal EXCEPT ![n] = 0]
  /\ rpc' = [rpc EXCEPT ![n] = "ready"]
  /\ UNCHANGED <<mutex, topicVars, listVars, sem, pubVars>>

\* Slip: leaves renewal set.
PollCopyKeepsFlag(n) ==
  /\ rpc[n] = "copy"
  /\ mutex = NULL
  /\ got' = [got EXCEPT ![n] = data]
  /\ rpc' = [rpc EXCEPT ![n] = "ready"]
  /\ UNCHANGED <<mutex, topicVars, listVars, renewal, sem, pubVars>>

\* Both: under the mutex, copy the data out and clear renewal.
PollCopy(n) ==
  /\ rpc[n] = "copy"
  /\ mutex = NULL
  /\ got' = [got EXCEPT ![n] = data]
  /\ renewal' = [renewal EXCEPT ![n] = 0]
  /\ rpc' = [rpc EXCEPT ![n] = "ready"]
  /\ UNCHANGED <<mutex, topicVars, listVars, sem, pubVars>>

------------------------------------------------------------------------------
Init ==
  /\ mutex = NULL
  /\ seq = 0
  /\ data = Zero
  /\ published = FALSE
  /\ link = <<>>
  /\ wild = FALSE
  /\ since = [n \in Nodes |-> 0]
  /\ renewal = [n \in Nodes |-> 0]
  /\ sem = [n \in SyncReaders |-> 0]
  /\ got = [n \in Nodes |-> Zero]
  /\ ppc = [p \in Publishers |-> "idle"]
  /\ cur = [p \in Publishers |-> NoNode]
  /\ semVal = [p \in Publishers |-> 0]
  /\ rpc = [n \in Nodes |-> "start"]

Publish(p) ==
  \/ PubLock(p) \/ PubCopy(p) \/ PubMark(p) \/ PubGetValue(p) \/ PubPost(p)
  \/ PubUnlock(p) \/ PubRestart(p) \/ PubCall(p) \/ PubReturn(p)

Subscribe(n) ==
  \/ SubFull(n) \/ SubNoMemory(n) \/ SubCheck(n) \/ SubLink(n) \/ SubReturn(n)

Poll(n) == SemWait(n) \/ PollCheck(n) \/ PollCopy(n)

Next ==
  \/ \E p \in Publishers : Publish(p)
  \/ \E n \in Nodes : Subscribe(n) \/ Poll(n)

Spec == Init /\ [][Next]_vars

\* A thread inside deu_publish or deu_subscribe, and a reader that can go on,
\* is scheduled in the end.  Nobody is obliged to publish or to subscribe.
Fairness ==
  /\ \A p \in Publishers : WF_vars(ppc[p] # "idle" /\ Publish(p))
  /\ \A n \in Nodes : WF_vars(rpc[n] # "start" /\ Subscribe(n))
  /\ \A n \in Nodes : WF_vars(Poll(n))

FairSpec == Spec /\ Fairness

------------------------------------------------------------------------------
(* Properties                                                               *)

PubPC == {"idle", "copy", "mark", "getvalue", "post", "callbacks", "call"}
SubPC == {"start", "refused", "link", "linked", "ready", "copy"}

\* The type of every variable.
TypeOK ==
  /\ mutex \in Publishers \cup {NULL}
  /\ seq \in Nat
  /\ data \in Sample
  /\ published \in BOOLEAN
  /\ link \in Seq(Nodes)
  /\ wild \in BOOLEAN
  /\ since \in [Nodes -> Nat]
  /\ renewal \in [Nodes -> {0, 1}]
  /\ sem \in [SyncReaders -> Nat]
  /\ got \in [Nodes -> Sample]
  /\ ppc \in [Publishers -> PubPC]
  /\ cur \in [Publishers -> Int]
  /\ semVal \in [Publishers -> Nat]
  /\ rpc \in [Nodes -> SubPC]

\* deu_publish posts only after reading 0, but reads and posts in two steps
\* while waiters come and go: the semaphore never counts past 1, so a reader
\* is woken for nothing at most once after it caught up.
SemBinary == \A n \in SyncReaders : sem[n] <= 1

\* A waiter with an unread sample is not left asleep: its semaphore is up, or
\* it is past sem_wait, or a publisher is about to post.
NoLostWakeup ==
  \A n \in SyncReaders : renewal[n] = 1 =>
    \/ sem[n] = 1
    \/ rpc[n] = "copy"
    \/ \E p \in Publishers :
         /\ cur[p] \in 1 .. Len(link)
         /\ link[cur[p]] = n
         /\ ppc[p] = "getvalue" \/ (ppc[p] = "post" /\ semVal[p] = 0)

\* The newest sample the node was handed, or that it came too late for.
Seen(n) == IF got[n].lo >= since[n] THEN got[n].lo ELSE since[n]

\* With the mutex free, a linked node whose renewal flag is clear was handed
\* the newest sample (or joined after it): no publication is passed over by
\* the walk, whichever nodes were appended and read meanwhile.
NoMissedSample ==
  mutex = NULL => \A n \in Linked : renewal[n] = 0 => Seen(n) = seq

\* What deu_poll and deu_poll_sync copy out is one whole sample.
NoTornSample == \A n \in Readers : got[n].lo = got[n].hi

\* When no publisher is inside deu_publish, every callback node whose
\* subscription returned was called with the newest sample, although the walk
\* over the callbacks and the published test both run without the mutex.
CallbacksCaughtUp ==
  (\A p \in Publishers : ppc[p] = "idle") =>
    \A n \in CbReaders : rpc[n] = "ready" => got[n] = [lo |-> seq, hi |-> seq]

\* deu_poll hands out no sample twice, although it drops the mutex between the
\* test of renewal and the copy.
PollBringsNews ==
  [][\A n \in PollReaders :
       rpc[n] = "copy" /\ rpc'[n] = "ready" => got[n].lo < got'[n].lo]_vars

\* Every unread sample, or a newer one, is read in the end, unless a walk left
\* the list by a next field that was never initialised.
Strayed   == \E p \in Publishers : cur[p] = StrayNode
Delivered == \A n \in Readers : renewal[n] = 1 ~> (renewal[n] = 0 \/ Strayed)

\* The exchange is a mailbox: a publication takes effect when the mutex is
\* released, and readers see exactly the newest sample, never half of it.
InLock == mutex # NULL

Box == INSTANCE Mailbox WITH
         Readers <- Readers,
         latest  <- IF InLock THEN seq - 1 ELSE seq,
         members <- Linked \cap Readers,
         seen    <- [n \in Readers |-> Seen(n)]

IsMailbox == Box!Spec

------------------------------------------------------------------------------
(* The inductive invariant behind the safety properties.                    *)

InSection(p) == ppc[p] \in {"copy", "mark", "getvalue", "post"}

\* The mutex is held by the publisher that is inside the critical section.
LockInv == \A p \in Publishers : mutex = p <=> InSection(p)

\* node is a linked node, or past the end; a semaphore is looked at only on
\* a node that has one.
CursorInv ==
  \A p \in Publishers :
    /\ cur[p] \in -1 .. Len(link)
    /\ ppc[p] \in {"getvalue", "post"} =>
         cur[p] \in 1 .. Len(link) /\ link[cur[p]] \in SyncReaders

\* A node is on the list once, from SubLink on, and untouched before.
ListInv ==
  /\ \A i, j \in 1 .. Len(link) : link[i] = link[j] => i = j
  /\ \A n \in Nodes :
       /\ n \in Linked <=> rpc[n] \in {"linked", "ready", "copy"}
       /\ n \notin Linked => renewal[n] = 0 /\ got[n] = Zero

\* The value sem_getvalue returned is still 0 when it is acted on: between
\* the two steps a waiter can only lower the semaphore.
SemInv ==
  /\ \A p \in Publishers :
       ppc[p] = "post" /\ semVal[p] = 0 => sem[link[cur[p]]] = 0
  /\ SemBinary

\* The data block holds sample seq, whole unless a memcpy is in progress.
DataInv ==
  /\ data.lo = seq
  /\ data.lo = data.hi \/ \E p \in Publishers : ppc[p] = "copy"

\* No reader is ahead of the topic, and none has seen the sample that is
\* being published; a set flag means news.
SeenInv ==
  /\ mutex # NULL => seq > 0
  /\ \A n \in Nodes : got[n].lo <= seq /\ since[n] <= seq
  /\ \A n \in Readers : mutex # NULL \/ renewal[n] = 1 => Seen(n) < seq
  /\ \A n \in PollReaders : rpc[n] = "copy" => renewal[n] = 1
  /\ \A n \in CbReaders : rpc[n] # "copy"

\* Publisher p has still to mark the node at position i.
StillToMark(p, i) ==
  \/ ppc[p] = "copy"
  \/ ppc[p] = "mark" /\ cur[p] \in 1 .. i
  \/ ppc[p] \in {"getvalue", "post"} /\ cur[p] < i

\* A node whose flag is clear is up to date or about to be marked.
FreshInv ==
  \A i \in 1 .. Len(link) :
    renewal[link[i]] = 0 =>
      Seen(link[i]) = seq \/ \E p \in Publishers : StillToMark(p, i)

\* The strengthening that each step preserves: what deu_publish's critical
\* section, deu_subscribe's append and the two reads keep true of one another.
IInv ==
  /\ TypeOK /\ LockInv /\ CursorInv /\ ListInv /\ SemInv /\ DataInv
  /\ SeenInv /\ FreshInv /\ NoLostWakeup /\ NoTornSample
==============================================================================
