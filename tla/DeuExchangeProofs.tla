-------------------------- MODULE DeuExchangeProofs --------------------------
(***************************************************************************)
(* Proofs about DeuExchange, for any numbers of publishers and nodes, any  *)
(* number of samples, any link limit and whatever malloc leaves in         *)
(* node->next.                                                             *)
(*                                                                         *)
(* The safety properties follow from IInv, which Init makes true and every *)
(* action keeps: one lemma per action below, one step per conjunct of IInv *)
(* in each.                                                                *)
(***************************************************************************)
EXTENDS DeuExchange, TLAPS

\* Before anybody subscribes the list is empty and nothing was published.
LEMMA InitEstablishes == Init => IInv
<1> SUFFICES ASSUME Init PROVE IInv
  OBVIOUS
<1> USE NodeKinds, Bounds DEF Init, Nodes, Readers, Zero, NoNode
<1>1. TypeOK
  <2>1. data \in Sample /\ got \in [Nodes -> Sample]
    BY DEF Sample
  <2>2. link \in Seq(Nodes)
    <3>1. link = <<>>
      OBVIOUS
    <3>2. QED
      BY ONLY <3>1
  <2>3. wild \in BOOLEAN /\ published \in BOOLEAN
    OBVIOUS
  <2>4. ppc \in [Publishers -> PubPC] /\ rpc \in [Nodes -> SubPC]
    BY DEF PubPC, SubPC
  <2>5. /\ mutex \in Publishers \cup {NULL} /\ seq \in Nat
        /\ since \in [Nodes -> Nat] /\ renewal \in [Nodes -> {0, 1}]
    OBVIOUS
  <2>6. /\ sem \in [SyncReaders -> Nat]
        /\ cur \in [Publishers -> Int] /\ semVal \in [Publishers -> Nat]
    OBVIOUS
  <2>7. QED
    BY ONLY <2>1, <2>2, <2>4, <2>5, <2>6, <2>3 DEF TypeOK
<1>2. NoLostWakeup /\ NoTornSample
  BY DEF NoLostWakeup, NoTornSample
<1>3. LockInv /\ CursorInv
  BY DEF LockInv, InSection, CursorInv
<1>4. ListInv /\ SemInv
  BY DEF ListInv, Linked, SemInv, SemBinary
<1>5. DataInv /\ SeenInv /\ FreshInv
  BY DEF DataInv, SeenInv, Seen, FreshInv
<1>6. QED
  BY <1>1, <1>2, <1>3, <1>4, <1>5 DEF IInv

\* deu_publish takes the mutex, and a new sample enters the topic.
LEMMA PubLockKeeps ==
  ASSUME IInv, NEW p \in Publishers, PubLock(p)
  PROVE  IInv'
<1> USE NodeKinds, Bounds
    DEF topicVars, listVars, nodeVars, pubVars, Nodes, Readers
<1>1. TypeOK'
  <2>1. data' \in Sample
    <3>1. data \in Sample /\ seq + 1 \in Nat
      BY DEF IInv, TypeOK
    <3>2. data' = [lo |-> seq + 1, hi |-> data.hi]
      BY <3>1 DEF PubLock, Sample
    <3>3. QED
      BY <3>1, <3>2 DEF Sample
  <2>2. QED
    BY <2>1 DEF IInv, PubLock, TypeOK, PubPC
<1>2. LockInv'
  BY DEF IInv, PubLock, TypeOK, LockInv, InSection
<1>3. CursorInv'
  BY DEF IInv, PubLock, TypeOK, CursorInv
<1>4. ListInv'
  <2>1. Linked' = Linked
    BY DEF PubLock, Linked
  <2>2. QED
    BY <2>1 DEF IInv, ListInv, PubLock, TypeOK
<1>5. SemInv'
  BY DEF IInv, PubLock, TypeOK, SemInv, SemBinary
<1>6. DataInv'
  BY DEF IInv, PubLock, TypeOK, DataInv, LockInv, InSection
<1>7. SeenInv'
  BY DEF IInv, PubLock, TypeOK, SeenInv, Seen, Sample
<1>8. FreshInv'
  BY DEF IInv, PubLock, TypeOK, FreshInv, StillToMark, Seen
<1>9. NoLostWakeup'
  BY DEF IInv, PubLock, TypeOK, NoLostWakeup
<1>10. NoTornSample'
  BY DEF IInv, PubLock, TypeOK, NoTornSample
<1>11. QED
  BY <1>1, <1>2, <1>3, <1>4, <1>5, <1>6, <1>7, <1>8, <1>9, <1>10 DEF IInv

\* The memcpy completes and the walk starts at link_head.
LEMMA PubCopyKeeps ==
  ASSUME IInv, NEW p \in Publishers, PubCopy(p)
  PROVE  IInv'
<1> USE NodeKinds, Bounds
    DEF topicVars, listVars, nodeVars, pubVars, Nodes, Readers
<1>1. TypeOK'
  <2>1. data' \in Sample
    BY DEF IInv, TypeOK, PubCopy, Sample
  <2>2. cur' \in [Publishers -> Int]
    BY DEF IInv, TypeOK, PubCopy, FirstNode, NoNode
  <2>3. QED
    BY <2>1, <2>2 DEF IInv, PubCopy, TypeOK, PubPC
<1>2. LockInv'
  BY DEF IInv, PubCopy, TypeOK, LockInv, InSection
<1>3. CursorInv'
  BY DEF IInv, PubCopy, TypeOK, CursorInv, FirstNode, NoNode
<1>4. ListInv'
  <2>1. Linked' = Linked
    BY DEF PubCopy, Linked
  <2>2. QED
    BY <2>1 DEF IInv, ListInv, PubCopy, TypeOK
<1>5. SemInv'
  BY DEF IInv, PubCopy, TypeOK, SemInv, SemBinary, CursorInv, LockInv, InSection
<1>6. DataInv'
  BY DEF IInv, PubCopy, TypeOK, DataInv, LockInv, InSection
<1>7. SeenInv'
  BY DEF IInv, PubCopy, TypeOK, SeenInv, Seen
<1>8. FreshInv'
  BY DEF IInv, PubCopy, TypeOK, FreshInv, StillToMark, Seen, FirstNode, NoNode, LockInv, InSection
<1>9. NoLostWakeup'
  BY DEF IInv, PubCopy, TypeOK, NoLostWakeup
<1>10. NoTornSample'
  BY DEF IInv, PubCopy, TypeOK, NoTornSample
<1>11. QED
  BY <1>1, <1>2, <1>3, <1>4, <1>5, <1>6, <1>7, <1>8, <1>9, <1>10 DEF IInv

\* The node under the cursor is marked.
LEMMA PubMarkKeeps ==
  ASSUME IInv, NEW p \in Publishers, PubMark(p)
  PROVE  IInv'
<1> USE NodeKinds, Bounds
    DEF topicVars, listVars, nodeVars, pubVars, Nodes, Readers
<1>0. /\ cur[p] \in 1 .. Len(link) /\ link[cur[p]] \in Nodes
      /\ NextNode(cur[p]) \in -1 .. Len(link) /\ NextNode(cur[p]) \in Int
  BY DEF IInv, PubMark, TypeOK, CursorInv, NextNode, NoNode, StrayNode
<1>1. TypeOK'
  BY <1>0 DEF IInv, PubMark, TypeOK, PubPC
<1>2. LockInv'
  BY DEF IInv, PubMark, TypeOK, LockInv, InSection
<1>3. CursorInv'
  BY DEF IInv, PubMark, TypeOK, CursorInv, NextNode, NoNode, StrayNode
<1>4. ListInv'
  <2>1. Linked' = Linked
    BY DEF PubMark, Linked
  <2>2. link[cur[p]] \in Linked
    BY <1>0 DEF Linked
  <2>3. QED
    BY <1>0, <2>1, <2>2 DEF IInv, ListInv, PubMark, TypeOK
<1>5. SemInv'
  BY DEF IInv, PubMark, TypeOK, SemInv, SemBinary, CursorInv, LockInv, InSection
<1>6. DataInv'
  BY DEF IInv, PubMark, TypeOK, DataInv
<1>7. SeenInv'
  BY DEF IInv, PubMark, TypeOK, SeenInv, Seen, LockInv, InSection
<1>8. FreshInv'
  <2> SUFFICES ASSUME NEW i \in 1 .. Len(link),
                      renewal'[link[i]] = 0, Seen(link[i]) # seq
               PROVE  \E q \in Publishers : StillToMark(q, i)'
    BY DEF FreshInv, PubMark, Seen
  <2>1. i # cur[p] /\ renewal[link[i]] = 0
    BY <1>0 DEF IInv, PubMark, TypeOK
  <2>2. PICK q \in Publishers : StillToMark(q, i)
    BY <2>1 DEF IInv, FreshInv
  <2>3. q = p
    BY <2>2 DEF StillToMark, IInv, LockInv, InSection, PubMark
  <2>4. cur[p] < i /\ cur[p] < Len(link)
    BY <2>1, <2>2, <2>3, <1>0 DEF StillToMark, PubMark
  <2>5. StillToMark(p, i)'
    BY <2>4, <1>0 DEF IInv, StillToMark, PubMark, NextNode, TypeOK
  <2>6. QED
    BY <2>5
<1>9. NoLostWakeup'
  <2> SUFFICES ASSUME NEW n \in SyncReaders, renewal'[n] = 1,
                      sem[n] # 1, rpc[n] # "copy"
               PROVE  \E q \in Publishers :
                        /\ cur'[q] \in 1 .. Len(link')
                        /\ link'[cur'[q]] = n
                        /\ \/ ppc'[q] = "getvalue"
                           \/ ppc'[q] = "post" /\ semVal'[q] = 0
    BY DEF NoLostWakeup, PubMark
  <2>1. CASE link[cur[p]] = n
    BY <1>0, <2>1 DEF IInv, PubMark, TypeOK
  <2>2. CASE link[cur[p]] # n
    <3>1. renewal[n] = 1
      BY <1>0, <2>2 DEF IInv, PubMark, TypeOK
    <3>2. PICK q \in Publishers :
            /\ cur[q] \in 1 .. Len(link) /\ link[cur[q]] = n
            /\ ppc[q] = "getvalue" \/ (ppc[q] = "post" /\ semVal[q] = 0)
      BY <3>1 DEF IInv, NoLostWakeup
    <3>3. q # p
      BY <3>2 DEF PubMark
    <3>4. QED
      BY <3>2, <3>3 DEF IInv, PubMark, TypeOK
  <2>3. QED
    BY <2>1, <2>2
<1>10. NoTornSample'
  BY DEF IInv, PubMark, TypeOK, NoTornSample
<1>11. QED
  BY <1>1, <1>2, <1>3, <1>4, <1>5, <1>6, <1>7, <1>8, <1>9, <1>10 DEF IInv

\* sem_getvalue, which may be out of date when PubPost acts on it.
LEMMA PubGetValueKeeps ==
  ASSUME IInv, NEW p \in Publishers, PubGetValue(p)
  PROVE  IInv'
<1> USE NodeKinds, Bounds
    DEF topicVars, listVars, nodeVars, pubVars, Nodes, Readers
<1>1. TypeOK'
  BY DEF IInv, PubGetValue, TypeOK, CursorInv, PubPC
<1>2. LockInv'
  BY DEF IInv, PubGetValue, TypeOK, LockInv, InSection
<1>3. CursorInv'
  BY DEF IInv, PubGetValue, TypeOK, CursorInv
<1>4. ListInv'
  <2>1. Linked' = Linked
    BY DEF PubGetValue, Linked
  <2>2. QED
    BY <2>1 DEF IInv, ListInv, PubGetValue, TypeOK
<1>5. SemInv'
  BY DEF IInv, PubGetValue, TypeOK, SemInv, SemBinary, CursorInv, LockInv, InSection
<1>6. DataInv'
  BY DEF IInv, PubGetValue, TypeOK, DataInv
<1>7. SeenInv'
  BY DEF IInv, PubGetValue, TypeOK, SeenInv, Seen
<1>8. FreshInv'
  <2> SUFFICES ASSUME NEW i \in 1 .. Len(link),
                      renewal[link[i]] = 0, Seen(link[i]) # seq
               PROVE  \E q \in Publishers : StillToMark(q, i)'
    BY DEF FreshInv, PubGetValue, Seen
  <2>1. PICK q \in Publishers : StillToMark(q, i)
    BY DEF IInv, FreshInv
  <2>2. StillToMark(q, i)'
    BY <2>1 DEF IInv, StillToMark, PubGetValue, TypeOK
  <2>3. QED
    BY <2>2
<1>9. NoLostWakeup'
  <2> SUFFICES ASSUME NEW n \in SyncReaders, renewal[n] = 1,
                      sem'[n] # 1, rpc[n] # "copy"
               PROVE  \E q \in Publishers :
                        /\ cur'[q] \in 1 .. Len(link)
                        /\ link[cur'[q]] = n
                        /\ \/ ppc'[q] = "getvalue"
                           \/ ppc'[q] = "post" /\ semVal'[q] = 0
    BY DEF NoLostWakeup, PubGetValue
  <2>0. /\ cur[p] \in 1 .. Len(link) /\ link[cur[p]] \in SyncReaders
        /\ sem[link[cur[p]]] \in {0, 1}
    <3>1. cur[p] \in 1 .. Len(link) /\ link[cur[p]] \in SyncReaders
      BY DEF IInv, CursorInv, PubGetValue
    <3>2. QED
      BY <3>1 DEF IInv, TypeOK, SemInv, SemBinary
  <2>1. PICK q \in Publishers :
          /\ cur[q] \in 1 .. Len(link) /\ link[cur[q]] = n
          /\ ppc[q] = "getvalue" \/ (ppc[q] = "post" /\ semVal[q] = 0)
    BY DEF IInv, NoLostWakeup, PubGetValue
  <2>2. CASE q = p
    BY <2>0, <2>1, <2>2 DEF IInv, PubGetValue, TypeOK
  <2>3. CASE q # p
    BY <2>1, <2>3 DEF IInv, PubGetValue, TypeOK
  <2>4. QED
    BY <2>2, <2>3
<1>10. NoTornSample'
  BY DEF IInv, PubGetValue, TypeOK, NoTornSample
<1>11. QED
  BY <1>1, <1>2, <1>3, <1>4, <1>5, <1>6, <1>7, <1>8, <1>9, <1>10 DEF IInv

\* The post, and the step to the next node.
LEMMA PubPostKeeps ==
  ASSUME IInv, NEW p \in Publishers, PubPost(p)
  PROVE  IInv'
<1> USE NodeKinds, Bounds
    DEF topicVars, listVars, nodeVars, pubVars, Nodes, Readers
<1>1. TypeOK'
  BY DEF IInv, PubPost, TypeOK, CursorInv, NextNode, NoNode, StrayNode, PubPC
<1>2. LockInv'
  BY DEF IInv, PubPost, TypeOK, LockInv, InSection
<1>3. CursorInv'
  BY DEF IInv, PubPost, TypeOK, CursorInv, NextNode, NoNode, StrayNode
<1>4. ListInv'
  <2>1. Linked' = Linked
    BY DEF PubPost, Linked
  <2>2. QED
    BY <2>1 DEF IInv, ListInv, PubPost, TypeOK
<1>5. SemInv'
  BY DEF IInv, PubPost, TypeOK, SemInv, SemBinary, CursorInv, LockInv, InSection
<1>6. DataInv'
  BY DEF IInv, PubPost, TypeOK, DataInv
<1>7. SeenInv'
  BY DEF IInv, PubPost, TypeOK, SeenInv, Seen
<1>8. FreshInv'
  <2> SUFFICES ASSUME NEW i \in 1 .. Len(link),
                      renewal[link[i]] = 0, Seen(link[i]) # seq
               PROVE  \E q \in Publishers : StillToMark(q, i)'
    BY DEF FreshInv, PubPost, Seen
  <2>1. PICK q \in Publishers : StillToMark(q, i)
    BY DEF IInv, FreshInv
  <2>2. q = p
    BY <2>1 DEF StillToMark, IInv, LockInv, InSection, PubPost
  <2>3. cur[p] < i /\ cur[p] < Len(link) /\ cur[p] \in 1 .. Len(link)
    BY <2>1, <2>2 DEF StillToMark, PubPost, IInv, CursorInv, TypeOK
  <2>4. StillToMark(p, i)'
    BY <2>3 DEF IInv, StillToMark, PubPost, NextNode, TypeOK
  <2>5. QED
    BY <2>4
<1>9. NoLostWakeup'
  <2> SUFFICES ASSUME NEW n \in SyncReaders, renewal[n] = 1,
                      sem'[n] # 1, rpc[n] # "copy"
               PROVE  \E q \in Publishers :
                        /\ cur'[q] \in 1 .. Len(link)
                        /\ link[cur'[q]] = n
                        /\ \/ ppc'[q] = "getvalue"
                           \/ ppc'[q] = "post" /\ semVal'[q] = 0
    BY DEF NoLostWakeup, PubPost
  <2>0. /\ cur[p] \in 1 .. Len(link) /\ link[cur[p]] \in SyncReaders
        /\ sem[link[cur[p]]] \in {0, 1}
    <3>1. cur[p] \in 1 .. Len(link) /\ link[cur[p]] \in SyncReaders
      BY DEF IInv, CursorInv, PubPost
    <3>2. QED
      BY <3>1 DEF IInv, TypeOK, SemInv, SemBinary
  <2>1. sem[n] # 1
    BY <2>0 DEF IInv, TypeOK, SemInv, PubPost
  <2>2. PICK q \in Publishers :
          /\ cur[q] \in 1 .. Len(link) /\ link[cur[q]] = n
          /\ ppc[q] = "getvalue" \/ (ppc[q] = "post" /\ semVal[q] = 0)
    BY <2>1 DEF IInv, NoLostWakeup
  <2>3. q # p
    BY <2>0, <2>2 DEF IInv, TypeOK, SemInv, PubPost
  <2>4. QED
    BY <2>2, <2>3 DEF IInv, PubPost, TypeOK
<1>10. NoTornSample'
  BY DEF IInv, PubPost, TypeOK, NoTornSample
<1>11. QED
  BY <1>1, <1>2, <1>3, <1>4, <1>5, <1>6, <1>7, <1>8, <1>9, <1>10 DEF IInv

\* The end of the list: every node was marked.
LEMMA PubUnlockKeeps ==
  ASSUME IInv, NEW p \in Publishers, PubUnlock(p)
  PROVE  IInv'
<1> USE NodeKinds, Bounds
    DEF topicVars, listVars, nodeVars, pubVars, Nodes, Readers
<1>1. TypeOK'
  BY DEF IInv, PubUnlock, TypeOK, PubPC
<1>2. LockInv'
  BY DEF IInv, PubUnlock, TypeOK, LockInv, InSection
<1>3. CursorInv'
  BY DEF IInv, PubUnlock, TypeOK, CursorInv
<1>4. ListInv'
  <2>1. Linked' = Linked
    BY DEF PubUnlock, Linked
  <2>2. QED
    BY <2>1 DEF IInv, ListInv, PubUnlock, TypeOK
<1>5. SemInv'
  BY DEF IInv, PubUnlock, TypeOK, SemInv, SemBinary
<1>6. DataInv'
  BY DEF IInv, PubUnlock, TypeOK, DataInv
<1>7. SeenInv'
  BY DEF IInv, PubUnlock, TypeOK, SeenInv, Seen, LockInv, InSection
<1>8. FreshInv'
  BY DEF IInv, PubUnlock, TypeOK, FreshInv, StillToMark, Seen, LockInv, InSection, NoNode
<1>9. NoLostWakeup'
  BY DEF IInv, PubUnlock, TypeOK, NoLostWakeup
<1>10. NoTornSample'
  BY DEF IInv, PubUnlock, TypeOK, NoTornSample
<1>11. QED
  BY <1>1, <1>2, <1>3, <1>4, <1>5, <1>6, <1>7, <1>8, <1>9, <1>10 DEF IInv

\* The walk over the callbacks.
LEMMA PubRestartKeeps ==
  ASSUME IInv, NEW p \in Publishers, PubRestart(p)
  PROVE  IInv'
<1> USE NodeKinds, Bounds
    DEF topicVars, listVars, nodeVars, pubVars, Nodes, Readers
<1>1. TypeOK'
  BY DEF IInv, PubRestart, TypeOK, PubPC, FirstNode, NoNode
<1>2. LockInv'
  BY DEF IInv, PubRestart, TypeOK, LockInv, InSection
<1>3. CursorInv'
  BY DEF IInv, PubRestart, TypeOK, CursorInv, FirstNode, NoNode
<1>4. ListInv'
  <2>1. Linked' = Linked
    BY DEF PubRestart, Linked
  <2>2. QED
    BY <2>1 DEF IInv, ListInv, PubRestart, TypeOK
<1>5. SemInv'
  BY DEF IInv, PubRestart, TypeOK, SemInv, SemBinary
<1>6. DataInv'
  BY DEF IInv, PubRestart, TypeOK, DataInv
<1>7. SeenInv'
  BY DEF IInv, PubRestart, TypeOK, SeenInv, Seen
<1>8. FreshInv'
  BY DEF IInv, PubRestart, TypeOK, FreshInv, StillToMark, Seen
<1>9. NoLostWakeup'
  BY DEF IInv, PubRestart, TypeOK, NoLostWakeup
<1>10. NoTornSample'
  BY DEF IInv, PubRestart, TypeOK, NoTornSample
<1>11. QED
  BY <1>1, <1>2, <1>3, <1>4, <1>5, <1>6, <1>7, <1>8, <1>9, <1>10 DEF IInv

\* A callback is handed the sample that is newest by now.
LEMMA PubCallKeeps ==
  ASSUME IInv, NEW p \in Publishers, PubCall(p)
  PROVE  IInv'
<1> USE NodeKinds, Bounds
    DEF topicVars, listVars, nodeVars, pubVars, Nodes, Readers
<1>1. TypeOK'
  BY DEF IInv, PubCall, TypeOK, NextNode, NoNode, StrayNode
<1>2. LockInv'
  BY DEF IInv, PubCall, TypeOK, LockInv, InSection
<1>3. CursorInv'
  BY DEF IInv, PubCall, TypeOK, CursorInv, NextNode, NoNode, StrayNode
<1>4. ListInv'
  <2>1. Linked' = Linked
    BY DEF PubCall, Linked
  <2>2. cur[p] \in 1 .. Len(link) /\ link[cur[p]] \in Linked
    BY DEF PubCall, Linked, IInv, CursorInv
  <2>3. QED
    BY <2>1, <2>2 DEF IInv, ListInv, PubCall, TypeOK
<1>5. SemInv'
  BY DEF IInv, PubCall, TypeOK, SemInv, SemBinary
<1>6. DataInv'
  BY DEF IInv, PubCall, TypeOK, DataInv
<1>7. SeenInv'
  BY DEF IInv, PubCall, TypeOK, SeenInv, Seen, DataInv, CursorInv
<1>8. FreshInv'
  <2> SUFFICES ASSUME NEW i \in 1 .. Len(link),
                      renewal[link[i]] = 0, Seen(link[i])' # seq
               PROVE  \E q \in Publishers : StillToMark(q, i)'
    BY DEF FreshInv, PubCall, Seen
  <2>1. Seen(link[i]) # seq
    BY DEF PubCall, Seen, IInv, DataInv, SeenInv, TypeOK, CursorInv, Sample
  <2>2. PICK q \in Publishers : StillToMark(q, i)
    BY <2>1 DEF IInv, FreshInv
  <2>3. StillToMark(q, i)'
    BY <2>2 DEF IInv, StillToMark, PubCall, TypeOK
  <2>4. QED
    BY <2>3
<1>9. NoLostWakeup'
  <2>1. /\ \A q \in Publishers \ {p} : cur'[q] = cur[q]
        /\ ppc[p] \notin {"getvalue", "post"}
    BY DEF IInv, TypeOK, PubCall
  <2>2. UNCHANGED <<link, renewal, sem, rpc, ppc, semVal>>
    BY DEF PubCall
  <2>3. QED
    BY <2>1, <2>2 DEF IInv, NoLostWakeup
<1>10. NoTornSample'
  BY DEF IInv, PubCall, TypeOK, NoTornSample, CursorInv
<1>11. QED
  BY <1>1, <1>2, <1>3, <1>4, <1>5, <1>6, <1>7, <1>8, <1>9, <1>10 DEF IInv

\* deu_publish returns.
LEMMA PubReturnKeeps ==
  ASSUME IInv, NEW p \in Publishers, PubReturn(p)
  PROVE  IInv'
<1> USE NodeKinds, Bounds
    DEF topicVars, listVars, nodeVars, pubVars, Nodes, Readers
<1>1. TypeOK'
  BY DEF IInv, PubReturn, TypeOK, PubPC
<1>2. LockInv'
  BY DEF IInv, PubReturn, TypeOK, LockInv, InSection
<1>3. CursorInv'
  BY DEF IInv, PubReturn, TypeOK, CursorInv
<1>4. ListInv'
  <2>1. Linked' = Linked
    BY DEF PubReturn, Linked
  <2>2. QED
    BY <2>1 DEF IInv, ListInv, PubReturn, TypeOK
<1>5. SemInv'
  BY DEF IInv, PubReturn, TypeOK, SemInv, SemBinary
<1>6. DataInv'
  BY DEF IInv, PubReturn, TypeOK, DataInv
<1>7. SeenInv'
  BY DEF IInv, PubReturn, TypeOK, SeenInv, Seen
<1>8. FreshInv'
  <2> SUFFICES ASSUME NEW i \in 1 .. Len(link),
                      renewal[link[i]] = 0, Seen(link[i])' # seq
               PROVE  \E q \in Publishers : StillToMark(q, i)'
    BY DEF FreshInv, PubReturn, Seen
  <2>1. Seen(link[i]) # seq
    BY DEF PubReturn, Seen, IInv, DataInv, SeenInv, TypeOK, CursorInv, Sample
  <2>2. PICK q \in Publishers : StillToMark(q, i)
    BY <2>1 DEF IInv, FreshInv
  <2>3. StillToMark(q, i)'
    BY <2>2 DEF IInv, StillToMark, PubReturn, TypeOK
  <2>4. QED
    BY <2>3
<1>9. NoLostWakeup'
  BY DEF IInv, PubReturn, TypeOK, NoLostWakeup
<1>10. NoTornSample'
  BY DEF IInv, PubReturn, TypeOK, NoTornSample
<1>11. QED
  BY <1>1, <1>2, <1>3, <1>4, <1>5, <1>6, <1>7, <1>8, <1>9, <1>10 DEF IInv

\* deu_subscribe refuses.
LEMMA SubFullKeeps ==
  ASSUME IInv, NEW n \in Nodes, SubFull(n)
  PROVE  IInv'
<1> USE NodeKinds, Bounds
    DEF topicVars, listVars, nodeVars, pubVars, Nodes, Readers
<1>1. TypeOK'
  BY DEF IInv, SubFull, TypeOK, SubPC
<1>2. LockInv'
  BY DEF IInv, SubFull, TypeOK, LockInv, InSection
<1>3. CursorInv'
  BY DEF IInv, SubFull, TypeOK, CursorInv
<1>4. ListInv'
  <2>1. Linked' = Linked
    BY DEF SubFull, Linked
  <2>2. QED
    BY <2>1 DEF IInv, ListInv, SubFull, TypeOK
<1>5. SemInv'
  BY DEF IInv, SubFull, TypeOK, SemInv, SemBinary
<1>6. DataInv'
  BY DEF IInv, SubFull, TypeOK, DataInv
<1>7. SeenInv'
  BY DEF IInv, SubFull, TypeOK, SeenInv, Seen
<1>8. FreshInv'
  BY DEF IInv, SubFull, TypeOK, FreshInv, StillToMark, Seen
<1>9. NoLostWakeup'
  BY DEF IInv, SubFull, TypeOK, NoLostWakeup
<1>10. NoTornSample'
  BY DEF IInv, SubFull, TypeOK, NoTornSample
<1>11. QED
  BY <1>1, <1>2, <1>3, <1>4, <1>5, <1>6, <1>7, <1>8, <1>9, <1>10 DEF IInv

\* deu_subscribe fails.
LEMMA SubNoMemoryKeeps ==
  ASSUME IInv, NEW n \in Nodes, SubNoMemory(n)
  PROVE  IInv'
<1> USE NodeKinds, Bounds
    DEF topicVars, listVars, nodeVars, pubVars, Nodes, Readers
<1>1. TypeOK'
  BY DEF IInv, SubNoMemory, TypeOK, SubPC
<1>2. LockInv'
  BY DEF IInv, SubNoMemory, TypeOK, LockInv, InSection
<1>3. CursorInv'
  BY DEF IInv, SubNoMemory, TypeOK, CursorInv
<1>4. ListInv'
  <2>1. Linked' = Linked
    BY DEF SubNoMemory, Linked
  <2>2. QED
    BY <2>1 DEF IInv, ListInv, SubNoMemory, TypeOK
<1>5. SemInv'
  BY DEF IInv, SubNoMemory, TypeOK, SemInv, SemBinary
<1>6. DataInv'
  BY DEF IInv, SubNoMemory, TypeOK, DataInv
<1>7. SeenInv'
  BY DEF IInv, SubNoMemory, TypeOK, SeenInv, Seen
<1>8. FreshInv'
  BY DEF IInv, SubNoMemory, TypeOK, FreshInv, StillToMark, Seen
<1>9. NoLostWakeup'
  BY DEF IInv, SubNoMemory, TypeOK, NoLostWakeup
<1>10. NoTornSample'
  BY DEF IInv, SubNoMemory, TypeOK, NoTornSample
<1>11. QED
  BY <1>1, <1>2, <1>3, <1>4, <1>5, <1>6, <1>7, <1>8, <1>9, <1>10 DEF IInv

\* A node is made, but not linked.
LEMMA SubCheckKeeps ==
  ASSUME IInv, NEW n \in Nodes, SubCheck(n)
  PROVE  IInv'
<1> USE NodeKinds, Bounds
    DEF topicVars, listVars, nodeVars, pubVars, Nodes, Readers
<1>1. TypeOK'
  BY DEF IInv, SubCheck, TypeOK, SubPC
<1>2. LockInv'
  BY DEF IInv, SubCheck, TypeOK, LockInv, InSection
<1>3. CursorInv'
  BY DEF IInv, SubCheck, TypeOK, CursorInv
<1>4. ListInv'
  <2>1. Linked' = Linked
    BY DEF SubCheck, Linked
  <2>2. QED
    BY <2>1 DEF IInv, ListInv, SubCheck, TypeOK
<1>5. SemInv'
  BY DEF IInv, SubCheck, TypeOK, SemInv, SemBinary
<1>6. DataInv'
  BY DEF IInv, SubCheck, TypeOK, DataInv
<1>7. SeenInv'
  BY DEF IInv, SubCheck, TypeOK, SeenInv, Seen, ListInv, Linked
<1>8. FreshInv'
  <2>1. n \notin Linked
    BY DEF IInv, ListInv, SubCheck
  <2>2. \A i \in 1 .. Len(link) : link[i] # n
    BY <2>1 DEF Linked
  <2>3. QED
    BY <2>2 DEF IInv, FreshInv, StillToMark, Seen, SubCheck, TypeOK
<1>9. NoLostWakeup'
  BY DEF IInv, SubCheck, TypeOK, NoLostWakeup
<1>10. NoTornSample'
  BY DEF IInv, SubCheck, TypeOK, NoTornSample
<1>11. QED
  BY <1>1, <1>2, <1>3, <1>4, <1>5, <1>6, <1>7, <1>8, <1>9, <1>10 DEF IInv

\* The node joins the list, up to date.
LEMMA SubLinkKeeps ==
  ASSUME IInv, NEW n \in Nodes, SubLink(n)
  PROVE  IInv'
<1> USE NodeKinds, Bounds
    DEF topicVars, listVars, nodeVars, pubVars, Nodes, Readers
<1>0. /\ n \notin Linked /\ mutex = NULL
      /\ Len(link') = Len(link) + 1 /\ link'[Len(link) + 1] = n
      /\ \A i \in 1 .. Len(link) : link'[i] = link[i] /\ link[i] # n
      /\ \A i \in 1 .. Len(link') : i \in 1 .. Len(link) \/ i = Len(link) + 1
  <2>1. n \notin Linked
    BY DEF IInv, ListInv, SubLink
  <2>2. \A i \in 1 .. Len(link) : link[i] # n
    BY <2>1 DEF Linked
  <2>3. QED
    BY <2>1, <2>2 DEF IInv, TypeOK, SubLink
<1>1. TypeOK'
  BY DEF IInv, SubLink, TypeOK, SubPC
<1>2. LockInv'
  BY DEF IInv, SubLink, TypeOK, LockInv, InSection
<1>3. CursorInv'
  BY <1>0 DEF IInv, CursorInv, SubLink, TypeOK
<1>4. ListInv'
  <2>1. Linked' = Linked \cup {n}
    BY <1>0 DEF Linked
  <2>2. QED
    BY <1>0, <2>1 DEF IInv, ListInv, SubLink, TypeOK
<1>5. SemInv'
  BY <1>0 DEF IInv, CursorInv, SemInv, SemBinary, SubLink, TypeOK
<1>6. DataInv'
  BY DEF IInv, SubLink, TypeOK, DataInv
<1>7. SeenInv'
  BY <1>0 DEF IInv, SeenInv, ListInv, Seen, Zero, SubLink, TypeOK
<1>8. FreshInv'
  BY <1>0 DEF IInv, FreshInv, StillToMark, Seen, Zero, ListInv, SubLink, TypeOK
<1>9. NoLostWakeup'
  BY <1>0 DEF IInv, NoLostWakeup, SubLink, TypeOK
<1>10. NoTornSample'
  BY DEF IInv, SubLink, TypeOK, NoTornSample
<1>11. QED
  BY <1>1, <1>2, <1>3, <1>4, <1>5, <1>6, <1>7, <1>8, <1>9, <1>10 DEF IInv

\* Its callback may run at once.
LEMMA SubReturnKeeps ==
  ASSUME IInv, NEW n \in Nodes, SubReturn(n)
  PROVE  IInv'
<1> USE NodeKinds, Bounds
    DEF topicVars, listVars, nodeVars, pubVars, Nodes, Readers
<1>1. TypeOK'
  BY DEF IInv, SubReturn, TypeOK, SubPC
<1>2. LockInv'
  BY DEF IInv, SubReturn, TypeOK, LockInv, InSection
<1>3. CursorInv'
  BY DEF IInv, SubReturn, TypeOK, CursorInv
<1>4. ListInv'
  <2>1. Linked' = Linked
    BY DEF SubReturn, Linked
  <2>2. QED
    BY <2>1 DEF IInv, ListInv, SubReturn, TypeOK
<1>5. SemInv'
  BY DEF IInv, SubReturn, TypeOK, SemInv, SemBinary
<1>6. DataInv'
  BY DEF IInv, SubReturn, TypeOK, DataInv
<1>7. SeenInv'
  BY DEF IInv, SubReturn, TypeOK, SeenInv, Seen, DataInv
<1>8. FreshInv'
  BY DEF IInv, SubReturn, TypeOK, FreshInv, StillToMark, Seen, DataInv, SeenInv
<1>9. NoLostWakeup'
  BY DEF IInv, SubReturn, TypeOK, NoLostWakeup
<1>10. NoTornSample'
  BY DEF IInv, SubReturn, TypeOK, NoTornSample
<1>11. QED
  BY <1>1, <1>2, <1>3, <1>4, <1>5, <1>6, <1>7, <1>8, <1>9, <1>10 DEF IInv

\* A waiter is woken.
LEMMA SemWaitKeeps ==
  ASSUME IInv, NEW n \in Nodes, SemWait(n)
  PROVE  IInv'
<1> USE NodeKinds, Bounds
    DEF topicVars, listVars, nodeVars, pubVars, Nodes, Readers
<1>1. TypeOK'
  BY DEF IInv, SemWait, TypeOK, SubPC
<1>2. LockInv'
  BY DEF IInv, SemWait, TypeOK, LockInv, InSection
<1>3. CursorInv'
  BY DEF IInv, SemWait, TypeOK, CursorInv
<1>4. ListInv'
  <2>1. Linked' = Linked
    BY DEF SemWait, Linked
  <2>2. QED
    BY <2>1 DEF IInv, ListInv, SemWait, TypeOK
<1>5. SemInv'
  BY DEF IInv, SemWait, TypeOK, SemInv, SemBinary, CursorInv, LockInv, InSection
<1>6. DataInv'
  BY DEF IInv, SemWait, TypeOK, DataInv
<1>7. SeenInv'
  BY DEF IInv, SemWait, TypeOK, SeenInv, Seen
<1>8. FreshInv'
  BY DEF IInv, SemWait, TypeOK, FreshInv, StillToMark, Seen
<1>9. NoLostWakeup'
  BY DEF IInv, SemWait, TypeOK, NoLostWakeup
<1>10. NoTornSample'
  BY DEF IInv, SemWait, TypeOK, NoTornSample
<1>11. QED
  BY <1>1, <1>2, <1>3, <1>4, <1>5, <1>6, <1>7, <1>8, <1>9, <1>10 DEF IInv

\* deu_poll finds its flag set.
LEMMA PollCheckKeeps ==
  ASSUME IInv, NEW n \in Nodes, PollCheck(n)
  PROVE  IInv'
<1> USE NodeKinds, Bounds
    DEF topicVars, listVars, nodeVars, pubVars, Nodes, Readers
<1>1. TypeOK'
  BY DEF IInv, PollCheck, TypeOK, SubPC
<1>2. LockInv'
  BY DEF IInv, PollCheck, TypeOK, LockInv, InSection
<1>3. CursorInv'
  BY DEF IInv, PollCheck, TypeOK, CursorInv
<1>4. ListInv'
  <2>1. Linked' = Linked
    BY DEF PollCheck, Linked
  <2>2. QED
    BY <2>1 DEF IInv, ListInv, PollCheck, TypeOK
<1>5. SemInv'
  BY DEF IInv, PollCheck, TypeOK, SemInv, SemBinary
<1>6. DataInv'
  BY DEF IInv, PollCheck, TypeOK, DataInv
<1>7. SeenInv'
  BY DEF IInv, PollCheck, TypeOK, SeenInv, Seen
<1>8. FreshInv'
  BY DEF IInv, PollCheck, TypeOK, FreshInv, StillToMark, Seen
<1>9. NoLostWakeup'
  BY DEF IInv, PollCheck, TypeOK, NoLostWakeup
<1>10. NoTornSample'
  BY DEF IInv, PollCheck, TypeOK, NoTornSample
<1>11. QED
  BY <1>1, <1>2, <1>3, <1>4, <1>5, <1>6, <1>7, <1>8, <1>9, <1>10 DEF IInv

\* A reader copies the sample out and clears its flag.
LEMMA PollCopyKeeps ==
  ASSUME IInv, NEW n \in Nodes, PollCopy(n)
  PROVE  IInv'
<1> USE NodeKinds, Bounds
    DEF topicVars, listVars, nodeVars, pubVars, Nodes, Readers
<1>1. TypeOK'
  BY DEF IInv, PollCopy, TypeOK, SubPC
<1>2. LockInv'
  BY DEF IInv, PollCopy, TypeOK, LockInv, InSection
<1>3. CursorInv'
  BY DEF IInv, PollCopy, TypeOK, CursorInv
<1>4. ListInv'
  <2>1. Linked' = Linked
    BY DEF PollCopy, Linked
  <2>2. QED
    BY <2>1 DEF IInv, ListInv, PollCopy, TypeOK
<1>5. SemInv'
  BY DEF IInv, PollCopy, TypeOK, SemInv, SemBinary
<1>6. DataInv'
  BY DEF IInv, PollCopy, TypeOK, DataInv
<1>7. SeenInv'
  BY DEF IInv, PollCopy, TypeOK, SeenInv, Seen, DataInv
<1>8. FreshInv'
  BY DEF IInv, PollCopy, TypeOK, FreshInv, StillToMark, Seen, DataInv, SeenInv
<1>9. NoLostWakeup'
  BY DEF IInv, PollCopy, TypeOK, NoLostWakeup
<1>10. NoTornSample'
  BY DEF IInv, PollCopy, TypeOK, NoTornSample, DataInv, LockInv, InSection
<1>11. QED
  BY <1>1, <1>2, <1>3, <1>4, <1>5, <1>6, <1>7, <1>8, <1>9, <1>10 DEF IInv

\* Every step of a behaviour keeps the invariant.
LEMMA NextKeeps == IInv /\ [Next]_vars => IInv'
<1> SUFFICES ASSUME IInv, [Next]_vars PROVE IInv'
  OBVIOUS
<1>1. ASSUME NEW p \in Publishers, Publish(p) PROVE IInv'
  BY <1>1, PubLockKeeps, PubCopyKeeps, PubMarkKeeps, PubGetValueKeeps,
     PubPostKeeps, PubUnlockKeeps, PubRestartKeeps, PubCallKeeps,
     PubReturnKeeps DEF Publish
<1>2. ASSUME NEW n \in Nodes, Subscribe(n) PROVE IInv'
  BY <1>2, SubFullKeeps, SubNoMemoryKeeps, SubCheckKeeps, SubLinkKeeps,
     SubReturnKeeps DEF Subscribe
<1>3. ASSUME NEW n \in Nodes, Poll(n) PROVE IInv'
  BY <1>3, SemWaitKeeps, PollCheckKeeps, PollCopyKeeps DEF Poll
<1>4. CASE UNCHANGED vars
  BY <1>4 DEF vars, topicVars, listVars, nodeVars, pubVars, IInv, TypeOK,
     LockInv, InSection, CursorInv, ListInv, Linked, SemInv, SemBinary,
     DataInv, SeenInv, Seen, FreshInv, StillToMark, NoLostWakeup, NoTornSample
<1>5. QED
  BY <1>1, <1>2, <1>3, <1>4 DEF Next

\* The invariant holds throughout.
THEOREM Inductive == Spec => []IInv
  BY InitEstablishes, NextKeeps, PTL DEF Spec

\* Every variable keeps its type.
THEOREM TypeCorrect == Spec => []TypeOK
<1>1. IInv => TypeOK
  BY DEF IInv
<1>2. QED
  BY <1>1, Inductive, PTL

\* sem_getvalue followed by sem_post never counts a semaphore past 1, however
\* publishers and waiters interleave.
THEOREM SemaphoreIsBinary == Spec => []SemBinary
<1>1. IInv => SemBinary
  BY DEF IInv, SemInv
<1>2. QED
  BY <1>1, Inductive, PTL

\* No waiter sleeps beside an unread sample.
THEOREM NoWakeupLost == Spec => []NoLostWakeup
<1>1. IInv => NoLostWakeup
  BY DEF IInv
<1>2. QED
  BY <1>1, Inductive, PTL

\* Readers copy out whole samples.
THEOREM NoSampleTorn == Spec => []NoTornSample
<1>1. IInv => NoTornSample
  BY DEF IInv
<1>2. QED
  BY <1>1, Inductive, PTL

\* With the mutex free no publisher has a node left to mark, so the walk of
\* deu_publish passed over no node.
THEOREM NoSampleMissed == Spec => []NoMissedSample
<1>1. IInv => NoMissedSample
  <2> SUFFICES ASSUME IInv, mutex = NULL,
                      NEW i \in 1 .. Len(link), renewal[link[i]] = 0
               PROVE  Seen(link[i]) = seq
    BY DEF NoMissedSample, Linked
  <2>1. \A p \in Publishers : ~ InSection(p)
    BY NodeKinds DEF IInv, LockInv
  <2>2. \A p \in Publishers : ~ StillToMark(p, i)
    BY <2>1 DEF InSection, StillToMark
  <2>3. QED
    BY <2>2 DEF IInv, FreshInv
<1>2. QED
  BY <1>1, Inductive, PTL

\* A node that deu_poll finds marked stays marked until the copy, and a mark
\* means news: deu_poll hands out no sample twice.
THEOREM PollIsFresh == Spec => PollBringsNews
<1>1. IInv /\ [Next]_vars =>
        [\A n \in PollReaders :
           rpc[n] = "copy" /\ rpc'[n] = "ready" => got[n].lo < got'[n].lo]_vars
  <2> SUFFICES ASSUME IInv, [Next]_vars, NEW n \in PollReaders,
                      rpc[n] = "copy", rpc'[n] = "ready"
               PROVE  got[n].lo < got'[n].lo
    OBVIOUS
  <2>1. n \in Nodes
    BY DEF Nodes, Readers
  <2>2. CASE PollCopy(n)
    <3>1. got'[n].lo = seq
      BY <2>1, <2>2 DEF PollCopy, IInv, TypeOK, DataInv
    <3>2. Seen(n) < seq
      BY <2>1 DEF IInv, SeenInv, Readers
    <3>3. got[n] \in Sample /\ since[n] \in Nat
      BY <2>1 DEF IInv, TypeOK
    <3>4. got[n].lo <= Seen(n)
      BY <3>3 DEF Seen, Sample
    <3>5. seq \in Nat /\ Seen(n) \in Nat /\ got[n].lo \in Nat
      BY <3>3 DEF IInv, TypeOK, Seen, Sample
    <3>6. QED
      BY <3>1, <3>2, <3>4, <3>5
  <2>3. ASSUME NEW p \in Publishers, Publish(p) PROVE FALSE
    BY <2>3 DEF Publish, PubLock, PubCopy, PubMark, PubGetValue, PubPost,
                PubUnlock, PubRestart, PubCall, PubReturn
  <2>4. ASSUME NEW m \in Nodes, Subscribe(m) PROVE FALSE
    BY <2>1, <2>4 DEF Subscribe, SubFull, SubNoMemory, SubCheck, SubLink,
                      SubReturn, IInv, TypeOK
  <2>5. ASSUME NEW m \in Nodes, Poll(m) PROVE m = n /\ PollCopy(m)
    BY <2>1, <2>5 DEF Poll, SemWait, PollCheck, PollCopy, IInv, TypeOK
  <2>6. ASSUME NEW m \in Nodes, Poll(m) PROVE PollCopy(n)
    BY <2>5, <2>6
  <2>7. CASE UNCHANGED vars
    BY <2>7 DEF vars
  <2>8. QED
    BY <2>2, <2>3, <2>4, <2>6, <2>7 DEF Next
<1>2. QED
  BY <1>1, Inductive, PTL DEF Spec, PollBringsNews

\* The exchange implements the mailbox: PubUnlock is its Publish, SubLink its
\* Join, PollCopy its Read, and no other step is visible.
THEOREM MailboxImplemented == Spec => IsMailbox
<1> USE NodeKinds DEF Nodes
<1>1. Init => Box!Init
  BY DEF Init, Box!Init, InLock, Linked, Seen, Zero, Readers
<1>2. IInv /\ [Next]_vars => [Box!Next]_(Box!vars)
  <2> SUFFICES ASSUME IInv, [Next]_vars
               PROVE  Box!Next \/ UNCHANGED Box!vars
    OBVIOUS
  <2> DEFINE latest  == IF InLock THEN seq - 1 ELSE seq
             members == Linked \cap Readers
             seen    == [n \in Readers |-> Seen(n)]
  <2>1. ASSUME NEW p \in Publishers, PubLock(p) PROVE UNCHANGED Box!vars
    <3>1. UNCHANGED <<members, seen>>
      BY <2>1 DEF PubLock, listVars, nodeVars, Linked, Seen
    <3>2. UNCHANGED latest
      <4>1. mutex = NULL /\ mutex' # NULL /\ seq' = seq + 1 /\ seq \in Nat
        BY <2>1 DEF PubLock, IInv, TypeOK
      <4>2. QED
        BY <4>1 DEF InLock
    <3>3. QED
      BY <3>1, <3>2 DEF Box!vars
  <2>2. ASSUME NEW p \in Publishers, PubUnlock(p) PROVE Box!Next
    <3>1. UNCHANGED <<members, seen>>
      BY <2>2 DEF PubUnlock, listVars, nodeVars, Linked, Seen
    <3>2. latest' = latest + 1
      BY <2>2 DEF PubUnlock, InLock, IInv, TypeOK, LockInv, InSection
    <3>3. QED
      BY <3>1, <3>2 DEF Box!Next, Box!Publish
  <2>3. ASSUME NEW p \in Publishers, PubCall(p) PROVE UNCHANGED Box!vars
    <3>1. \A n \in Readers : got'[n] = got[n]
      BY <2>3 DEF PubCall, IInv, TypeOK
    <3>2. QED
      BY <3>1, <2>3 DEF PubCall, topicVars, listVars, Linked, Seen, InLock,
                        Box!vars
  <2>4. ASSUME NEW p \in Publishers,
               \/ PubCopy(p) \/ PubMark(p) \/ PubGetValue(p) \/ PubPost(p)
               \/ PubRestart(p) \/ PubReturn(p)
        PROVE  UNCHANGED Box!vars
    BY <2>4 DEF PubCopy, PubMark, PubGetValue, PubPost, PubRestart, PubReturn,
                topicVars, listVars, nodeVars, Linked, Seen, InLock, Box!vars
  <2>5. ASSUME NEW n \in Nodes, SubLink(n)
        PROVE  Box!Next \/ UNCHANGED Box!vars
    <3>1. n \notin Linked /\ Linked' = Linked \cup {n} /\ mutex = NULL
      <4>1. n \notin Linked /\ mutex = NULL
        BY <2>5 DEF SubLink, IInv, ListInv
      <4>2. Linked' = Linked \cup {n}
        <5>1. link' = Append(link, n) /\ link \in Seq(Nodes)
          BY <2>5 DEF SubLink, IInv, TypeOK
        <5>2. /\ Len(link') = Len(link) + 1 /\ link'[Len(link) + 1] = n
              /\ \A i \in 1 .. Len(link) : link'[i] = link[i]
              /\ \A i \in 1 .. Len(link') : i \in 1 .. Len(link) \/ i = Len(link) + 1
              /\ Len(link) \in Nat
          BY <5>1
        <5>3. QED
          BY <5>2 DEF Linked
      <4>3. QED
        BY <4>1, <4>2
    <3>2. UNCHANGED latest
      BY <2>5 DEF SubLink, topicVars, InLock
    <3>3. CASE n \in Readers
      <4>1. \A m \in Readers : Seen(m)' = IF m = n THEN seq ELSE Seen(m)
        BY <2>5, <3>1 DEF SubLink, Seen, nodeVars, IInv, TypeOK, ListInv, Zero
      <4>2. Box!Join(n)
        BY <3>1, <3>2, <3>3, <4>1, <2>5 DEF Box!Join, SubLink, InLock
      <4>3. QED
        BY <3>3, <4>2 DEF Box!Next
    <3>4. CASE n \notin Readers
      <4>1. UNCHANGED <<members, seen>>
        BY <2>5, <3>1, <3>4 DEF SubLink, Seen, nodeVars, IInv, TypeOK
      <4>2. QED
        BY <3>2, <4>1 DEF Box!vars
    <3>5. QED
      BY <3>3, <3>4
  <2>6. ASSUME NEW n \in Nodes, PollCopy(n) PROVE Box!Next
    <3>1. n \in Linked \cap Readers /\ mutex = NULL
      BY <2>6 DEF PollCopy, IInv, ListInv, SeenInv, Readers
    <3>2. UNCHANGED <<latest, members>>
      BY <2>6 DEF PollCopy, topicVars, listVars, InLock, Linked
    <3>3. \A m \in Readers : Seen(m)' = IF m = n THEN seq ELSE Seen(m)
      BY <2>6 DEF PollCopy, Seen, listVars, IInv, TypeOK, DataInv, SeenInv
    <3>4. Box!Read(n)
      BY <3>1, <3>2, <3>3 DEF Box!Read, InLock
    <3>5. QED
      BY <3>1, <3>4 DEF Box!Next
  <2>7. ASSUME NEW n \in Nodes, SubReturn(n) PROVE UNCHANGED Box!vars
    <3>1. \A m \in Readers : got'[m] = got[m]
      BY <2>7 DEF SubReturn, IInv, TypeOK
    <3>2. QED
      BY <3>1, <2>7 DEF SubReturn, topicVars, listVars, Linked, Seen, InLock,
                        Box!vars
  <2>8. ASSUME NEW n \in Nodes,
               \/ SubFull(n) \/ SubNoMemory(n) \/ SubCheck(n)
               \/ SemWait(n) \/ PollCheck(n)
        PROVE  UNCHANGED Box!vars
    BY <2>8 DEF SubFull, SubNoMemory, SubCheck, SemWait, PollCheck,
                topicVars, listVars, nodeVars, Linked, Seen, InLock, Box!vars
  <2>9. CASE UNCHANGED vars
    BY <2>9 DEF vars, topicVars, listVars, nodeVars, Linked, Seen, InLock,
                Box!vars
  <2>10. QED
    BY <2>1, <2>2, <2>3, <2>4, <2>5, <2>6, <2>7, <2>8, <2>9
       DEF Next, Publish, Subscribe, Poll
<1>3. QED
  BY <1>1, <1>2, Inductive, PTL DEF Spec, IsMailbox, Box!Spec
------------------------------------------------------------------------------
(* The callbacks, whose walk and whose first call run without the mutex.    *)

\* Publisher p has still to call the node at position i with the newest sample.
StillToCall(p, i) ==
  InSection(p) \/ ppc[p] = "callbacks" \/ (ppc[p] = "call" /\ cur[p] \in 1 .. i)

\* A callback node whose subscription returned was called with the newest
\* sample, or will be.
CalledInv ==
  \A i \in 1 .. Len(link) :
    link[i] \in CbReaders /\ rpc[link[i]] = "ready" =>
      got[link[i]] = [lo |-> seq, hi |-> seq] \/ \E p \in Publishers : StillToCall(p, i)

\* Before published is set nobody was called, and only a publisher that has
\* the mutex can have begun.
UnpublishedInv ==
  ~published =>
    /\ \A p \in Publishers : ppc[p] \notin {"callbacks", "call"}
    /\ \A n \in CbReaders : got[n] = Zero
    /\ seq = 0 \/ mutex # NULL

CallbackInv == CalledInv /\ UnpublishedInv

LEMMA CallbackInitially ==
  ASSUME Init
  PROVE  CallbackInv
<1> USE DEF Init, Nodes
<1>1. CalledInv
  BY DEF CalledInv
<1>2. UnpublishedInv
  BY DEF UnpublishedInv
<1>3. QED
  BY <1>1, <1>2 DEF CallbackInv

\* A publisher that has not yet begun the second walk will call every node.
LEMMA PublishingCalls ==
  ASSUME IInv, CallbackInv, NEW p \in Publishers,
         \/ PubLock(p) \/ PubCopy(p) \/ PubMark(p) \/ PubGetValue(p) \/ PubPost(p)
         \/ PubUnlock(p) \/ PubRestart(p)
  PROVE  CallbackInv'
<1> USE DEF topicVars, listVars, nodeVars, pubVars
<1>0. /\ ppc \in [Publishers -> PubPC] /\ cur \in [Publishers -> Int] /\ link \in Seq(Nodes)
      /\ mutex \in Publishers \cup {NULL}
  BY DEF IInv, TypeOK
<1>1. /\ UNCHANGED <<link, got>>
      /\ \A q \in Publishers \ {p} : ppc'[q] = ppc[q]
  BY <1>0 DEF PubLock, PubCopy, PubMark, PubGetValue, PubPost, PubUnlock, PubRestart
<1>2. ASSUME NEW i \in 1 .. Len(link)
      PROVE  StillToCall(p, i)'
  <2>1. CASE PubRestart(p)
    <3>1. cur'[p] = 1 /\ ppc'[p] = "call"
      BY <1>0, <2>1 DEF PubRestart, FirstNode
    <3>2. QED
      BY <3>1 DEF StillToCall
  <2>2. CASE ~PubRestart(p)
    BY <1>0, <2>2 DEF PubLock, PubCopy, PubMark, PubGetValue, PubPost, PubUnlock, StillToCall,
                      InSection
  <2>3. QED
    BY <2>1, <2>2
<1>3. CalledInv'
  BY <1>1, <1>2 DEF CalledInv
<1>4. UnpublishedInv'
  <2>1. CASE PubLock(p)
    <3>1. mutex' = p /\ p # NULL /\ ppc'[p] = "copy" /\ published' = published
      BY <1>0, <2>1, NodeKinds DEF PubLock
    <3>2. QED
      BY <1>1, <3>1 DEF CallbackInv, UnpublishedInv
  <2>2. CASE PubCopy(p) \/ PubMark(p) \/ PubGetValue(p) \/ PubPost(p)
    <3>1. /\ UNCHANGED <<mutex, seq, published>> /\ ppc'[p] \notin {"callbacks", "call"}
      BY <1>0, <2>2 DEF PubCopy, PubMark, PubGetValue, PubPost
    <3>2. QED
      BY <1>1, <3>1 DEF CallbackInv, UnpublishedInv
  <2>3. CASE PubUnlock(p)
    BY <2>3 DEF PubUnlock, UnpublishedInv
  <2>4. CASE PubRestart(p)
    <3>1. published /\ published' = published
      BY <2>4 DEF PubRestart, CallbackInv, UnpublishedInv
    <3>2. QED
      BY <3>1 DEF UnpublishedInv
  <2>5. QED
    BY <2>1, <2>2, <2>3, <2>4
<1>5. QED
  BY <1>3, <1>4 DEF CallbackInv

\* What a callback is handed is the newest sample, unless a publisher is just
\* copying a newer one, and then that one will call.
LEMMA DataOrCopying ==
  ASSUME IInv
  PROVE  data = [lo |-> seq, hi |-> seq] \/ \E q \in Publishers : ppc[q] = "copy"
<1>1. data \in Sample /\ data.lo = seq /\ (data.hi = seq \/ \E q \in Publishers : ppc[q] = "copy")
  BY DEF IInv, TypeOK, DataInv
<1>2. QED
  BY <1>1 DEF Sample

LEMMA PubCallCalls ==
  ASSUME IInv, CallbackInv, NEW p \in Publishers, PubCall(p)
  PROVE  CallbackInv'
<1> USE DEF topicVars, listVars, nodeVars, pubVars
<1>0. /\ ppc \in [Publishers -> PubPC] /\ cur \in [Publishers -> Int] /\ link \in Seq(Nodes)
      /\ got \in [Nodes -> Sample] /\ Len(link) \in Nat
  BY DEF IInv, TypeOK
<1>1. /\ ppc[p] = "call" /\ cur[p] \in 1 .. Len(link) /\ cur' = [cur EXCEPT ![p] = NextNode(cur[p])]
      /\ UNCHANGED <<mutex, seq, data, published, link, ppc, rpc>>
      /\ got' = IF link[cur[p]] \in CbReaders THEN [got EXCEPT ![link[cur[p]]] = data] ELSE got
  BY DEF PubCall, IInv, CursorInv
<1>2. published
  BY <1>1 DEF CallbackInv, UnpublishedInv
<1>3. ASSUME NEW i \in 1 .. Len(link), link[i] \in CbReaders, rpc[link[i]] = "ready"
      PROVE  \/ got'[link[i]] = [lo |-> seq, hi |-> seq]
             \/ \E q \in Publishers : StillToCall(q, i)'
  <2>1. link[i] \in Nodes
    BY <1>0
  <2>2. ASSUME NEW q \in Publishers, ppc[q] = "copy"
        PROVE  StillToCall(q, i)'
    BY <1>1, <2>2 DEF StillToCall, InSection
  <2>3. CASE link[cur[p]] = link[i]
    <3>1. got'[link[i]] = data
      BY <1>0, <1>1, <1>3, <2>1, <2>3
    <3>2. QED
      BY <3>1, <2>2, DataOrCopying
  <2>4. CASE link[cur[p]] # link[i]
    <3>1. got'[link[i]] = got[link[i]]
      BY <1>0, <1>1, <2>1, <2>4
    <3>2. ASSUME NEW q \in Publishers, StillToCall(q, i)
          PROVE  StillToCall(q, i)'
      <4>1. CASE q # p
        BY <1>0, <1>1, <3>2, <4>1 DEF StillToCall, InSection
      <4>2. CASE q = p
        <5>1. cur[p] < i
          BY <1>1, <2>4, <3>2, <4>2 DEF StillToCall, InSection
        <5>2. cur'[p] = cur[p] + 1
          BY <1>0, <1>1, <5>1 DEF NextNode
        <5>3. QED
          BY <1>0, <1>1, <4>2, <5>1, <5>2 DEF StillToCall
      <4>3. QED
        BY <4>1, <4>2
    <3>3. QED
      BY <1>3, <3>1, <3>2 DEF CallbackInv, CalledInv
  <2>5. QED
    BY <2>3, <2>4
<1>4. CalledInv'
  BY <1>1, <1>3 DEF CalledInv
<1>5. UnpublishedInv'
  BY <1>1, <1>2 DEF UnpublishedInv
<1>6. QED
  BY <1>4, <1>5 DEF CallbackInv

\* A walk that has come to the end of the list has nobody left to call.
LEMMA PubReturnCalls ==
  ASSUME IInv, CallbackInv, NEW p \in Publishers, PubReturn(p)
  PROVE  CallbackInv'
<1> USE DEF topicVars, listVars, nodeVars, pubVars
<1>1. /\ ppc[p] = "call" /\ cur[p] = 0 /\ ppc'[p] = "idle"
      /\ \A q \in Publishers \ {p} : ppc'[q] = ppc[q]
      /\ UNCHANGED <<mutex, seq, published, link, got, cur, rpc>>
  BY DEF PubReturn, IInv, TypeOK, NoNode
<1>2. \A i \in 1 .. Len(link) : \A q \in Publishers : StillToCall(q, i) => StillToCall(q, i)'
  BY <1>1 DEF StillToCall, InSection
<1>3. CalledInv'
  BY <1>1, <1>2 DEF CallbackInv, CalledInv
<1>4. UnpublishedInv'
  BY <1>1 DEF CallbackInv, UnpublishedInv
<1>5. QED
  BY <1>3, <1>4 DEF CallbackInv

\* A node is called at once when it joins a published topic, and a topic that
\* is not published yet has no sample, or one whose publisher will call.
LEMMA SubReturnCalls ==
  ASSUME IInv, CallbackInv, NEW n \in Nodes, SubReturn(n)
  PROVE  CallbackInv'
<1> USE DEF topicVars, listVars, nodeVars, pubVars
<1>0. /\ rpc \in [Nodes -> SubPC] /\ got \in [Nodes -> Sample] /\ link \in Seq(Nodes)
      /\ Len(link) \in Nat /\ mutex \in Publishers \cup {NULL}
  BY DEF IInv, TypeOK
<1>1. /\ UNCHANGED <<mutex, seq, published, link, ppc, cur>>
      /\ \A m \in Nodes \ {n} : got'[m] = got[m] /\ rpc'[m] = rpc[m]
      /\ published /\ n \in CbReaders => got'[n] = data
      /\ ~(published /\ n \in CbReaders) => got' = got
  BY <1>0 DEF SubReturn
<1>2. \A q \in Publishers : \A i \in 1 .. Len(link) : StillToCall(q, i)' <=> StillToCall(q, i)
  BY <1>1 DEF StillToCall, InSection
<1>3. ASSUME NEW i \in 1 .. Len(link), link[i] = n, n \in CbReaders
      PROVE  \/ got'[n] = [lo |-> seq, hi |-> seq]
             \/ \E q \in Publishers : StillToCall(q, i)
  <2>1. CASE published
    BY <1>1, <1>3, <2>1, DataOrCopying DEF StillToCall, InSection
  <2>2. CASE ~published
    <3>1. got'[n] = Zero /\ (seq = 0 \/ mutex # NULL)
      BY <1>1, <1>3, <2>2 DEF CallbackInv, UnpublishedInv
    <3>2. mutex # NULL => \E q \in Publishers : InSection(q)
      BY <1>0 DEF IInv, LockInv
    <3>3. QED
      BY <3>1, <3>2 DEF StillToCall, Zero
  <2>3. QED
    BY <2>1, <2>2
<1>4. CalledInv'
  <2>1. ASSUME NEW i \in 1 .. Len(link), link[i] \in CbReaders, rpc'[link[i]] = "ready"
        PROVE  \/ got'[link[i]] = [lo |-> seq, hi |-> seq]
               \/ \E q \in Publishers : StillToCall(q, i)
    <3>1. CASE link[i] = n
      BY <1>3, <2>1, <3>1
    <3>2. CASE link[i] # n
      <4>1. link[i] \in Nodes
        BY <1>0
      <4>2. got'[link[i]] = got[link[i]] /\ rpc'[link[i]] = rpc[link[i]]
        BY <1>1, <3>2, <4>1
      <4>3. QED
        BY <2>1, <4>2 DEF CallbackInv, CalledInv
    <3>3. QED
      BY <3>1, <3>2
  <2>2. QED
    BY <1>1, <1>2, <2>1 DEF CalledInv
<1>5. UnpublishedInv'
  BY <1>1 DEF CallbackInv, UnpublishedInv
<1>6. QED
  BY <1>4, <1>5 DEF CallbackInv

\* The other steps of a subscriber and those of a reader call nobody, and make
\* no callback node ready.
LEMMA OthersCall ==
  ASSUME IInv, CallbackInv, NEW n \in Nodes,
         SubFull(n) \/ SubNoMemory(n) \/ SubCheck(n) \/ SubLink(n) \/ Poll(n)
  PROVE  CallbackInv'
<1> USE DEF topicVars, listVars, nodeVars, pubVars
<1>0. /\ rpc \in [Nodes -> SubPC] /\ got \in [Nodes -> Sample] /\ link \in Seq(Nodes)
      /\ Len(link) \in Nat
  BY DEF IInv, TypeOK
<1>1. /\ UNCHANGED <<mutex, seq, published, ppc, cur>>
      /\ \A m \in CbReaders : got'[m] = got[m]
      /\ \A m \in CbReaders : rpc'[m] = "ready" => rpc[m] = "ready"
  <2>1. CASE SubFull(n) \/ SubNoMemory(n) \/ SubCheck(n) \/ SubLink(n)
    BY <1>0, <2>1 DEF SubFull, SubNoMemory, SubCheck, SubLink, Nodes
  <2>2. CASE SemWait(n) \/ PollCheck(n)
    BY <1>0, <2>2 DEF SemWait, PollCheck, Nodes
  <2>3. CASE PollCopy(n)
    <3>1. n \notin CbReaders
      BY <2>3 DEF PollCopy, IInv, SeenInv
    <3>2. QED
      BY <1>0, <2>3, <3>1 DEF PollCopy, Nodes
  <2>4. QED
    BY <2>1, <2>2, <2>3 DEF Poll
<1>2. \A q \in Publishers : \A i \in Int : StillToCall(q, i)' <=> StillToCall(q, i)
  BY <1>1 DEF StillToCall, InSection
<1>3. CalledInv'
  <2>1. CASE link' = link
    BY <1>0, <1>1, <1>2, <2>1 DEF CallbackInv, CalledInv
  <2>2. CASE SubLink(n)
    <3>1. link' = Append(link, n) /\ rpc'[n] = "linked"
      BY <1>0, <2>2 DEF SubLink
    <3>2. /\ Len(link') = Len(link) + 1 /\ link'[Len(link) + 1] = n
          /\ \A i \in 1 .. Len(link) : link'[i] = link[i]
      BY <1>0, <3>1
    <3>3. ASSUME NEW i \in 1 .. Len(link'), link'[i] \in CbReaders, rpc'[link'[i]] = "ready"
          PROVE  i \in 1 .. Len(link) /\ link'[i] = link[i]
      BY <1>0, <3>1, <3>2, <3>3
    <3>4. QED
      BY <1>0, <1>1, <1>2, <3>3 DEF CallbackInv, CalledInv
  <2>3. QED
    BY <2>1, <2>2 DEF SubFull, SubNoMemory, SubCheck, Poll, SemWait, PollCheck, PollCopy
<1>4. UnpublishedInv'
  BY <1>1 DEF CallbackInv, UnpublishedInv
<1>5. QED
  BY <1>3, <1>4 DEF CallbackInv

LEMMA CallbackInvariant == Spec => []CallbackInv
<1>1. Init => CallbackInv
  BY CallbackInitially
<1>2. IInv /\ CallbackInv /\ [Next]_vars => CallbackInv'
  <2> SUFFICES ASSUME IInv, CallbackInv, [Next]_vars
               PROVE  CallbackInv'
    OBVIOUS
  <2>1. ASSUME NEW p \in Publishers, Publish(p)
        PROVE  CallbackInv'
    BY <2>1, PublishingCalls, PubCallCalls, PubReturnCalls DEF Publish
  <2>2. ASSUME NEW n \in Nodes, Subscribe(n) \/ Poll(n)
        PROVE  CallbackInv'
    BY <2>2, SubReturnCalls, OthersCall DEF Subscribe
  <2>3. CASE UNCHANGED vars
    BY <2>3 DEF vars, topicVars, listVars, nodeVars, pubVars, CallbackInv, CalledInv,
                StillToCall, InSection, UnpublishedInv
  <2>4. QED
    BY <2>1, <2>2, <2>3 DEF Next
<1>3. QED
  BY <1>1, <1>2, Inductive, PTL DEF Spec

\* When no publication is under way every callback has seen the newest sample,
\* although both the second walk and the test of published run without the mutex.
THEOREM CallbacksCatchUp == Spec => []CallbacksCaughtUp
<1>1. IInv /\ CallbackInv => CallbacksCaughtUp
  <2> SUFFICES ASSUME IInv, CallbackInv, \A p \in Publishers : ppc[p] = "idle",
                      NEW n \in CbReaders, rpc[n] = "ready"
               PROVE  got[n] = [lo |-> seq, hi |-> seq]
    BY DEF CallbacksCaughtUp
  <2>1. PICK i \in 1 .. Len(link) : link[i] = n
    BY DEF IInv, ListInv, Linked, Nodes
  <2>2. \A p \in Publishers : ~StillToCall(p, i)
    BY DEF StillToCall, InSection
  <2>3. QED
    BY <2>1, <2>2 DEF CallbackInv, CalledInv
<1>2. QED
  BY <1>1, Inductive, CallbackInvariant, PTL
==============================================================================
