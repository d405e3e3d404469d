-------------------------- MODULE RingBufferProofs ---------------------------
(***************************************************************************)
(* Proofs about RingBuffer, for any size that the index bit fields hold,   *)
(* any set of bytes and any blocks and requests: the indices stay in the   *)
(* pool, the mirrors tell full from empty, and the ring implements the     *)
(* bounded queue.                                                          *)
(***************************************************************************)
EXTENDS RingBuffer, TLAPS

\* MirrorInv is inductive together with the types.
IInv == TypeOK /\ MirrorInv

------------------------------------------------------------------------------
(* The operators the actions are built from.                                *)

\* An index below the range of its bit field is stored as it is.
LEMMA FieldHolds == ASSUME NEW x \in Nat, NEW m \in Nat, x < m PROVE x % m = x
  OBVIOUS

\* The mirrors decide how much data there is.
LEMMA Amounts ==
  ASSUME IInv
  PROVE  /\ Size \in Nat /\ Size > 0
         /\ ri \in Nat /\ ri < Size /\ wi \in Nat /\ wi < Size
         /\ rm = wm => DataLen = wi - ri
         /\ rm # wm => DataLen = Size - (ri - wi)
         /\ DataLen \in Nat /\ DataLen <= Size
         /\ SpaceLen \in Nat /\ SpaceLen = Size - DataLen
  BY SizeFits DEF IInv, TypeOK, MirrorInv, Slots, DataLen, SpaceLen, Status

\* No more is stored than was offered and than fits.
LEMMA StoredBounds ==
  ASSUME IInv, NEW src \in Seq(Byte)
  PROVE  /\ Stored(src) \in Nat
         /\ Stored(src) <= SpaceLen /\ Stored(src) <= Len(src)
  BY Amounts, SizeFits DEF Stored, Lesser

\* No more is taken than was asked for and than is there.
LEMMA TakenBounds ==
  ASSUME IInv, NEW n \in Nat
  PROVE  /\ Taken(n) \in Nat
         /\ Taken(n) <= DataLen /\ Taken(n) <= n
  BY Amounts, SizeFits DEF Taken, Lesser

\* memcpy changes the range it is given and nothing else.
LEMMA MemcpyAt ==
  ASSUME NEW mem, NEW at, NEW src, NEW from, NEW n, NEW k \in Slots
  PROVE  Memcpy(mem, at, src, from, n)[k] =
           IF k \in at .. at + n - 1 THEN src[from + (k - at) + 1] ELSE mem[k]
  BY DEF Memcpy

\* The byte at offset k - at of the range is byte from + (k - at) of the block.
LEMMA MemcpyIn ==
  ASSUME NEW mem, NEW at \in Int, NEW src, NEW from \in Int, NEW n \in Int,
         NEW k \in Slots, k \in at .. at + n - 1
  PROVE  \A i \in Int : from + (k - at) + 1 = i =>
           Memcpy(mem, at, src, from, n)[k] = src[i]
  BY MemcpyAt

\* Copying bytes that the block has leaves a pool of bytes.
LEMMA MemcpyType ==
  ASSUME NEW mem \in [Slots -> Byte], NEW src \in Seq(Byte),
         NEW at \in Nat, NEW from \in Nat, NEW n \in Nat, from + n <= Len(src)
  PROVE  Memcpy(mem, at, src, from, n) \in [Slots -> Byte]
<1>1. ASSUME NEW k \in Slots
      PROVE  Memcpy(mem, at, src, from, n)[k] \in Byte
  <2>1. CASE k \in at .. at + n - 1
    <3>1. from + (k - at) + 1 \in 1 .. Len(src)
      BY <2>1 DEF Slots
    <3>2. QED
      BY <2>1, <3>1, MemcpyAt
  <2>2. CASE k \notin at .. at + n - 1
    BY <2>2, MemcpyAt
  <2>3. QED
    BY <2>1, <2>2
<1>2. QED
  BY <1>1 DEF Memcpy

\* The index and the length after a put, with no field overflowing.
LEMMA PutStraightEffect ==
  ASSUME IInv, NEW src \in Seq(Byte), PutStraight(src)
  PROVE  /\ wi' = wi + Stored(src)
         /\ wi' < Size
<1>1. /\ Stored(src) \in Nat /\ wi \in Nat
      /\ wi + Stored(src) < Size
  BY StoredBounds, Amounts DEF PutStraight
<1>2. (wi + Stored(src)) % IndexRange = wi + Stored(src)
  BY <1>1, SizeFits, FieldHolds
<1>3. QED
  BY <1>1, <1>2 DEF PutStraight

\* A put wraps only from behind the reader, and ends before it.
LEMMA PutWrappedEffect ==
  ASSUME IInv, NEW src \in Seq(Byte), PutWrapped(src)
  PROVE  /\ wi' = Stored(src) - (Size - wi)
         /\ wi' \in Slots /\ wi' <= ri
         /\ rm = wm /\ ri <= wi
<1>1. /\ Stored(src) \in Nat /\ Stored(src) <= SpaceLen
      /\ Size - wi <= Stored(src)
  BY StoredBounds DEF PutWrapped
<1>3. rm = wm
  BY <1>1, Amounts
<1>4. /\ Stored(src) - (Size - wi) \in Nat
      /\ Stored(src) - (Size - wi) <= ri
      /\ Stored(src) - (Size - wi) < IndexRange
  BY <1>1, <1>3, Amounts, SizeFits
<1>5. (Stored(src) - (Size - wi)) % IndexRange = Stored(src) - (Size - wi)
  BY <1>4, SizeFits, FieldHolds
<1>6. wi' = Stored(src) - (Size - wi)
  BY <1>5 DEF PutWrapped
<1>7. QED
  BY <1>3, <1>4, <1>6, Amounts DEF IInv, MirrorInv, Slots

\* The same for a get.
LEMMA GetStraightEffect ==
  ASSUME IInv, NEW n \in Nat, GetStraight(n)
  PROVE  /\ ri' = ri + Taken(n)
         /\ ri' < Size
<1>1. Taken(n) \in Nat /\ ri \in Nat /\ ri + Taken(n) < Size
  BY TakenBounds, Amounts DEF GetStraight
<1>2. (ri + Taken(n)) % IndexRange = ri + Taken(n)
  BY <1>1, SizeFits, FieldHolds
<1>3. QED
  BY <1>1, <1>2 DEF GetStraight

\* A get wraps only from behind the writer's last wrap, and ends at its index
\* or before it.
LEMMA GetWrappedEffect ==
  ASSUME IInv, NEW n \in Nat, GetWrapped(n)
  PROVE  /\ ri' = Taken(n) - (Size - ri)
         /\ ri' \in Slots /\ ri' <= wi
         /\ rm # wm /\ wi <= ri
<1>1. /\ Taken(n) \in Nat /\ Taken(n) <= DataLen
      /\ Size - ri <= Taken(n)
  BY TakenBounds DEF GetWrapped
<1>2. rm # wm
  BY <1>1, Amounts
<1>3. /\ Taken(n) - (Size - ri) \in Nat
      /\ Taken(n) - (Size - ri) <= wi
      /\ Taken(n) - (Size - ri) < IndexRange
  BY <1>1, <1>2, Amounts, SizeFits
<1>4. (Taken(n) - (Size - ri)) % IndexRange = Taken(n) - (Size - ri)
  BY <1>3, SizeFits, FieldHolds
<1>5. ri' = Taken(n) - (Size - ri)
  BY <1>4 DEF GetWrapped
<1>6. QED
  BY <1>2, <1>3, <1>5, Amounts DEF IInv, MirrorInv, Slots

------------------------------------------------------------------------------
(* The invariant.                                                           *)

\* A new ring is empty.
LEMMA InitEstablishes == Init => IInv
<1> SUFFICES ASSUME Init PROVE IInv
  OBVIOUS
<1>1. 0 \in Slots /\ 0 \in 0 .. Size
  BY SizeFits DEF Slots
<1>2. out \in Seq(Byte)
  <2>1. out = <<>>
    BY DEF Init
  <2>2. QED
    BY ONLY <2>1
<1>3. QED
  BY <1>1, <1>2 DEF Init, IInv, TypeOK, MirrorInv

\* Every step of a behaviour keeps the invariant.
LEMMA NextKeeps == IInv /\ [Next]_vars => IInv'
<1> SUFFICES ASSUME IInv, [Next]_vars PROVE IInv'
  OBVIOUS
<1> USE SizeFits DEF indexVars
<1>1. CASE Create
  BY <1>1 DEF Create, IInv, TypeOK, MirrorInv, Slots
<1>2. CASE Destroy
  BY <1>2 DEF Destroy, IInv, TypeOK, MirrorInv, Slots
<1>3. CASE Reset
  BY <1>3 DEF Reset, IInv, TypeOK, MirrorInv, Slots
<1>4. CASE PutFull
  BY <1>4 DEF PutFull, IInv, TypeOK, MirrorInv, Slots
<1>5. ASSUME NEW src \in Blocks, PutStraight(src) PROVE IInv'
  <2>0. src \in Seq(Byte)
    BY Inputs
  <2>1. /\ wi' = wi + Stored(src) /\ wi' < Size
        /\ Stored(src) \in Nat /\ Stored(src) <= SpaceLen
        /\ Stored(src) <= Len(src)
    BY <1>5, <2>0, PutStraightEffect, StoredBounds
  <2>2. wi' \in Slots /\ ret' \in 0 .. Size
    <3>1. wi' \in Nat
      BY <2>1, Amounts
    <3>2. ret' = Stored(src)
      BY <1>5 DEF PutStraight
    <3>3. QED
      BY <3>1, <3>2, <2>1, Amounts DEF Slots
  <2>3. pool' \in [Slots -> Byte]
    <3>1. pool \in [Slots -> Byte] /\ wi \in Nat /\ 0 + Stored(src) <= Len(src)
      BY <2>1, Amounts DEF IInv, TypeOK
    <3>2. Memcpy(pool, wi, src, 0, Stored(src)) \in [Slots -> Byte]
      BY ONLY <2>0, <2>1, <3>1, MemcpyType, 0 \in Nat
    <3>3. QED
      BY <1>5, <3>2 DEF PutStraight
  <2>4. MirrorInv'
    <3>1. UNCHANGED <<ri, rm, wm>> /\ rm \in {0, 1} /\ wm \in {0, 1}
      BY <1>5 DEF PutStraight, IInv, TypeOK
    <3>2. QED
      BY <3>1, <2>1, Amounts DEF IInv, MirrorInv
  <2>5. QED
    BY <1>5, <2>2, <2>3, <2>4 DEF PutStraight, IInv, TypeOK
<1>6. ASSUME NEW src \in Blocks, PutWrapped(src) PROVE IInv'
  <2>0. src \in Seq(Byte)
    BY Inputs
  <2>1. /\ wi' = Stored(src) - (Size - wi) /\ wi' \in Slots /\ wi' <= ri
        /\ rm = wm /\ ri <= wi
        /\ Stored(src) \in Nat /\ Stored(src) <= SpaceLen
        /\ Stored(src) <= Len(src)
    BY <1>6, <2>0, PutWrappedEffect, StoredBounds
  <2>2. ret' \in 0 .. Size
    BY <1>6, <2>1, Amounts DEF PutWrapped
  <2>3. pool' \in [Slots -> Byte]
    <3>1. /\ pool \in [Slots -> Byte] /\ wi \in Nat /\ Size - wi \in Nat
          /\ Stored(src) - (Size - wi) \in Nat /\ 0 + (Size - wi) <= Len(src)
          /\ (Size - wi) + (Stored(src) - (Size - wi)) <= Len(src)
      <4>1. Stored(src) - (Size - wi) \in Nat
        BY <2>1 DEF Slots
      <4>2. QED
        BY <2>0, <2>1, <4>1, Amounts DEF IInv, TypeOK
    <3>2. Memcpy(pool, wi, src, 0, Size - wi) \in [Slots -> Byte]
      BY ONLY <2>0, <3>1, MemcpyType, 0 \in Nat
    <3>3. Memcpy(Memcpy(pool, wi, src, 0, Size - wi), 0, src, Size - wi,
                 Stored(src) - (Size - wi)) \in [Slots -> Byte]
      BY ONLY <2>0, <3>1, <3>2, MemcpyType, 0 \in Nat
    <3>4. QED
      BY <1>6, <3>3 DEF PutWrapped
  <2>4. wm' \in {0, 1} /\ MirrorInv'
    BY <1>6, <2>1 DEF PutWrapped, IInv, TypeOK, MirrorInv
  <2>5. QED
    BY <1>6, <2>1, <2>2, <2>3, <2>4 DEF PutWrapped, IInv, TypeOK
<1>7. CASE GetEmpty
  BY <1>7 DEF GetEmpty, IInv, TypeOK, MirrorInv, Slots
<1>8. ASSUME NEW n \in Requests, GetStraight(n) PROVE IInv'
  <2>0. n \in Nat
    BY Inputs
  <2>1. /\ ri' = ri + Taken(n) /\ ri' < Size
        /\ Taken(n) \in Nat /\ Taken(n) <= DataLen
    BY <1>8, <2>0, GetStraightEffect, TakenBounds
  <2>2. ri' \in Slots /\ ret' \in 0 .. Size
    <3>1. ri' \in Nat
      BY <2>1, Amounts
    <3>2. ret' = Taken(n)
      BY <1>8 DEF GetStraight
    <3>3. QED
      BY <3>1, <3>2, <2>1, Amounts DEF Slots
  <2>3. out' \in Seq(Byte)
    <3>1. \A k \in 1 .. Taken(n) : ri + k - 1 \in Slots
      BY <2>1, Amounts DEF Slots
    <3>2. \A k \in 1 .. Taken(n) : pool[ri + k - 1] \in Byte
      BY <3>1 DEF IInv, TypeOK
    <3>3. QED
      BY <1>8, <2>1, <3>2 DEF GetStraight
  <2>4. MirrorInv'
    <3>1. UNCHANGED <<wi, rm, wm>> /\ rm \in {0, 1} /\ wm \in {0, 1}
      BY <1>8 DEF GetStraight, IInv, TypeOK
    <3>2. QED
      BY <3>1, <2>1, Amounts DEF IInv, MirrorInv
  <2>5. QED
    BY <1>8, <2>2, <2>3, <2>4 DEF GetStraight, IInv, TypeOK
<1>9. ASSUME NEW n \in Requests, GetWrapped(n) PROVE IInv'
  <2>0. n \in Nat
    BY Inputs
  <2>1. /\ ri' = Taken(n) - (Size - ri) /\ ri' \in Slots /\ ri' <= wi
        /\ rm # wm /\ wi <= ri
        /\ Taken(n) \in Nat /\ Taken(n) <= DataLen
    BY <1>9, <2>0, GetWrappedEffect, TakenBounds
  <2>2. ret' \in 0 .. Size
    BY <1>9, <2>1, Amounts DEF GetWrapped
  <2>3. out' \in Seq(Byte)
    <3>1. \A k \in 1 .. Taken(n) :
            (IF k <= Size - ri THEN ri + k - 1 ELSE k - (Size - ri) - 1)
              \in Slots
      BY <2>1, Amounts DEF Slots
    <3>2. \A k \in 1 .. Taken(n) :
            pool[IF k <= Size - ri THEN ri + k - 1 ELSE k - (Size - ri) - 1]
              \in Byte
      BY <3>1 DEF IInv, TypeOK
    <3>3. QED
      BY <1>9, <2>1, <3>2 DEF GetWrapped
  <2>4. rm' \in {0, 1} /\ MirrorInv'
    <3>1. UNCHANGED <<wi, wm>> /\ rm' = 1 - rm /\ rm \in {0, 1} /\ wm \in {0, 1}
      BY <1>9 DEF GetWrapped, IInv, TypeOK
    <3>2. rm' = wm'
      BY <3>1, <2>1
    <3>3. QED
      BY <3>1, <3>2, <2>1 DEF MirrorInv
  <2>5. QED
    BY <1>9, <2>1, <2>2, <2>3, <2>4 DEF GetWrapped, IInv, TypeOK
<1>10. CASE UNCHANGED vars
  BY <1>10 DEF vars, IInv, TypeOK, MirrorInv
<1>11. QED
  BY <1>1, <1>2, <1>3, <1>4, <1>5, <1>6, <1>7, <1>8, <1>9, <1>10
     DEF Next, Put, Get

\* The type invariant and the mirror invariant hold throughout.
THEOREM Inductive == Spec => []IInv
  BY InitEstablishes, NextKeeps, PTL DEF Spec

\* The indices stay inside the pool, and every variable keeps its type.
THEOREM TypeCorrect == Spec => []TypeOK
<1>1. IInv => TypeOK
  BY DEF IInv
<1>2. QED
  BY <1>1, Inductive, PTL

\* The mirrors say which index is ahead.
THEOREM MirrorsRight == Spec => []MirrorInv
<1>1. IInv => MirrorInv
  BY DEF IInv
<1>2. QED
  BY <1>1, Inductive, PTL

------------------------------------------------------------------------------
(* The bounded queue.                                                       *)

\* The slot of the k-th oldest byte.
Place(k) == IF ri + k <= Size THEN ri + k - 1 ELSE ri + k - 1 - Size

\* Strings of one length with the same elements are the same.
LEMMA SameElements ==
  ASSUME NEW S, NEW s \in Seq(S), NEW t \in Seq(S), Len(s) = Len(t),
         \A k \in 1 .. Len(s) : s[k] = t[k]
  PROVE  s = t
  OBVIOUS

\* Appending the first m elements of b.
LEMMA AppendIs ==
  ASSUME NEW S, NEW s \in Seq(S), NEW u \in Seq(S), NEW b \in Seq(S),
         NEW m \in Nat, m <= Len(b), Len(u) = Len(s) + m,
         \A k \in 1 .. Len(s) : u[k] = s[k],
         \A k \in 1 .. m : u[Len(s) + k] = b[k]
  PROVE  u = s \o SubSeq(b, 1, m)
<1> DEFINE t == s \o SubSeq(b, 1, m)
<1>1. /\ t \in Seq(S) /\ Len(t) = Len(s) + m
      /\ \A k \in 1 .. Len(s) : t[k] = s[k]
      /\ \A k \in 1 .. m : t[Len(s) + k] = b[k]
  OBVIOUS
<1>2. \A k \in 1 .. Len(s) + m : u[k] = t[k]
  <2> TAKE k \in 1 .. Len(s) + m
  <2>1. CASE k \in 1 .. Len(s)
    BY <2>1, <1>1
  <2>2. CASE k \notin 1 .. Len(s)
    <3>1. k - Len(s) \in 1 .. m /\ Len(s) + (k - Len(s)) = k
      BY ONLY <2>2, k \in 1 .. Len(s) + m, Len(s) \in Nat, m \in Nat
    <3>2. u[Len(s) + (k - Len(s))] = t[Len(s) + (k - Len(s))]
      BY ONLY <3>1, <1>1, \A j \in 1 .. m : u[Len(s) + j] = b[j]
    <3>3. QED
      BY <3>1, <3>2
  <2>3. QED
    BY <2>1, <2>2
<1> HIDE DEF t
<1>3. u = t
  BY ONLY <1>1, <1>2, SameElements, u \in Seq(S), Len(u) = Len(s) + m
<1>4. QED
  BY <1>3 DEF t

\* The content is a string of DataLen bytes, each at its place.
ContentOK ==
  /\ Content \in Seq(Byte) /\ Len(Content) = DataLen
  /\ \A k \in 1 .. DataLen : Place(k) \in Slots /\ Content[k] = pool[Place(k)]

\* In every state of the invariant it is.
LEMMA ContentRight == IInv => ContentOK
<1> SUFFICES ASSUME IInv PROVE ContentOK
  OBVIOUS
<1>1. \A k \in 1 .. DataLen : Place(k) \in Slots
  BY Amounts DEF Place, Slots
<1>2. \A k \in 1 .. DataLen : pool[Place(k)] \in Byte
  BY <1>1 DEF IInv, TypeOK
<1>3. Content = [k \in 1 .. DataLen |-> pool[Place(k)]]
  BY DEF Content, Place
<1>4. QED
  BY <1>1, <1>2, <1>3, Amounts DEF ContentOK

\* Bytes written behind the newest one are appended.
LEMMA PutAppends ==
  ASSUME IInv, IInv', NEW src \in Seq(Byte), NEW len \in Nat,
         len <= Len(src), ri' = ri, DataLen' = DataLen + len,
         \A k \in 1 .. DataLen : pool'[Place(k)] = pool[Place(k)],
         \A k \in 1 .. len : pool'[Place(DataLen + k)] = src[k]
  PROVE  Content' = Content \o SubSeq(src, 1, len)
<1>1. ContentOK /\ ContentOK'
  BY ContentRight, PTL
<1>2. DataLen \in Nat
  BY Amounts
<1>3. \A k \in 1 .. DataLen' : Place(k)' = Place(k)
  BY DEF Place
<1>4. /\ Content' \in Seq(Byte) /\ Len(Content') = DataLen + len
      /\ \A k \in 1 .. DataLen + len : Content'[k] = pool'[Place(k)]
  BY <1>1, <1>3 DEF ContentOK
<1>5. \A k \in 1 .. DataLen : Content'[k] = Content[k]
  BY <1>1, <1>2, <1>4 DEF ContentOK
<1>6. \A k \in 1 .. len : Content'[DataLen + k] = src[k]
  BY <1>2, <1>4
<1>7. /\ Content \in Seq(Byte) /\ Len(Content) = DataLen
      /\ Content' \in Seq(Byte) /\ Len(Content') = Len(Content) + len
      /\ \A k \in 1 .. Len(Content) : Content'[k] = Content[k]
      /\ \A k \in 1 .. len : Content'[Len(Content) + k] = src[k]
  BY <1>1, <1>4, <1>5, <1>6 DEF ContentOK
<1>8. ASSUME NEW s \in Seq(Byte), NEW u \in Seq(Byte), Len(u) = Len(s) + len,
             \A k \in 1 .. Len(s) : u[k] = s[k],
             \A k \in 1 .. len : u[Len(s) + k] = src[k]
      PROVE  u = s \o SubSeq(src, 1, len)
  BY ONLY <1>8, AppendIs, src \in Seq(Byte), len \in Nat, len <= Len(src)
<1>9. QED
  BY ONLY <1>7, <1>8

\* The amount of data, as the mirrors tell it.
Held == IF rm = wm THEN wi - ri ELSE Size - (ri - wi)

HeldOK == DataLen = Held

\* DataLen is what the mirrors tell.
LEMMA HeldRight == IInv => HeldOK
  BY Amounts DEF HeldOK, Held

\* All that the steps below need to know about the indices.
Ranges ==
  /\ Size \in Nat /\ DataLen \in Nat /\ DataLen <= Size
  /\ SpaceLen = Size - DataLen
  /\ ri \in Nat /\ ri < Size /\ wi \in Nat /\ wi < Size
  /\ rm = wm => ri <= wi /\ DataLen = wi - ri
  /\ rm # wm => wi <= ri /\ DataLen = Size - (ri - wi)

\* The invariant gives these ranges.
LEMMA RangesRight == IInv => Ranges
  BY Amounts DEF Ranges, IInv, MirrorInv

\* A put in one piece appends.
LEMMA PutStraightStep ==
  ASSUME IInv, IInv', NEW src \in Seq(Byte), PutStraight(src)
  PROVE  Content' = Content \o SubSeq(src, 1, Stored(src))
<1>0. Ranges
  BY RangesRight
<1>1. /\ wi' = wi + Stored(src) /\ wi' < Size
      /\ Stored(src) \in Nat /\ Stored(src) <= SpaceLen
      /\ Stored(src) <= Len(src)
      /\ UNCHANGED <<ri, rm, wm>>
  BY PutStraightEffect, StoredBounds DEF PutStraight
<1>copy. pool' = Memcpy(pool, wi, src, 0, Stored(src))
  BY DEF PutStraight
<1>2. DataLen' = DataLen + Stored(src)
  <2>1. HeldOK /\ HeldOK'
    BY HeldRight, PTL
  <2>2. QED
    BY ONLY <2>1, <1>0, <1>1 DEF HeldOK, Held, Ranges
<1>3. ASSUME NEW k \in 1 .. DataLen
      PROVE  pool'[Place(k)] = pool[Place(k)]
  <2>1. Place(k) \in Slots /\ Place(k) \notin wi .. wi + Stored(src) - 1
    BY ONLY <1>0, <1>1, k \in 1 .. DataLen DEF Ranges, Place, Slots
  <2>2. QED
    BY ONLY <2>1, <1>copy, MemcpyAt
<1>4. ASSUME NEW k \in 1 .. Stored(src)
      PROVE  pool'[Place(DataLen + k)] = src[k]
  <2>1. Place(DataLen + k) = wi + k - 1
    BY ONLY <1>0, <1>1, k \in 1 .. Stored(src) DEF Ranges, Place
  <2>2. /\ wi + k - 1 \in Slots /\ wi + k - 1 \in wi .. wi + Stored(src) - 1
        /\ 0 + (wi + k - 1 - wi) + 1 = k
    BY ONLY <1>0, <1>1, k \in 1 .. Stored(src) DEF Ranges, Slots
  <2>3. /\ wi \in Int /\ 0 \in Int /\ Stored(src) \in Int /\ k \in Int
        /\ wi + k - 1 \in Slots
    BY ONLY <2>2, <1>0, <1>1, k \in 1 .. Stored(src) DEF Ranges
  <2>4. Memcpy(pool, wi, src, 0, Stored(src))[wi + k - 1] = src[k]
    BY ONLY <2>2, <2>3, MemcpyIn
  <2>5. QED
    BY ONLY <2>1, <2>4, <1>copy
<1>5. QED
  BY <1>1, <1>2, <1>3, <1>4, PutAppends

\* A put in two pieces appends.
LEMMA PutWrappedStep ==
  ASSUME IInv, IInv', NEW src \in Seq(Byte), PutWrapped(src)
  PROVE  Content' = Content \o SubSeq(src, 1, Stored(src))
<1> DEFINE room == Size - wi
           half == Memcpy(pool, wi, src, 0, room)
<1>0. Ranges
  BY RangesRight
<1>1. /\ wi' = Stored(src) - room /\ wi' \in Nat /\ wi' <= ri
      /\ rm = wm /\ ri <= wi
      /\ Stored(src) \in Nat /\ Stored(src) <= SpaceLen
      /\ Stored(src) <= Len(src) /\ room <= Stored(src)
      /\ UNCHANGED <<ri, rm>> /\ wm' = 1 - wm
  BY PutWrappedEffect, StoredBounds DEF PutWrapped, Slots
<1>copy. pool' = Memcpy(half, 0, src, room, Stored(src) - room)
  BY DEF PutWrapped
<1>2. DataLen' = DataLen + Stored(src)
  <2>1. HeldOK /\ HeldOK'
    BY HeldRight, PTL
  <2>2. rm' # wm'
    BY <1>1 DEF IInv, TypeOK
  <2>3. QED
    BY ONLY <2>1, <2>2, <1>0, <1>1 DEF HeldOK, Held, Ranges
<1>3. ASSUME NEW k \in 1 .. DataLen
      PROVE  pool'[Place(k)] = pool[Place(k)]
  <2>1. /\ Place(k) \in Slots /\ Place(k) \notin wi .. wi + room - 1
        /\ Place(k) \notin 0 .. 0 + (Stored(src) - room) - 1
    BY ONLY <1>0, <1>1, k \in 1 .. DataLen DEF Ranges, Place, Slots
  <2>2. half[Place(k)] = pool[Place(k)]
    BY <2>1, MemcpyAt
  <2>3. QED
    BY ONLY <2>1, <2>2, <1>copy, MemcpyAt
<1>4. ASSUME NEW k \in 1 .. Stored(src)
      PROVE  pool'[Place(DataLen + k)] = src[k]
  <2>1. CASE k <= room
    <3>1. /\ Place(DataLen + k) = wi + k - 1
          /\ wi + k - 1 \in Slots /\ wi + k - 1 \in wi .. wi + room - 1
          /\ wi + k - 1 \notin 0 .. 0 + (Stored(src) - room) - 1
          /\ 0 + (wi + k - 1 - wi) + 1 = k
      BY ONLY <2>1, <1>0, <1>1, k \in 1 .. Stored(src) DEF Ranges, Place, Slots
    <3>2. half[wi + k - 1] = src[k]
      <4>1. wi \in Int /\ 0 \in Int /\ room \in Int /\ k \in Int
        BY ONLY <1>0, k \in 1 .. Stored(src) DEF Ranges
      <4>2. QED
        <5> DEFINE slot == wi + k - 1
        <5>1. /\ slot \in Slots /\ slot \in wi .. wi + room - 1
              /\ 0 + (slot - wi) + 1 = k
          BY ONLY <2>1, <1>0, <1>1, k \in 1 .. Stored(src) DEF Ranges, Slots
        <5> HIDE DEF slot
        <5>2. half[slot] = src[k]
          BY ONLY <5>1, <4>1, MemcpyIn
        <5>3. QED
          BY ONLY <5>2 DEF slot
    <3>3. QED
      BY ONLY <3>1, <3>2, <1>copy, MemcpyAt
  <2>2. CASE k > room
    <3>1. /\ Place(DataLen + k) = k - room - 1
          /\ k - room - 1 \in Slots
          /\ k - room - 1 \in 0 .. 0 + (Stored(src) - room) - 1
          /\ room + (k - room - 1 - 0) + 1 = k
      BY ONLY <2>2, <1>0, <1>1, k \in 1 .. Stored(src) DEF Ranges, Place, Slots
    <3>2. QED
      BY ONLY <3>1, <1>copy, MemcpyAt
  <2>3. QED
    BY ONLY <2>1, <2>2, <1>0, <1>1, k \in 1 .. Stored(src) DEF Ranges
<1>5. QED
  BY <1>1, <1>2, <1>3, <1>4, PutAppends

\* Bytes read from the oldest on are removed.
LEMMA GetDrops ==
  ASSUME IInv, IInv', NEW len \in Nat, len <= DataLen,
         pool' = pool, DataLen' = DataLen - len,
         \A k \in 1 .. DataLen - len : Place(k)' = Place(len + k),
         out' = [k \in 1 .. len |-> pool[Place(k)]]
  PROVE  /\ out' = SubSeq(Content, 1, len)
         /\ Content' = SubSeq(Content, len + 1, DataLen)
<1>1. ContentOK /\ ContentOK'
  BY ContentRight, PTL
<1>2. DataLen \in Nat
  BY Amounts
<1>3. /\ SubSeq(Content, 1, len) \in Seq(Byte)
      /\ Len(SubSeq(Content, 1, len)) = len
      /\ \A k \in 1 .. len : SubSeq(Content, 1, len)[k] = Content[k]
  BY <1>1, <1>2 DEF ContentOK
<1>4. /\ out' \in Seq(Byte) /\ Len(out') = len
      /\ \A k \in 1 .. len : out'[k] = Content[k]
  BY <1>1, <1>2 DEF ContentOK, IInv, TypeOK
<1>5. out' = SubSeq(Content, 1, len)
  BY ONLY <1>3, <1>4, SameElements
<1>6. /\ SubSeq(Content, len + 1, DataLen) \in Seq(Byte)
      /\ Len(SubSeq(Content, len + 1, DataLen)) = DataLen - len
      /\ \A k \in 1 .. DataLen - len :
           SubSeq(Content, len + 1, DataLen)[k] = Content[len + k]
  BY <1>1, <1>2 DEF ContentOK
<1>7. /\ Content' \in Seq(Byte) /\ Len(Content') = DataLen - len
      /\ \A k \in 1 .. DataLen - len : Content'[k] = Content[len + k]
  BY <1>1, <1>2 DEF ContentOK
<1>8. Content' = SubSeq(Content, len + 1, DataLen)
  BY ONLY <1>6, <1>7, SameElements
<1>copy. QED
  BY <1>5, <1>8

\* A get in one piece removes the oldest bytes.
LEMMA GetStraightStep ==
  ASSUME IInv, IInv', NEW n \in Nat, GetStraight(n)
  PROVE  /\ out' = SubSeq(Content, 1, Taken(n))
         /\ Content' = SubSeq(Content, Taken(n) + 1, DataLen)
<1>0. Ranges
  BY RangesRight
<1>1. /\ ri' = ri + Taken(n) /\ ri' < Size
      /\ Taken(n) \in Nat /\ Taken(n) <= DataLen
      /\ UNCHANGED <<rm, wi, wm>>
  BY GetStraightEffect, TakenBounds DEF GetStraight
<1>copy. pool' = pool /\ out' = [k \in 1 .. Taken(n) |-> pool[ri + k - 1]]
  BY DEF GetStraight
<1>2. DataLen' = DataLen - Taken(n)
  <2>1. HeldOK /\ HeldOK'
    BY HeldRight, PTL
  <2>2. QED
    BY ONLY <2>1, <1>0, <1>1 DEF HeldOK, Held, Ranges
<1>3. \A k \in 1 .. DataLen - Taken(n) : Place(k)' = Place(Taken(n) + k)
  BY ONLY <1>0, <1>1 DEF Ranges, Place
<1>4. \A k \in 1 .. Taken(n) : Place(k) = ri + k - 1
  BY ONLY <1>0, <1>1 DEF Ranges, Place
<1>5. out' = [k \in 1 .. Taken(n) |-> pool[Place(k)]]
  BY <1>copy, <1>4
<1>6. QED
  BY <1>1, <1>2, <1>3, <1>5, <1>copy, GetDrops

\* A get in two pieces removes the oldest bytes.
LEMMA GetWrappedStep ==
  ASSUME IInv, IInv', NEW n \in Nat, GetWrapped(n)
  PROVE  /\ out' = SubSeq(Content, 1, Taken(n))
         /\ Content' = SubSeq(Content, Taken(n) + 1, DataLen)
<1> DEFINE room == Size - ri
<1>0. Ranges
  BY RangesRight
<1>1. /\ ri' = Taken(n) - room /\ ri' \in Nat /\ ri' <= wi
      /\ rm # wm /\ wi <= ri /\ room <= Taken(n)
      /\ Taken(n) \in Nat /\ Taken(n) <= DataLen
      /\ UNCHANGED <<wi, wm>> /\ rm' = 1 - rm
  BY GetWrappedEffect, TakenBounds DEF GetWrapped, Slots
<1>copy. /\ pool' = pool
      /\ out' = [k \in 1 .. Taken(n) |->
                  pool[IF k <= room THEN ri + k - 1 ELSE k - room - 1]]
  BY DEF GetWrapped
<1>2. DataLen' = DataLen - Taken(n)
  <2>1. HeldOK /\ HeldOK'
    BY HeldRight, PTL
  <2>2. rm' = wm'
    BY <1>1 DEF IInv, TypeOK
  <2>3. QED
    BY ONLY <2>1, <2>2, <1>0, <1>1 DEF HeldOK, Held, Ranges
<1>3. \A k \in 1 .. DataLen - Taken(n) : Place(k)' = Place(Taken(n) + k)
  BY ONLY <1>0, <1>1 DEF Ranges, Place
<1>4. \A k \in 1 .. Taken(n) :
        Place(k) = IF k <= room THEN ri + k - 1 ELSE k - room - 1
  BY ONLY <1>0, <1>1 DEF Ranges, Place
<1>5. out' = [k \in 1 .. Taken(n) |-> pool[Place(k)]]
  BY <1>copy, <1>4
<1>6. QED
  BY <1>1, <1>2, <1>3, <1>5, <1>copy, GetDrops

------------------------------------------------------------------------------
\* The ring implements the bounded queue: Create, Destroy and Reset clear it,
\* each put is a Put and each get a Get of the queue.
THEOREM QueueImplemented == Spec => IsFifo
<1> DEFINE queue == IF live THEN Content ELSE <<>>
<1>1. Init => Fifo!Init
  BY DEF Init, Fifo!Init
<1>2. IInv /\ IInv' /\ [Next]_vars => [Fifo!Next]_(Fifo!vars)
  <2> SUFFICES ASSUME IInv, IInv', [Next]_vars
               PROVE  Fifo!Next \/ UNCHANGED Fifo!vars
    OBVIOUS
  <2>0. Len(Content) = DataLen /\ Content \in Seq(Byte) /\ DataLen \in Nat
        /\ SpaceLen = Size - DataLen
    BY ContentRight, Amounts DEF ContentOK
  <2>1. CASE Create \/ Reset
    <3>1. live' /\ ri' = wi' /\ rm' = wm' /\ UNCHANGED <<out, ret>>
      BY <2>1 DEF Create, Reset
    <3>2. DataLen' = 0
      BY <3>1 DEF DataLen, Status
    <3>3. Content' = <<>>
      BY <3>2 DEF Content
    <3>4. QED
      BY <3>1, <3>3 DEF Fifo!Next, Fifo!Clear
  <2>2. CASE Destroy
    BY <2>2 DEF Destroy, Fifo!Next, Fifo!Clear
  <2>3. ASSUME NEW src \in Blocks, Put(src) PROVE Fifo!Next
    <3>0. src \in Seq(Byte)
      BY Inputs
    <3>1. /\ live /\ live' /\ ret' = Stored(src) /\ UNCHANGED out
      BY <2>3, <3>0, <2>0 
         DEF Put, PutFull, PutStraight, PutWrapped, Stored, Lesser
    <3>2. Content' = Content \o SubSeq(src, 1, Stored(src))
      <4>1. CASE PutFull
        <5>1. Stored(src) = 0 /\ UNCHANGED Content
          BY <4>1, <2>0, <3>0 DEF PutFull, Stored, Lesser, indexVars, Content,
                                  DataLen, Status
        <5>2. Content \o SubSeq(src, 1, 0) = Content
          BY ONLY <2>0, <3>0
        <5>3. QED
          BY <5>1, <5>2
      <4>2. QED
        BY <2>3, <3>0, <4>1, PutStraightStep, PutWrappedStep DEF Put
    <3>3. Stored(src) = Fifo!Lesser(Len(src), Size - Len(Content))
      BY <2>0, <3>0 DEF Stored, Lesser, Fifo!Lesser
    <3>4. Fifo!Put(src)
      BY <3>1, <3>2, <3>3 DEF Fifo!Put
    <3>5. QED
      BY <3>4 DEF Fifo!Next
  <2>4. ASSUME NEW n \in Requests, Get(n) PROVE Fifo!Next
    <3>0. n \in Nat
      BY Inputs
    <3>1. /\ live /\ live' /\ ret' = Taken(n)
      BY <2>4, <3>0, <2>0 
         DEF Get, GetEmpty, GetStraight, GetWrapped, Taken, Lesser
    <3>2. /\ out' = SubSeq(Content, 1, Taken(n))
          /\ Content' = SubSeq(Content, Taken(n) + 1, DataLen)
      <4>1. CASE GetEmpty
        <5>1. Taken(n) = 0 /\ DataLen = 0 /\ out' = <<>> /\ UNCHANGED Content
          BY <4>1, <3>0 DEF GetEmpty, Taken, Lesser, indexVars, Content,
                            DataLen, Status
        <5>2. SubSeq(Content, 1, 0) = <<>> /\ Content = <<>>
          BY ONLY <2>0, <5>1
        <5>3. SubSeq(Content, 0 + 1, 0) = <<>>
          BY ONLY <2>0
        <5>4. QED
          BY <5>1, <5>2, <5>3
      <4>2. QED
        BY <2>4, <3>0, <4>1, GetStraightStep, GetWrappedStep DEF Get
    <3>3. Taken(n) = Fifo!Lesser(n, Len(Content))
      BY <2>0, <3>0 DEF Taken, Lesser, Fifo!Lesser
    <3>4. Fifo!Get(n)
      BY <3>1, <3>2, <3>3, <2>0 DEF Fifo!Get
    <3>5. QED
      BY <3>4 DEF Fifo!Next
  <2>5. CASE UNCHANGED vars
    BY <2>5 DEF vars, indexVars, Fifo!vars, Content, DataLen, Status
  <2>6. QED
    BY <2>1, <2>2, <2>3, <2>4, <2>5 DEF Next
<1>3. QED
  BY <1>1, <1>2, Inductive, PTL DEF Spec, IsFifo, Fifo!Spec
==============================================================================
