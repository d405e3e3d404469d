------------------------ MODULE RingBufferSharedProofs ------------------------
(***************************************************************************)
(* The ring between two threads, for every size and every length put or    *)
(* taken: it stays sound until a thread catches the other's wrap.          *)
(*                                                                         *)
(* Soundness is no invariant by itself: whether a length is right depends  *)
(* on the mirrors as they will be when the index is stored (RdM, WrM), and *)
(* whether the bytes are, on those copied and not yet counted (Pending).   *)
(***************************************************************************)
EXTENDS RingBufferShared, TLAPS

\* The mirrors that go with the indices: a half done wrap has not happened.
RdM == IF getting = "wrap" THEN 1 - rm ELSE rm
WrM == IF putting = "wrap" THEN 1 - wm ELSE wm

\* The k-th slot from i and the k-th number from n.
Slot(i, k) == IF i + k < Size THEN i + k ELSE i + k - Size
Num(n, k)  == IF n + k < Laps THEN n + k ELSE n + k - Laps

Places == {"idle", "mirror", "compare", "ahead", "behind",
           "copy", "index", "flip", "wrap"}
Stores == {"index", "flip", "wrap"}

RingTyped ==
  /\ pool \in [Slots -> 0 .. Laps]
  /\ ri \in Slots /\ wi \in Slots /\ rm \in {0, 1} /\ wm \in {0, 1}
  /\ unread \in 0 .. Size /\ first \in 0 .. Size
PutTyped == putting \in Places /\ putLen \in Nat /\ putHeld \in 0 .. Size
GetTyped == getting \in Places /\ getLen \in Nat /\ getHeld \in 0 .. Size

\* The writer is ahead of the reader by what is unread, or by Size less.
Between ==
  \/ RdM = WrM /\ wi = ri + unread
  \/ RdM # WrM /\ wi + Size = ri + unread

\* The bytes counted, and those copied and not yet counted.
Stored == \A k \in 0 .. unread - 1 : pool[Slot(ri, k)] = Num(first, k)
Pending ==
  putting \in Stores =>
    \A k \in 0 .. putLen - 1 : pool[Slot(wi, k)] = Num(first, unread + k)

\* What is left of what put has read of the reader's index and mirror.
PutKnows ==
  /\ putting # "idle" => putLen > 0
  /\ putting \in {"mirror", "behind"} => unread = 0 \/ RdM # WrM
  /\ putting = "ahead" => RdM = WrM
  /\ putting = "copy" => putHeld >= unread
  /\ putting \in Stores => putLen <= Size - unread
  /\ putting = "index" => wi + putLen < Size
  /\ putting \in {"flip", "wrap"} => wi + putLen >= Size

\* The same of get and the writer's.
GetKnows ==
  /\ getting # "idle" => getLen > 0
  /\ getting = "mirror" => unread = Size \/ RdM = WrM
  /\ getting = "compare" => unread > 0
  /\ getting = "ahead" => RdM = WrM
  /\ getting = "behind" => RdM # WrM
  /\ getting = "copy" => getHeld <= unread
  /\ getting \in Stores => getLen <= unread
  /\ getting = "index" => ri + getLen < Size
  /\ getting \in {"flip", "wrap"} => ri + getLen >= Size

SharedInv ==
  /\ exact
  /\ RingTyped /\ PutTyped /\ GetTyped
  /\ Between /\ Stored /\ Pending /\ PutKnows /\ GetKnows

\* What is inductive.
UncaughtInv == ~ caught => SharedInv

------------------------------------------------------------------------------
(* Slots and numbers                                                        *)

LEMMA SizeIsNat == Size \in Nat /\ Size > 0
  BY Given

\* A remainder of less than twice the divisor takes at most one subtraction.
LEMMA Remainder ==
  ASSUME NEW M \in Nat, M > 0, NEW a \in Nat, a < M + M
  PROVE  a % M = IF a < M THEN a ELSE a - M
  OBVIOUS

\* Two steps from a slot are one of both lengths; so are two from a number.
LEMMA SlotTwice ==
  ASSUME NEW i \in Slots, NEW a \in Nat, NEW b \in Nat, a + b < Size
  PROVE  /\ Slot(i, a) \in Slots
         /\ Slot(Slot(i, a), b) = Slot(i, a + b)
  BY SizeIsNat DEF Slots, Slot

LEMMA NumTwice ==
  ASSUME NEW n \in 0 .. Size, NEW a \in Nat, NEW b \in Nat, a + b <= Size
  PROVE  /\ Num(n, a) \in 0 .. Size
         /\ Num(Num(n, a), b) = Num(n, a + b)
  BY SizeIsNat DEF Laps, Num

\* The model's remainders are Slot and Num.
LEMMA SlotIs ==
  ASSUME NEW i \in Slots, NEW k \in 0 .. Size
  PROVE  (i + k) % Size = Slot(i, k) /\ Slot(i, k) \in Slots
<1>1. i + k \in Nat /\ i + k < Size + Size
  BY SizeIsNat DEF Slots
<1> QED BY <1>1, Remainder, SizeIsNat DEF Slot, Slots

LEMMA NumIs ==
  ASSUME NEW n \in 0 .. Size, NEW k \in 0 .. Size
  PROVE  (n + k) % Laps = Num(n, k) /\ Num(n, k) \in 0 .. Size
<1>1. n + k \in Nat /\ n + k < Laps + Laps /\ Laps \in Nat /\ Laps > 0
  BY SizeIsNat DEF Laps
<1>2. (n + k) % Laps = Num(n, k)
  BY <1>1, Remainder DEF Num
<1>3. Num(n, k) \in 0 .. Size
  BY SizeIsNat DEF Num, Laps
<1> QED BY <1>2, <1>3

\* The write index is where the unread bytes end.
LEMMA WriterAt ==
  ASSUME RingTyped, Between
  PROVE  wi = Slot(ri, unread)
  BY SizeIsNat DEF RingTyped, Between, Slots, Slot

------------------------------------------------------------------------------
(* put looks at the ring                                                    *)

\* Until it copies, put disturbs only what put knows.
LEMMA PutOnlyLooks ==
  ASSUME SharedInv, UNCHANGED <<pool, index, get, ghosts>>,
         putting # "wrap", putting' # "wrap", putting' \notin Stores
  PROVE  /\ exact' /\ RingTyped' /\ GetTyped' /\ Between' /\ Stored'
         /\ Pending' /\ GetKnows'
         /\ RdM' = RdM /\ WrM' = WrM /\ WrM = wm
<1>1. /\ pool' = pool /\ ri' = ri /\ rm' = rm /\ wi' = wi /\ wm' = wm
      /\ getting' = getting /\ getLen' = getLen /\ getHeld' = getHeld
      /\ unread' = unread /\ first' = first /\ exact' = exact
  BY DEF index, get, ghosts
<1>2. RdM' = RdM /\ WrM' = WrM /\ WrM = wm
  BY <1>1 DEF RdM, WrM
<1>3. exact' /\ RingTyped' /\ GetTyped' /\ Pending'
  BY <1>1 DEF SharedInv, RingTyped, GetTyped, Pending
<1>4. Between' /\ GetKnows'
  BY <1>1, <1>2 DEF SharedInv, Between, GetKnows
<1>5. Stored'
  BY <1>1 DEF SharedInv, Stored, Slot, Num
<1> QED BY <1>2, <1>3, <1>4, <1>5

\* The indices meet in an empty ring and in a full one.
LEMMA IndicesMeet ==
  ASSUME RingTyped, Between
  PROVE  /\ ri = wi => (unread = 0 /\ RdM = WrM) \/ (unread = Size /\ RdM # WrM)
         /\ ri # wi => unread > 0
         /\ wi > ri => RdM = WrM
         /\ ~ (wi > ri) => unread = 0 \/ RdM # WrM
  BY SizeIsNat DEF RingTyped, Between, Slots

LEMMA StepPutStatus == ASSUME SharedInv, PutStatus PROVE SharedInv'
<1>1. /\ putting' = "mirror" \/ putting' = "compare"
      /\ putting' = "mirror" => ri = wi
      /\ putLen' \in Lengths /\ putHeld' = putHeld /\ unread' = unread
      /\ UNCHANGED <<pool, index, get, ghosts>> /\ putting = "idle"
  BY DEF PutStatus, ghosts
<1>2. /\ exact' /\ RingTyped' /\ GetTyped' /\ Between' /\ Stored'
      /\ Pending' /\ GetKnows' /\ RdM' = RdM /\ WrM' = WrM
  BY <1>1, PutOnlyLooks DEF Stores
<1>3. putLen' \in Nat /\ putLen' > 0
  BY <1>1, Given
<1>4. PutTyped'
  BY <1>1, <1>3 DEF SharedInv, PutTyped, Places
<1>5. ri = wi => unread = 0 \/ RdM # WrM
  BY IndicesMeet DEF SharedInv
<1>6. PutKnows'
  BY <1>1, <1>2, <1>3, <1>5 DEF PutKnows, Stores
<1> QED BY <1>2, <1>4, <1>6 DEF SharedInv

LEMMA StepPutMirror ==
  ASSUME SharedInv, PutMirror, ~ GetHalfway PROVE SharedInv'
<1>1. /\ putting = "mirror" /\ putting' = "copy" /\ putLen' = putLen
      /\ putHeld' = IF rm = wm THEN 0 ELSE Size
      /\ unread' = unread /\ UNCHANGED <<pool, index, get, ghosts>>
  BY DEF PutMirror, ghosts
<1>2. /\ exact' /\ RingTyped' /\ GetTyped' /\ Between' /\ Stored'
      /\ Pending' /\ GetKnows' /\ WrM = wm
  BY <1>1, PutOnlyLooks DEF Stores
<1>3. /\ putLen \in Nat /\ putLen > 0 /\ unread \in 0 .. Size
      /\ unread = 0 \/ RdM # WrM
  BY <1>1 DEF SharedInv, PutKnows, PutTyped, RingTyped
<1>4. RdM = rm
  BY DEF RdM, GetHalfway
<1>5. putHeld' \in 0 .. Size /\ putHeld' >= unread
  BY <1>1, <1>2, <1>3, <1>4, SizeIsNat
<1>6. PutTyped' /\ PutKnows'
  BY <1>1, <1>3, <1>5 DEF PutTyped, PutKnows, Stores, Places
<1> QED BY <1>2, <1>6 DEF SharedInv

LEMMA StepPutCompare == ASSUME SharedInv, PutCompare PROVE SharedInv'
<1>1. /\ putting = "compare" /\ putLen' = putLen /\ putHeld' = putHeld
      /\ putting' = IF wi > ri THEN "ahead" ELSE "behind"
      /\ unread' = unread /\ UNCHANGED <<pool, index, get, ghosts>>
  BY DEF PutCompare, ghosts
<1>2. /\ exact' /\ RingTyped' /\ GetTyped' /\ Between' /\ Stored'
      /\ Pending' /\ GetKnows' /\ RdM' = RdM /\ WrM' = WrM
  BY <1>1, PutOnlyLooks DEF Stores
<1>3. /\ putLen \in Nat /\ putLen > 0 /\ putHeld \in 0 .. Size
  BY <1>1 DEF SharedInv, PutKnows, PutTyped
<1>4. /\ wi > ri => RdM = WrM
      /\ ~ (wi > ri) => unread = 0 \/ RdM # WrM
  BY IndicesMeet DEF SharedInv
<1>5. PutTyped' /\ PutKnows'
  BY <1>1, <1>2, <1>3, <1>4 DEF PutTyped, PutKnows, Stores, Places
<1> QED BY <1>2, <1>5 DEF SharedInv

LEMMA StepPutDiffer == ASSUME SharedInv, PutDiffer PROVE SharedInv'
<1>1. /\ putting \in {"ahead", "behind"} /\ putting' = "copy" /\ putLen' = putLen
      /\ putting = "ahead" => putHeld' = wi - ri
      /\ putting = "behind" => putHeld' = Size - (ri - wi)
      /\ unread' = unread /\ UNCHANGED <<pool, index, get, ghosts>>
  BY DEF PutDiffer, ghosts
<1>2. /\ exact' /\ RingTyped' /\ GetTyped' /\ Between' /\ Stored'
      /\ Pending' /\ GetKnows'
  BY <1>1, PutOnlyLooks DEF Stores
<1>3. /\ putLen \in Nat /\ putLen > 0 /\ unread \in 0 .. Size
      /\ ri \in 0 .. Size - 1 /\ wi \in 0 .. Size - 1
      /\ putting = "ahead" => RdM = WrM
      /\ putting = "behind" => unread = 0 \/ RdM # WrM
      /\ \/ RdM = WrM /\ wi = ri + unread
         \/ RdM # WrM /\ wi + Size = ri + unread
  BY <1>1 DEF SharedInv, PutKnows, PutTyped, RingTyped, Between, Slots
<1>4. putHeld' \in 0 .. Size /\ putHeld' >= unread
  BY <1>1, <1>3, SizeIsNat
<1>5. PutTyped' /\ PutKnows'
  BY <1>1, <1>3, <1>4 DEF PutTyped, PutKnows, Stores, Places
<1> QED BY <1>2, <1>5 DEF SharedInv

LEMMA StepPutFull == ASSUME SharedInv, PutFull PROVE SharedInv'
<1>1. /\ putting = "copy" /\ putting' = "idle" /\ putLen' = 0 /\ putHeld' = 0
      /\ UNCHANGED <<pool, index, get, ghosts>>
  BY DEF PutFull
<1>2. /\ exact' /\ RingTyped' /\ GetTyped' /\ Between' /\ Stored'
      /\ Pending' /\ GetKnows'
  BY <1>1, PutOnlyLooks DEF Stores
<1>3. PutTyped' /\ PutKnows'
  BY <1>1, SizeIsNat DEF PutTyped, PutKnows, Stores, Places
<1> QED BY <1>2, <1>3 DEF SharedInv

------------------------------------------------------------------------------
(* put stores                                                               *)

\* The slot k places on from i is k places from it, as PutCopy measures.
LEMMA Distance ==
  ASSUME NEW i \in Slots, NEW k \in 0 .. Size - 1
  PROVE  (Slot(i, k) - i + Size) % Size = k
<1>1. i \in 0 .. Size - 1
  BY DEF Slots
<1>2. \/ Slot(i, k) - i + Size = k + Size
      \/ Slot(i, k) - i + Size = k
  BY <1>1, SizeIsNat DEF Slot
<1>3. (k + Size) % Size = k /\ k % Size = k
  BY SizeIsNat, Remainder
<1> QED BY <1>2, <1>3

\* The unread slots are those farthest from the write index.
LEMMA UnreadBehind ==
  ASSUME RingTyped, Between, NEW k \in 0 .. unread - 1
  PROVE  /\ Slot(ri, k) = Slot(wi, Size - unread + k)
         /\ Size - unread + k \in 0 .. Size - 1
  BY SizeIsNat DEF RingTyped, Between, Slots, Slot

LEMMA StepPutCopy == ASSUME SharedInv, PutCopy PROVE SharedInv'
<1> DEFINE Far(s) == (s - wi + Size) % Size
           Nth(k) == (first + unread + k) % Laps
<1>1. /\ putting = "copy" /\ putHeld # Size /\ putLen' = Room
      /\ putting' = IF Size - wi > Room THEN "index" ELSE "flip"
      /\ ri' = ri /\ rm' = rm /\ wi' = wi /\ wm' = wm /\ putHeld' = putHeld
      /\ getting' = getting /\ getLen' = getLen /\ getHeld' = getHeld
      /\ unread' = unread /\ first' = first /\ exact' = exact
  BY DEF PutCopy, index, get, ghosts
<1>p. pool' = [s \in Slots |-> IF Far(s) < Room THEN Nth(Far(s)) ELSE pool[s]]
  BY DEF PutCopy
<1>2. /\ ri \in Slots /\ wi \in Slots /\ wi \in 0 .. Size - 1
      /\ unread \in 0 .. Size /\ first \in 0 .. Size /\ putHeld \in 0 .. Size
      /\ putLen \in Nat /\ putLen > 0 /\ putHeld >= unread
      /\ pool \in [Slots -> 0 .. Laps]
  BY <1>1 DEF SharedInv, RingTyped, PutTyped, PutKnows, Slots
<1>3. Room \in Nat /\ Room > 0 /\ Room <= Size - unread
  BY <1>1, <1>2, SizeIsNat DEF Room, Lesser
<1>f. /\ \A s \in Slots : Far(s) \in Nat
      /\ \A k \in 0 .. Size - 1 : Slot(wi, k) \in Slots /\ Far(Slot(wi, k)) = k
  <2>1. ASSUME NEW s \in Slots PROVE Far(s) \in Nat
    <3>1. s - wi + Size \in Nat /\ s - wi + Size < Size + Size
      BY <1>2, SizeIsNat DEF Slots
    <3> QED BY <3>1, SizeIsNat, Remainder
  <2>2. ASSUME NEW k \in 0 .. Size - 1
        PROVE  Slot(wi, k) \in Slots /\ Far(Slot(wi, k)) = k
    <3>1. k \in 0 .. Size
      BY SizeIsNat
    <3> QED BY <3>1, <1>2, SlotIs, Distance
  <2> QED BY <2>1, <2>2
<1>n. ASSUME NEW k \in Nat, k < Room
      PROVE  Nth(k) = Num(first, unread + k) /\ Nth(k) \in 0 .. Laps
  <2>1. /\ unread + k \in 0 .. Size
        /\ first + unread + k = first + (unread + k)
    BY <1>2, <1>3, <1>n, SizeIsNat
  <2>2. /\ (first + (unread + k)) % Laps = Num(first, unread + k)
        /\ Num(first, unread + k) \in 0 .. Size
    BY <1>2, <2>1, NumIs
  <2>3. Nth(k) = Num(first, unread + k)
    BY ONLY <2>1, <2>2, Zenon
  <2> QED BY <2>2, <2>3, SizeIsNat DEF Laps
<1> HIDE DEF Room, Far, Nth
<1>4. ASSUME NEW k \in 0 .. Room - 1
      PROVE  pool'[Slot(wi, k)] = Num(first, unread + k)
  <2>1. k \in 0 .. Size - 1 /\ k \in Nat /\ k < Room
    BY <1>2, <1>3, SizeIsNat
  <2>2. Slot(wi, k) \in Slots /\ Far(Slot(wi, k)) = k
    BY <2>1, <1>f
  <2>3. pool'[Slot(wi, k)] = Nth(k)
    BY ONLY <1>p, <2>1, <2>2
  <2> QED BY <1>n, <2>1, <2>3
<1>5. ASSUME NEW k \in 0 .. unread - 1
      PROVE  pool'[Slot(ri, k)] = pool[Slot(ri, k)]
  <2> DEFINE j == Size - unread + k
  <2>1. Slot(ri, k) = Slot(wi, j) /\ j \in 0 .. Size - 1
    BY UnreadBehind DEF SharedInv
  <2>2. ~ (j < Room)
    BY <1>2, <1>3, SizeIsNat
  <2> HIDE DEF j
  <2>3. Slot(wi, j) \in Slots /\ Far(Slot(wi, j)) = j
    BY <2>1, <1>f
  <2> QED BY ONLY <1>p, <2>1, <2>2, <2>3
<1>6. RingTyped'
  <2>1. ASSUME NEW s \in Slots PROVE pool'[s] \in 0 .. Laps
    <3>1. CASE Far(s) < Room
      <4>1. Far(s) \in Nat /\ pool'[s] = Nth(Far(s))
        BY <1>p, <1>f, <3>1
      <4> QED BY <4>1, <1>n, <3>1
    <3>2. CASE ~ (Far(s) < Room)
      BY <1>p, <1>2, <3>2
    <3> QED BY <3>1, <3>2
  <2>2. pool' \in [Slots -> 0 .. Laps]
    BY ONLY <1>p, <2>1
  <2>3. /\ ri' \in Slots /\ wi' \in Slots /\ rm' \in {0, 1} /\ wm' \in {0, 1}
        /\ unread' \in 0 .. Size /\ first' \in 0 .. Size
    BY <1>1 DEF SharedInv, RingTyped
  <2> QED BY ONLY <2>2, <2>3 DEF RingTyped
<1>7. putting' \in {"index", "flip"} /\ PutTyped' /\ GetTyped' /\ exact'
  BY <1>1, <1>2, <1>3 DEF SharedInv, PutTyped, GetTyped, Places
<1>8. RdM' = RdM /\ WrM' = WrM
  BY <1>1 DEF RdM, WrM
<1>9. Between' /\ GetKnows'
  BY <1>1, <1>8 DEF SharedInv, Between, GetKnows
<1>10. Stored'
  BY <1>1, <1>5 DEF SharedInv, Stored, Slot, Num
<1>11. Pending'
  <2>1. \A k : Slot(wi, k)' = Slot(wi, k) /\ Num(first, unread + k)' = Num(first, unread + k)
    BY <1>1 DEF Slot, Num
  <2> QED BY <1>1, <1>4, <2>1 DEF Pending
<1>12. PutKnows'
  BY <1>1, <1>2, <1>3, SizeIsNat DEF PutKnows, Stores
<1> QED BY <1>6, <1>7, <1>9, <1>10, <1>11, <1>12 DEF SharedInv

LEMMA StepPutFlip == ASSUME SharedInv, PutFlip PROVE SharedInv'
<1>1. /\ putting = "flip" /\ putting' = "wrap" /\ wm' = 1 - wm
      /\ pool' = pool /\ ri' = ri /\ rm' = rm /\ wi' = wi
      /\ putLen' = putLen /\ putHeld' = putHeld
      /\ getting' = getting /\ getLen' = getLen /\ getHeld' = getHeld
      /\ unread' = unread /\ first' = first /\ exact' = exact
  BY DEF PutFlip, get, ghosts
<1>2. wm' \in {0, 1} /\ RdM' = RdM /\ WrM' = WrM
  BY <1>1 DEF SharedInv, RingTyped, RdM, WrM
<1>3. exact' /\ RingTyped' /\ PutTyped' /\ GetTyped'
  BY <1>1, <1>2 DEF SharedInv, RingTyped, PutTyped, GetTyped, Places
<1>4. Between' /\ GetKnows' /\ PutKnows'
  BY <1>1, <1>2 DEF SharedInv, Between, GetKnows, PutKnows, Stores
<1>5. Stored' /\ Pending'
  BY <1>1 DEF SharedInv, Stored, Pending, Stores, Slot, Num
<1> QED BY <1>3, <1>4, <1>5 DEF SharedInv

\* The two stores of the write index count what is pending.
LEMMA PutCounts ==
  ASSUME SharedInv, putting \in Stores, UNCHANGED <<pool, ri, first>>,
         unread' = unread + putLen
  PROVE  Stored'
<1>1. /\ pool' = pool /\ ri' = ri /\ first' = first /\ unread' = unread + putLen
      /\ ri \in Slots /\ unread \in 0 .. Size
      /\ putLen \in Nat /\ putLen <= Size - unread
  BY DEF SharedInv, RingTyped, PutTyped, PutKnows
<1>2. wi = Slot(ri, unread)
  BY WriterAt DEF SharedInv
<1>3. ASSUME NEW k \in 0 .. unread + putLen - 1
      PROVE  pool[Slot(ri, k)] = Num(first, k)
  <2>1. CASE k < unread
    BY <2>1, <1>1 DEF SharedInv, Stored
  <2>2. CASE ~ (k < unread)
    <3>1. PICK j \in 0 .. putLen - 1 : k = unread + j
      <4>1. k - unread \in 0 .. putLen - 1 /\ k = unread + (k - unread)
        BY <2>2, <1>1, SizeIsNat
      <4> QED BY <4>1
    <3>2. pool[Slot(wi, j)] = Num(first, unread + j)
      BY DEF SharedInv, Pending
    <3>3. Slot(wi, j) = Slot(ri, unread + j)
      BY <1>1, <1>2, SlotTwice, SizeIsNat
    <3> QED BY <3>1, <3>2, <3>3
  <2> QED BY <2>1, <2>2
<1>4. \A k : Slot(ri, k)' = Slot(ri, k) /\ Num(first, k)' = Num(first, k)
  BY <1>1 DEF Slot, Num
<1> QED BY ONLY <1>1, <1>3, <1>4 DEF Stored

LEMMA StepPutIndex == ASSUME SharedInv, PutIndex PROVE SharedInv'
<1>1. /\ putting = "index" /\ putting' = "idle" /\ putLen' = 0 /\ putHeld' = 0
      /\ wi' = wi + putLen /\ unread' = unread + putLen
      /\ pool' = pool /\ ri' = ri /\ rm' = rm /\ wm' = wm
      /\ getting' = getting /\ getLen' = getLen /\ getHeld' = getHeld
      /\ first' = first /\ exact' = exact
  BY DEF PutIndex, get
<1>2. /\ putLen \in Nat /\ putLen > 0 /\ putLen <= Size - unread
      /\ wi + putLen < Size /\ wi \in 0 .. Size - 1 /\ unread \in 0 .. Size
  BY <1>1 DEF SharedInv, RingTyped, PutTyped, PutKnows, Stores, Slots
<1>3. /\ wi' \in Slots /\ unread' \in 0 .. Size
      /\ unread' > unread
  BY <1>1, <1>2, SizeIsNat DEF Slots
<1>4. exact' /\ RingTyped' /\ PutTyped' /\ GetTyped' /\ Pending' /\ PutKnows'
  <2>1. exact' /\ RingTyped' /\ GetTyped'
    BY <1>1, <1>3 DEF SharedInv, RingTyped, GetTyped
  <2>2. PutTyped' /\ Pending' /\ PutKnows'
    BY <1>1, SizeIsNat DEF PutTyped, Pending, PutKnows, Stores, Places
  <2> QED BY <2>1, <2>2
<1>5. RdM' = RdM /\ WrM' = WrM
  BY <1>1 DEF RdM, WrM
<1>6. Between'
  <2>1. ri \in 0 .. Size - 1
    BY DEF SharedInv, RingTyped, Slots
  <2> QED BY <1>1, <1>2, <1>5, <2>1, SizeIsNat DEF SharedInv, Between
<1>7. Stored'
  BY <1>1, PutCounts DEF Stores
<1>8. GetKnows'
  <2>1. getLen \in Nat /\ getHeld \in 0 .. Size /\ GetKnows
    BY DEF SharedInv, GetTyped
  <2> QED BY <1>1, <1>2, <1>3, <1>5, <2>1, SizeIsNat DEF GetKnows, Stores
<1> QED BY <1>4, <1>6, <1>7, <1>8 DEF SharedInv

LEMMA StepPutWrap ==
  ASSUME SharedInv, PutWrap, ~ GetRereads PROVE SharedInv'
<1>1. /\ putting = "wrap" /\ putting' = "idle" /\ putLen' = 0 /\ putHeld' = 0
      /\ wi' = putLen - (Size - wi) /\ unread' = unread + putLen
      /\ pool' = pool /\ ri' = ri /\ rm' = rm /\ wm' = wm
      /\ getting' = getting /\ getLen' = getLen /\ getHeld' = getHeld
      /\ first' = first /\ exact' = exact
  BY DEF PutWrap, get
<1>2. /\ putLen \in Nat /\ putLen > 0 /\ putLen <= Size - unread
      /\ wi + putLen >= Size /\ wi \in 0 .. Size - 1 /\ unread \in 0 .. Size
      /\ ri \in 0 .. Size - 1
  BY <1>1 DEF SharedInv, RingTyped, PutTyped, PutKnows, Stores, Slots
<1>3. RdM' = RdM /\ WrM = 1 - wm /\ WrM' = wm
  BY <1>1 DEF RdM, WrM
<1>4. /\ rm \in {0, 1} /\ wm \in {0, 1} /\ RdM \in {0, 1}
  BY DEF SharedInv, RingTyped, RdM
<1>5. RdM = WrM /\ wi = ri + unread
  BY <1>2, SizeIsNat DEF SharedInv, Between
<1>6. /\ wi' \in Slots /\ unread' \in 0 .. Size /\ unread' > unread
      /\ wi' + Size = ri + unread'
  BY <1>1, <1>2, <1>5, SizeIsNat DEF Slots
<1>7. exact' /\ RingTyped' /\ PutTyped' /\ GetTyped' /\ Pending' /\ PutKnows'
  <2>1. exact' /\ RingTyped' /\ GetTyped'
    BY <1>1, <1>6 DEF SharedInv, RingTyped, GetTyped
  <2>2. PutTyped' /\ Pending' /\ PutKnows'
    BY <1>1, SizeIsNat DEF PutTyped, Pending, PutKnows, Stores, Places
  <2> QED BY <2>1, <2>2
<1>8. Between'
  <2>1. RdM' # WrM'
    BY <1>3, <1>4, <1>5
  <2> QED BY <1>1, <1>6, <2>1 DEF Between
<1>9. Stored'
  BY <1>1, PutCounts DEF Stores
<1>10. GetKnows'
  <2>1. getLen \in Nat /\ getHeld \in 0 .. Size /\ GetKnows
    BY DEF SharedInv, GetTyped
  <2>2. getting \notin {"mirror", "compare", "ahead", "behind"}
    BY DEF GetRereads
  <2> QED BY <1>1, <1>2, <1>6, <2>1, <2>2, SizeIsNat DEF GetKnows, Stores
<1> QED BY <1>7, <1>8, <1>9, <1>10 DEF SharedInv

------------------------------------------------------------------------------
(* get looks at the ring                                                    *)

\* Until it counts, get disturbs only what get knows.
LEMMA GetOnlyLooks ==
  ASSUME SharedInv, UNCHANGED <<pool, index, put, unread, first>>,
         getting # "wrap", getting' # "wrap"
  PROVE  /\ RingTyped' /\ PutTyped' /\ Between' /\ Stored' /\ Pending' /\ PutKnows'
         /\ RdM' = RdM /\ WrM' = WrM /\ RdM = rm
<1>1. /\ pool' = pool /\ ri' = ri /\ rm' = rm /\ wi' = wi /\ wm' = wm
      /\ putting' = putting /\ putLen' = putLen /\ putHeld' = putHeld
      /\ unread' = unread /\ first' = first
  BY DEF index, put
<1>2. RdM' = RdM /\ WrM' = WrM /\ RdM = rm
  BY <1>1 DEF RdM, WrM
<1>3. RingTyped' /\ PutTyped'
  BY <1>1 DEF SharedInv, RingTyped, PutTyped
<1>4. Between' /\ PutKnows'
  BY <1>1, <1>2 DEF SharedInv, Between, PutKnows
<1>5. Stored' /\ Pending'
  BY <1>1 DEF SharedInv, Stored, Pending, Slot, Num
<1> QED BY <1>2, <1>3, <1>4, <1>5

LEMMA StepGetStatus == ASSUME SharedInv, GetStatus PROVE SharedInv'
<1>1. /\ getting = "idle" /\ getting' = IF ri = wi THEN "mirror" ELSE "compare"
      /\ getLen' \in Lengths /\ getHeld' = getHeld
      /\ unread' = unread /\ first' = first /\ exact' = exact
      /\ UNCHANGED <<pool, index, put, unread, first>>
  BY DEF GetStatus, ghosts
<1>2. /\ RingTyped' /\ PutTyped' /\ Between' /\ Stored' /\ Pending' /\ PutKnows'
      /\ RdM' = RdM /\ WrM' = WrM
  BY <1>1, GetOnlyLooks
<1>3. getLen' \in Nat /\ getLen' > 0
  BY <1>1, Given
<1>4. GetTyped' /\ exact'
  BY <1>1, <1>3 DEF SharedInv, GetTyped, Places
<1>5. /\ ri = wi => unread = Size \/ RdM = WrM
      /\ ri # wi => unread > 0
  BY IndicesMeet DEF SharedInv
<1>6. GetKnows'
  BY <1>1, <1>2, <1>3, <1>5 DEF GetKnows, Stores
<1> QED BY <1>2, <1>4, <1>6 DEF SharedInv

LEMMA StepGetMirror ==
  ASSUME SharedInv, GetMirror, ~ PutHalfway PROVE SharedInv'
<1>1. /\ getting = "mirror" /\ getting' = "copy" /\ getLen' = getLen
      /\ getHeld' = IF rm = wm THEN 0 ELSE Size
      /\ unread' = unread /\ first' = first /\ exact' = exact
      /\ UNCHANGED <<pool, index, put, unread, first>>
  BY DEF GetMirror, ghosts
<1>2. /\ RingTyped' /\ PutTyped' /\ Between' /\ Stored' /\ Pending' /\ PutKnows'
      /\ RdM = rm
  BY <1>1, GetOnlyLooks
<1>3. /\ getLen \in Nat /\ getLen > 0 /\ unread \in 0 .. Size
      /\ unread = Size \/ RdM = WrM
  BY <1>1 DEF SharedInv, GetKnows, GetTyped, RingTyped
<1>4. WrM = wm
  BY DEF WrM, PutHalfway
<1>5. getHeld' \in 0 .. Size /\ getHeld' <= unread
  BY <1>1, <1>2, <1>3, <1>4, SizeIsNat
<1>6. GetTyped' /\ GetKnows' /\ exact'
  BY <1>1, <1>3, <1>5 DEF SharedInv, GetTyped, GetKnows, Stores, Places
<1> QED BY <1>2, <1>6 DEF SharedInv

LEMMA StepGetCompare == ASSUME SharedInv, GetCompare PROVE SharedInv'
<1>1. /\ getting = "compare" /\ getLen' = getLen /\ getHeld' = getHeld
      /\ getting' = IF wi > ri THEN "ahead" ELSE "behind"
      /\ unread' = unread /\ first' = first /\ exact' = exact
      /\ UNCHANGED <<pool, index, put, unread, first>>
  BY DEF GetCompare, ghosts
<1>2. /\ RingTyped' /\ PutTyped' /\ Between' /\ Stored' /\ Pending' /\ PutKnows'
      /\ RdM' = RdM /\ WrM' = WrM
  BY <1>1, GetOnlyLooks
<1>3. /\ getLen \in Nat /\ getLen > 0 /\ getHeld \in 0 .. Size
      /\ unread \in 0 .. Size /\ unread > 0
  BY <1>1 DEF SharedInv, GetKnows, GetTyped, RingTyped
<1>4. /\ wi > ri => RdM = WrM
      /\ ~ (wi > ri) => RdM # WrM
  BY <1>3, IndicesMeet DEF SharedInv
<1>5. GetTyped' /\ GetKnows' /\ exact'
  BY <1>1, <1>2, <1>3, <1>4 DEF SharedInv, GetTyped, GetKnows, Stores, Places
<1> QED BY <1>2, <1>5 DEF SharedInv

LEMMA StepGetDiffer == ASSUME SharedInv, GetDiffer PROVE SharedInv'
<1>1. /\ getting \in {"ahead", "behind"} /\ getting' = "copy" /\ getLen' = getLen
      /\ getting = "ahead" => getHeld' = wi - ri
      /\ getting = "behind" => getHeld' = Size - (ri - wi)
      /\ unread' = unread /\ first' = first /\ exact' = exact
      /\ UNCHANGED <<pool, index, put, unread, first>>
  BY DEF GetDiffer, ghosts
<1>2. RingTyped' /\ PutTyped' /\ Between' /\ Stored' /\ Pending' /\ PutKnows'
  BY <1>1, GetOnlyLooks
<1>3. /\ getLen \in Nat /\ getLen > 0 /\ unread \in 0 .. Size
      /\ ri \in 0 .. Size - 1 /\ wi \in 0 .. Size - 1
      /\ getting = "ahead" => RdM = WrM
      /\ getting = "behind" => RdM # WrM
      /\ \/ RdM = WrM /\ wi = ri + unread
         \/ RdM # WrM /\ wi + Size = ri + unread
  BY <1>1 DEF SharedInv, GetKnows, GetTyped, RingTyped, Between, Slots
<1>4. getHeld' \in 0 .. Size /\ getHeld' <= unread
  BY <1>1, <1>3, SizeIsNat
<1>5. GetTyped' /\ GetKnows' /\ exact'
  BY <1>1, <1>3, <1>4 DEF SharedInv, GetTyped, GetKnows, Stores, Places
<1> QED BY <1>2, <1>5 DEF SharedInv

LEMMA StepGetEmpty == ASSUME SharedInv, GetEmpty PROVE SharedInv'
<1>1. /\ getting = "copy" /\ getting' = "idle" /\ getLen' = 0 /\ getHeld' = getHeld
      /\ unread' = unread /\ first' = first /\ exact' = exact
      /\ UNCHANGED <<pool, index, put, unread, first>>
  BY DEF GetEmpty, ghosts
<1>2. RingTyped' /\ PutTyped' /\ Between' /\ Stored' /\ Pending' /\ PutKnows'
  BY <1>1, GetOnlyLooks
<1>3. GetTyped' /\ GetKnows' /\ exact'
  BY <1>1, SizeIsNat DEF SharedInv, GetTyped, GetKnows, Stores, Places
<1> QED BY <1>2, <1>3 DEF SharedInv

------------------------------------------------------------------------------
(* get takes                                                                *)

\* No more is copied out than is unread, so it is what was put.
LEMMA StepGetCopy == ASSUME SharedInv, GetCopy PROVE SharedInv'
<1>1. /\ getting = "copy" /\ getHeld > 0 /\ getLen' = Lesser(getLen, getHeld)
      /\ getting' = IF Size - ri > getLen' THEN "index" ELSE "flip"
      /\ getHeld' = getHeld /\ unread' = unread
      /\ UNCHANGED <<pool, index, put, unread, first>>
  BY DEF GetCopy
<1>2. /\ ri \in Slots /\ ri \in 0 .. Size - 1 /\ unread \in 0 .. Size
      /\ first \in 0 .. Size /\ getHeld \in 0 .. Size /\ getHeld <= unread
      /\ getLen \in Nat /\ getLen > 0
  BY <1>1 DEF SharedInv, RingTyped, GetTyped, GetKnows, Slots
<1> DEFINE n == Lesser(getLen, getHeld)
<1>3. getLen' = n /\ n \in Nat /\ n > 0 /\ n <= unread
  BY <1>1, <1>2, SizeIsNat DEF Lesser
<1> HIDE DEF n
<1>4. /\ RingTyped' /\ PutTyped' /\ Between' /\ Stored' /\ Pending' /\ PutKnows'
      /\ ri' = ri
  BY <1>1, GetOnlyLooks DEF index
<1>5. ASSUME NEW k \in 0 .. n - 1
      PROVE  pool[(ri + k) % Size] = (first + k) % Laps
  <2>1. k \in 0 .. Size /\ k \in 0 .. unread - 1
    BY <1>2, <1>3, SizeIsNat
  <2>2. (ri + k) % Size = Slot(ri, k) /\ (first + k) % Laps = Num(first, k)
    BY <1>2, <2>1, SlotIs, NumIs
  <2>3. pool[Slot(ri, k)] = Num(first, k)
    BY <2>1 DEF SharedInv, Stored
  <2> QED BY ONLY <2>2, <2>3, Zenon
<1>6. exact'
  BY <1>3, <1>5, Zenon DEF GetCopy, SharedInv
<1>7. getting' \in {"index", "flip"} /\ GetTyped'
  BY <1>1, <1>2, <1>3 DEF GetTyped, Places
<1>8. GetKnows'
  BY <1>1, <1>2, <1>3, <1>4, SizeIsNat DEF GetKnows, Stores
<1> QED BY <1>4, <1>6, <1>7, <1>8 DEF SharedInv

LEMMA StepGetFlip == ASSUME SharedInv, GetFlip PROVE SharedInv'
<1>1. /\ getting = "flip" /\ getting' = "wrap" /\ rm' = 1 - rm
      /\ pool' = pool /\ ri' = ri /\ wi' = wi /\ wm' = wm
      /\ getLen' = getLen /\ getHeld' = getHeld
      /\ putting' = putting /\ putLen' = putLen /\ putHeld' = putHeld
      /\ unread' = unread /\ first' = first /\ exact' = exact
  BY DEF GetFlip, put, ghosts
<1>2. rm' \in {0, 1} /\ RdM' = RdM /\ WrM' = WrM
  BY <1>1 DEF SharedInv, RingTyped, RdM, WrM
<1>3. exact' /\ RingTyped' /\ PutTyped' /\ GetTyped'
  BY <1>1, <1>2 DEF SharedInv, RingTyped, PutTyped, GetTyped, Places
<1>4. Between' /\ GetKnows' /\ PutKnows'
  BY <1>1, <1>2 DEF SharedInv, Between, GetKnows, PutKnows, Stores
<1>5. Stored' /\ Pending'
  BY <1>1 DEF SharedInv, Stored, Pending, Stores, Slot, Num
<1> QED BY <1>3, <1>4, <1>5 DEF SharedInv

\* The two stores of the read index leave the same bytes at the same numbers.
LEMMA GetCounts ==
  ASSUME SharedInv, getting \in Stores, UNCHANGED <<pool, wi, putting, putLen>>,
         ri' = Slot(ri, getLen), Taken
  PROVE  Stored' /\ Pending'
<1>1. /\ pool' = pool /\ wi' = wi /\ putting' = putting /\ putLen' = putLen
      /\ unread' = unread - getLen /\ ri' = Slot(ri, getLen)
  BY DEF Taken
<1>2. /\ ri \in Slots /\ unread \in 0 .. Size /\ first \in 0 .. Size
      /\ getLen \in Nat /\ getLen <= unread
  BY DEF SharedInv, RingTyped, GetTyped, GetKnows
<1>3. first' = Num(first, getLen)
  <2>1. getLen \in 0 .. Size
    BY <1>2, SizeIsNat
  <2> QED BY <1>2, <2>1, NumIs DEF Taken
<1>4. ASSUME NEW k \in Nat, getLen + k < Size
      PROVE  Slot(ri, k)' = Slot(ri, getLen + k)
  <2>1. Slot(Slot(ri, getLen), k) = Slot(ri, getLen + k)
    BY <1>2, <1>4, SlotTwice
  <2>2. Slot(ri, k)' = Slot(Slot(ri, getLen), k)
    BY <1>1, Zenon DEF Slot
  <2> QED BY <2>1, <2>2
<1>5. ASSUME NEW k \in Nat, getLen + k <= Size
      PROVE  Num(first', k) = Num(first, getLen + k)
  BY <1>2, <1>3, <1>5, NumTwice
<1>6. Stored'
  <2>1. ASSUME NEW k \in 0 .. unread - getLen - 1
        PROVE  pool[Slot(ri, k)'] = Num(first', k)
    <3>1. /\ k \in Nat /\ getLen + k < Size /\ getLen + k <= Size
          /\ getLen + k \in 0 .. unread - 1
      BY <1>2, SizeIsNat
    <3>2. pool[Slot(ri, getLen + k)] = Num(first, getLen + k)
      BY <3>1 DEF SharedInv, Stored
    <3> QED BY <3>1, <3>2, <1>4, <1>5
  <2>2. \A k : Num(first, k)' = Num(first', k)
    BY DEF Num, Laps
  <2> QED BY ONLY <1>1, <2>1, <2>2 DEF Stored
<1>7. Pending'
  <2>1. SUFFICES ASSUME putting \in Stores PROVE Pending'
    BY <1>1 DEF Pending
  <2>2. putLen \in Nat /\ putLen <= Size - unread
    BY <2>1 DEF SharedInv, PutTyped, PutKnows
  <2>3. ASSUME NEW k \in 0 .. putLen - 1
        PROVE  pool'[Slot(wi, k)'] = Num(first, unread + k)'
    <3>1. pool[Slot(wi, k)] = Num(first, unread + k)
      BY <2>1 DEF SharedInv, Pending
    <3> DEFINE j == unread - getLen + k
    <3>2. j \in Nat /\ getLen + j <= Size /\ getLen + j = unread + k
      BY <1>2, <2>2, SizeIsNat
    <3>3. Num(first, unread + k)' = Num(first', j)
      BY <1>1 DEF Num, Laps
    <3> HIDE DEF j
    <3>4. Num(first', j) = Num(first, unread + k)
      BY <3>2, <1>5
    <3>5. pool'[Slot(wi, k)'] = pool[Slot(wi, k)]
      BY <1>1 DEF Slot
    <3> QED BY <3>1, <3>3, <3>4, <3>5
  <2> QED BY <1>1, <2>3 DEF Pending
<1> QED BY <1>6, <1>7

LEMMA StepGetIndex == ASSUME SharedInv, GetIndex PROVE SharedInv'
<1>1. /\ getting = "index" /\ getting' = "idle" /\ getLen' = 0 /\ getHeld' = 0
      /\ ri' = ri + getLen /\ unread' = unread - getLen
      /\ first' = (first + getLen) % Laps
      /\ pool' = pool /\ rm' = rm /\ wi' = wi /\ wm' = wm
      /\ putting' = putting /\ putLen' = putLen /\ putHeld' = putHeld
      /\ exact' = exact
  BY DEF GetIndex, Taken, put
<1>2. /\ getLen \in Nat /\ getLen > 0 /\ getLen <= unread
      /\ ri + getLen < Size /\ ri \in Slots /\ ri \in 0 .. Size - 1
      /\ unread \in 0 .. Size /\ first \in 0 .. Size /\ getLen \in 0 .. Size
  BY <1>1, SizeIsNat DEF SharedInv, RingTyped, GetTyped, GetKnows, Stores, Slots
<1>3. first' \in 0 .. Size
  BY <1>1, <1>2, NumIs
<1>4. ri' \in Slots /\ ri' = Slot(ri, getLen) /\ unread' \in 0 .. Size /\ unread' < unread
  BY <1>1, <1>2, SizeIsNat DEF Slots, Slot
<1>5. exact' /\ RingTyped' /\ PutTyped' /\ GetTyped' /\ GetKnows'
  <2>1. exact' /\ RingTyped' /\ PutTyped'
    BY <1>1, <1>3, <1>4 DEF SharedInv, RingTyped, PutTyped
  <2>2. GetTyped' /\ GetKnows'
    BY <1>1, SizeIsNat DEF GetTyped, GetKnows, Stores, Places
  <2> QED BY <2>1, <2>2
<1>6. RdM' = RdM /\ WrM' = WrM
  BY <1>1 DEF RdM, WrM
<1>7. Between'
  <2>1. wi \in 0 .. Size - 1
    BY DEF SharedInv, RingTyped, Slots
  <2> QED BY <1>1, <1>2, <1>6, <2>1, SizeIsNat DEF SharedInv, Between
<1>8. Stored' /\ Pending'
  BY <1>1, <1>4, GetCounts DEF GetIndex, Stores
<1>9. PutKnows'
  <2>1. putLen \in Nat /\ putHeld \in 0 .. Size /\ PutKnows
    BY DEF SharedInv, PutTyped
  <2> QED BY <1>1, <1>2, <1>4, <1>6, <2>1, SizeIsNat DEF PutKnows, Stores
<1> QED BY <1>5, <1>7, <1>8, <1>9 DEF SharedInv

LEMMA StepGetWrap ==
  ASSUME SharedInv, GetWrap, ~ PutRereads PROVE SharedInv'
<1>1. /\ getting = "wrap" /\ getting' = "idle" /\ getLen' = 0 /\ getHeld' = 0
      /\ ri' = getLen - (Size - ri) /\ unread' = unread - getLen
      /\ first' = (first + getLen) % Laps
      /\ pool' = pool /\ rm' = rm /\ wi' = wi /\ wm' = wm
      /\ putting' = putting /\ putLen' = putLen /\ putHeld' = putHeld
      /\ exact' = exact
  BY DEF GetWrap, Taken, put
<1>2. /\ getLen \in Nat /\ getLen > 0 /\ getLen <= unread
      /\ ri + getLen >= Size /\ ri \in Slots /\ ri \in 0 .. Size - 1
      /\ wi \in 0 .. Size - 1
      /\ unread \in 0 .. Size /\ first \in 0 .. Size /\ getLen \in 0 .. Size
  BY <1>1, SizeIsNat DEF SharedInv, RingTyped, GetTyped, GetKnows, Stores, Slots
<1>3. WrM' = WrM /\ RdM = 1 - rm /\ RdM' = rm
  BY <1>1 DEF RdM, WrM
<1>4. rm \in {0, 1} /\ wm \in {0, 1} /\ WrM \in {0, 1}
  BY DEF SharedInv, RingTyped, WrM
<1>5. RdM # WrM /\ wi + Size = ri + unread
  BY <1>2, SizeIsNat DEF SharedInv, Between
<1>6. first' \in 0 .. Size
  BY <1>1, <1>2, NumIs
<1>7. /\ ri' \in Slots /\ ri' = Slot(ri, getLen)
      /\ unread' \in 0 .. Size /\ unread' < unread /\ wi = ri' + unread'
  BY <1>1, <1>2, <1>5, SizeIsNat DEF Slots, Slot
<1>8. exact' /\ RingTyped' /\ PutTyped' /\ GetTyped' /\ GetKnows'
  <2>1. exact' /\ RingTyped' /\ PutTyped'
    BY <1>1, <1>6, <1>7 DEF SharedInv, RingTyped, PutTyped
  <2>2. GetTyped' /\ GetKnows'
    BY <1>1, SizeIsNat DEF GetTyped, GetKnows, Stores, Places
  <2> QED BY <2>1, <2>2
<1>9. Between'
  <2>1. RdM' = WrM'
    BY <1>3, <1>4, <1>5
  <2> QED BY <1>1, <1>7, <2>1 DEF Between
<1>10. Stored' /\ Pending'
  BY <1>1, <1>7, GetCounts DEF GetWrap, Stores
<1>11. PutKnows'
  <2>1. putLen \in Nat /\ putHeld \in 0 .. Size /\ PutKnows
    BY DEF SharedInv, PutTyped
  <2>2. putting \notin {"mirror", "compare", "ahead", "behind"}
    BY DEF PutRereads
  <2> QED BY <1>1, <1>2, <1>7, <2>1, <2>2, SizeIsNat DEF PutKnows, Stores
<1> QED BY <1>8, <1>9, <1>10, <1>11 DEF SharedInv

------------------------------------------------------------------------------
(* The invariant                                                            *)

LEMMA SharedInitially == Init => UncaughtInv
<1> SUFFICES ASSUME Init PROVE SharedInv
  BY DEF UncaughtInv
<1>1. /\ pool = [s \in Slots |-> Laps]
      /\ ri = 0 /\ rm = 0 /\ wi = 0 /\ wm = 0
      /\ putting = "idle" /\ putLen = 0 /\ putHeld = 0
      /\ getting = "idle" /\ getLen = 0 /\ getHeld = 0
      /\ unread = 0 /\ first = 0 /\ exact
  BY DEF Init
<1>2. RingTyped /\ PutTyped /\ GetTyped
  BY <1>1, SizeIsNat DEF RingTyped, PutTyped, GetTyped, Slots, Laps, Places
<1>3. Between
  BY <1>1 DEF Between, RdM, WrM
<1>4. Stored /\ Pending
  BY <1>1 DEF Stored, Pending, Stores
<1>5. PutKnows /\ GetKnows
  BY <1>1 DEF PutKnows, GetKnows, Stores
<1> QED BY <1>1, <1>2, <1>3, <1>4, <1>5 DEF SharedInv

\* A step that is not a catch keeps the invariant, and a catch is for good.
LEMMA SharedPreserved == UncaughtInv /\ [Next]_vars => UncaughtInv'
<1> SUFFICES ASSUME UncaughtInv, [Next]_vars, ~ caught' PROVE SharedInv'
  BY DEF UncaughtInv
<1>1. ASSUME UNCHANGED vars PROVE SharedInv'
  <2>1. /\ caught' = caught /\ pool' = pool /\ ri' = ri /\ rm' = rm /\ wi' = wi
        /\ wm' = wm /\ unread' = unread /\ first' = first /\ exact' = exact
        /\ UNCHANGED put /\ UNCHANGED get
    BY <1>1 DEF vars, index, ghosts
  <2>2. SharedInv
    BY <2>1 DEF UncaughtInv
  <2> QED
    BY <2>1, <2>2 DEF put, get, SharedInv, RingTyped, PutTyped, GetTyped, Between,
       Stored, Pending, PutKnows, GetKnows, RdM, WrM, Slot, Num
<1>2. ASSUME Put PROVE SharedInv'
  <2>1. CASE PutMirror
    <3>1. ~ caught /\ ~ GetHalfway
      BY <2>1 DEF PutMirror, Catches
    <3> QED BY <2>1, <3>1, StepPutMirror DEF UncaughtInv
  <2>2. CASE PutWrap
    <3>1. ~ caught /\ ~ GetRereads
      BY <2>2 DEF PutWrap, Catches
    <3> QED BY <2>2, <3>1, StepPutWrap DEF UncaughtInv
  <2>3. CASE PutStatus \/ PutCompare \/ PutDiffer \/ PutFull \/ PutCopy \/ PutIndex \/ PutFlip
    <3>1. SharedInv
      BY <2>3 DEF UncaughtInv, PutStatus, PutCompare, PutDiffer, PutFull, PutCopy,
                  PutIndex, PutFlip
    <3> QED
      BY <2>3, <3>1, StepPutStatus, StepPutCompare, StepPutDiffer, StepPutFull,
         StepPutCopy, StepPutIndex, StepPutFlip
  <2> QED BY <1>2, <2>1, <2>2, <2>3 DEF Put
<1>3. ASSUME Get PROVE SharedInv'
  <2>1. CASE GetMirror
    <3>1. ~ caught /\ ~ PutHalfway
      BY <2>1 DEF GetMirror, Catches
    <3> QED BY <2>1, <3>1, StepGetMirror DEF UncaughtInv
  <2>2. CASE GetWrap
    <3>1. ~ caught /\ ~ PutRereads
      BY <2>2 DEF GetWrap, Catches
    <3> QED BY <2>2, <3>1, StepGetWrap DEF UncaughtInv
  <2>3. CASE GetStatus \/ GetCompare \/ GetDiffer \/ GetEmpty \/ GetCopy \/ GetIndex \/ GetFlip
    <3>1. SharedInv
      BY <2>3 DEF UncaughtInv, GetStatus, GetCompare, GetDiffer, GetEmpty, GetCopy,
                  GetIndex, GetFlip
    <3> QED
      BY <2>3, <3>1, StepGetStatus, StepGetCompare, StepGetDiffer, StepGetEmpty,
         StepGetCopy, StepGetIndex, StepGetFlip
  <2> QED BY <1>3, <2>1, <2>2, <2>3 DEF Get
<1> QED BY <1>1, <1>2, <1>3 DEF Next

\* What both threads rely on holds until one of them has been caught.
THEOREM SharedInvariant == Spec => []UncaughtInv
  BY SharedInitially, SharedPreserved, PTL DEF Spec

\* Without a lock the lengths and the bytes are right, for any size and any
\* lengths asked for, until a thread reads a mirror in the middle of the other's
\* wrap or the other wraps in the middle of ringbuffer_data_len.
THEOREM RingSoundUntilCaught == Spec => []SoundUntilCaught
<1>1. UncaughtInv => SoundUntilCaught
  BY SizeIsNat DEF UncaughtInv, SharedInv, PutKnows, GetKnows, PutTyped, GetTyped,
                   RingTyped, SoundUntilCaught, Sound
<1> QED
  BY <1>1, SharedInvariant, PTL
==============================================================================
