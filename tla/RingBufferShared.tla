--------------------------- MODULE RingBufferShared ---------------------------
(***************************************************************************)
(* The ring buffer of framework/ringbuffer as the logger uses it: one      *)
(* thread calls ringbuffer_put, another ringbuffer_get, and there is no    *)
(* lock.  One action per access to an index or mirror of the other thread  *)
(* and per store to one's own; the program is built without optimisation,  *)
(* so that every access of the source is one of memory.  A memcpy is one   *)
(* step and the accesses are seen in program order.                        *)
(*                                                                         *)
(* The bytes put are numbered, modulo Laps, so that each slot holds in     *)
(* successive laps different numbers.                                      *)
(***************************************************************************)
EXTENDS Integers

CONSTANTS
  Size,       \* rb->buffer_size
  Lengths     \* the lengths ringbuffer_put and ringbuffer_get are called with

ASSUME Given == Size \in Nat \ {0} /\ Lengths \subseteq Nat \ {0}

VARIABLES
  pool, ri, rm, wi, wm,      \* *rb
  putting, putLen, putHeld,  \* ringbuffer_put: place, length, what data_len says
  getting, getLen, getHeld,  \* the same of ringbuffer_get
  \* What follows is not in the code.
  unread,                    \* bytes put and not yet taken
  first,                     \* number of the first of them
  exact,                     \* the bytes taken so far were the right ones
  caught                     \* a thread read the other's wrap half done

index  == <<ri, rm, wi, wm>>
put    == <<putting, putLen, putHeld>>
get    == <<getting, getLen, getHeld>>
ghosts == <<unread, first, exact>>
vars   == <<pool, index, put, get, ghosts, caught>>

Slots == 0 .. Size - 1
Laps  == Size + 1

Lesser(m, n) == IF m < n THEN m ELSE n

\* The other thread has turned its mirror and not yet set its index.
PutHalfway == putting = "wrap"
GetHalfway == getting = "wrap"

\* A thread is inside ringbuffer_data_len and has more to read.
PutRereads == putting \in {"mirror", "compare", "ahead", "behind"}
GetRereads == getting \in {"mirror", "compare", "ahead", "behind"}

Catches(half) == caught' = (caught \/ half)

------------------------------------------------------------------------------
(* ringbuffer_put                                                           *)

\* The call, as far as the comparison of the indices in ringbuffer_status.
PutStatus ==
  /\ putting = "idle"
  /\ putLen' \in Lengths
  /\ putting' = IF ri = wi THEN "mirror" ELSE "compare"
  /\ UNCHANGED <<pool, index, putHeld, get, ghosts, caught>>

PutMirror ==
  /\ putting = "mirror"
  /\ putHeld' = IF rm = wm THEN 0 ELSE Size
  /\ putting' = "copy"
  /\ Catches(GetHalfway)
  /\ UNCHANGED <<pool, index, putLen, get, ghosts>>

\* ringbuffer_data_len compares the indices again ...
PutCompare ==
  /\ putting = "compare"
  /\ putting' = IF wi > ri THEN "ahead" ELSE "behind"
  /\ UNCHANGED <<pool, index, putLen, putHeld, get, ghosts, caught>>

\* ... and reads them again for the difference.
PutDiffer ==
  /\ \/ putting = "ahead"  /\ putHeld' = wi - ri
     \/ putting = "behind" /\ putHeld' = Size - (ri - wi)
  /\ putting' = "copy"
  /\ UNCHANGED <<pool, index, putLen, get, ghosts, caught>>

PutFull ==
  /\ putting = "copy" /\ putHeld = Size
  /\ putting' = "idle" /\ putHeld' = 0 /\ putLen' = 0
  /\ UNCHANGED <<pool, index, get, ghosts, caught>>

\* What is stored.
Room == Lesser(putLen, Size - putHeld)

\* Slip: the index is set before the bytes are there.
PutCopyLate ==
  /\ putting = "copy" /\ putHeld # Size
  /\ putLen' = Room /\ Size - wi > Room
  /\ wi' = wi + Room
  /\ unread' = unread + Room
  /\ putting' = "idle" /\ putHeld' = 0
  /\ UNCHANGED <<pool, ri, rm, wm, get, first, exact, caught>>

\* The bytes are copied, to the end of the pool and on from its start.
PutCopy ==
  /\ putting = "copy" /\ putHeld # Size
  /\ putLen' = Room
  /\ pool' = [s \in Slots |->
       LET k == (s - wi + Size) % Size
       IN IF k < Room THEN (first + unread + k) % Laps ELSE pool[s]]
  /\ putting' = IF Size - wi > Room THEN "index" ELSE "flip"
  /\ UNCHANGED <<index, putHeld, get, ghosts, caught>>

PutIndex ==
  /\ putting = "index"
  /\ wi' = wi + putLen
  /\ unread' = unread + putLen
  /\ putting' = "idle" /\ putHeld' = 0 /\ putLen' = 0
  /\ UNCHANGED <<pool, ri, rm, wm, get, first, exact, caught>>

PutFlip ==
  /\ putting = "flip"
  /\ wm' = 1 - wm
  /\ putting' = "wrap"
  /\ UNCHANGED <<pool, ri, rm, wi, putLen, putHeld, get, ghosts, caught>>

PutWrap ==
  /\ putting = "wrap"
  /\ wi' = putLen - (Size - wi)
  /\ unread' = unread + putLen
  /\ putting' = "idle" /\ putHeld' = 0 /\ putLen' = 0
  /\ Catches(GetRereads)
  /\ UNCHANGED <<pool, ri, rm, wm, get, first, exact>>

Put ==
  \/ PutStatus \/ PutMirror \/ PutCompare \/ PutDiffer \/ PutFull
  \/ PutCopy \/ PutIndex \/ PutFlip \/ PutWrap

------------------------------------------------------------------------------
(* ringbuffer_get                                                           *)

GetStatus ==
  /\ getting = "idle"
  /\ getLen' \in Lengths
  /\ getting' = IF ri = wi THEN "mirror" ELSE "compare"
  /\ UNCHANGED <<pool, index, getHeld, put, ghosts, caught>>

GetMirror ==
  /\ getting = "mirror"
  /\ getHeld' = IF rm = wm THEN 0 ELSE Size
  /\ getting' = "copy"
  /\ Catches(PutHalfway)
  /\ UNCHANGED <<pool, index, getLen, put, ghosts>>

GetCompare ==
  /\ getting = "compare"
  /\ getting' = IF wi > ri THEN "ahead" ELSE "behind"
  /\ UNCHANGED <<pool, index, getLen, getHeld, put, ghosts, caught>>

GetDiffer ==
  /\ \/ getting = "ahead"  /\ getHeld' = wi - ri
     \/ getting = "behind" /\ getHeld' = Size - (ri - wi)
  /\ getting' = "copy"
  /\ UNCHANGED <<pool, index, getLen, put, ghosts, caught>>

GetEmpty ==
  /\ getting = "copy" /\ getHeld = 0
  /\ getting' = "idle" /\ getLen' = 0
  /\ UNCHANGED <<pool, index, getHeld, put, ghosts, caught>>

\* The bytes are copied out.
GetCopy ==
  /\ getting = "copy" /\ getHeld > 0
  /\ getLen' = Lesser(getLen, getHeld)
  /\ exact' = (exact /\ \A k \in 0 .. getLen' - 1 :
                          pool[(ri + k) % Size] = (first + k) % Laps)
  /\ getting' = IF Size - ri > getLen' THEN "index" ELSE "flip"
  /\ UNCHANGED <<pool, index, getHeld, put, unread, first, caught>>

Taken ==
  /\ unread' = unread - getLen
  /\ first' = (first + getLen) % Laps
  /\ getting' = "idle" /\ getHeld' = 0 /\ getLen' = 0

GetIndex ==
  /\ getting = "index"
  /\ ri' = ri + getLen
  /\ Taken
  /\ UNCHANGED <<pool, rm, wi, wm, put, exact, caught>>

GetFlip ==
  /\ getting = "flip"
  /\ rm' = 1 - rm
  /\ getting' = "wrap"
  /\ UNCHANGED <<pool, ri, wi, wm, getLen, getHeld, put, ghosts, caught>>

GetWrap ==
  /\ getting = "wrap"
  /\ ri' = getLen - (Size - ri)
  /\ Taken
  /\ Catches(PutRereads)
  /\ UNCHANGED <<pool, rm, wi, wm, put, exact>>

Get ==
  \/ GetStatus \/ GetMirror \/ GetCompare \/ GetDiffer \/ GetEmpty
  \/ GetCopy \/ GetIndex \/ GetFlip \/ GetWrap

------------------------------------------------------------------------------
Init ==
  /\ pool = [s \in Slots |-> Laps]
  /\ ri = 0 /\ rm = 0 /\ wi = 0 /\ wm = 0
  /\ putting = "idle" /\ putLen = 0 /\ putHeld = 0
  /\ getting = "idle" /\ getLen = 0 /\ getHeld = 0
  /\ unread = 0 /\ first = 0 /\ exact = TRUE /\ caught = FALSE

\* What the two threads rely on: get takes no more than is there, put stores
\* no more than there is room for, and the bytes come out as they went in.
Sound ==
  /\ exact
  /\ getting = "copy" => getHeld \in 0 .. unread
  /\ putting = "copy" => putHeld \in unread .. Size

\* Nothing is said of what follows a length that is wrong: a negative one is
\* taken for a huge one.
Next == Sound /\ (Put \/ Get)

Spec == Init /\ [][Next]_vars

------------------------------------------------------------------------------
(* Properties                                                               *)

\* Without a lock the ring is sound until a thread reads the other's mirror
\* between the turn of the mirror and the store of the index, or the other
\* wraps while it is reading the indices.
SoundUntilCaught == ~ caught => Sound
==============================================================================
