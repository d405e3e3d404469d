----------------------------- MODULE RingBuffer ------------------------------
(***************************************************************************)
(* The ring buffer of framework/ringbuffer, used by one thread at a time.  *)
(*                                                                         *)
(* Each index is a bit field of 15 bits with a mirror bit beside it, which *)
(* flips when the index wraps: equal indices mean an empty buffer when the *)
(* mirrors agree and a full one when they differ.                          *)
(***************************************************************************)
EXTENDS Integers, Sequences

CONSTANTS
  Byte,         \* the bytes
  Size,         \* rb->buffer_size
  IndexRange,   \* the values of the index bit fields, 2^15 in the code
  Blocks,       \* what ringbuffer_put is called with
  Requests      \* the lengths ringbuffer_get is called with

\* ringbuffer_init asserts size > 0; nothing checks that the size fits the
\* bit fields, which the logger's 16384 does.
ASSUME SizeFits ==
  /\ Size \in Nat \ {0}
  /\ IndexRange \in Nat
  /\ Size <= IndexRange

\* A block is a string of bytes, a request a length.
ASSUME Inputs == Blocks \subseteq Seq(Byte) /\ Requests \subseteq Nat

VARIABLES
  live,     \* the buffer is allocated
  pool,     \* *rb->buffer_ptr
  ri, rm,   \* rb->read_index, rb->read_mirror
  wi, wm,   \* rb->write_index, rb->write_mirror
  out,      \* the bytes the last ringbuffer_get copied out
  ret       \* what the last put or get returned

indexVars == <<ri, rm, wi, wm>>
vars == <<live, pool, indexVars, out, ret>>

Slots == 0 .. Size - 1

Lesser(m, n) == IF m < n THEN m ELSE n

\* memcpy(&mem[at], &src[from], n)
Memcpy(mem, at, src, from, n) ==
  [k \in Slots |-> IF k \in at .. at + n - 1 THEN src[from + (k - at) + 1]
                                             ELSE mem[k]]

------------------------------------------------------------------------------
\* Slip: the mirror bits are not looked at.
StatusNoMirror == IF ri = wi THEN "EMPTY" ELSE "HALFFULL"

\* ringbuffer_status
Status ==
  IF ri # wi THEN "HALFFULL" ELSE IF rm = wm THEN "EMPTY" ELSE "FULL"

\* ringbuffer_data_len
DataLen ==
  CASE Status = "EMPTY" -> 0
    [] Status = "FULL"  -> Size
    [] OTHER -> IF wi > ri THEN wi - ri ELSE Size - (ri - wi)

SpaceLen == Size - DataLen

\* How much a put of this block stores, and a get of n bytes takes.
Stored(src) == Lesser(SpaceLen, Len(src))
Taken(n)    == Lesser(DataLen, n)

------------------------------------------------------------------------------
\* ringbuffer_create, with whatever malloc left in the pool.  When malloc
\* fails it changes nothing.
Create ==
  /\ ~ live
  /\ live' = TRUE
  /\ pool' \in [Slots -> Byte]
  /\ ri' = 0 /\ rm' = 0 /\ wi' = 0 /\ wm' = 0
  /\ UNCHANGED <<out, ret>>

\* ringbuffer_destroy
Destroy ==
  /\ live
  /\ live' = FALSE
  /\ UNCHANGED <<pool, indexVars, out, ret>>

\* ringbuffer_reset, and ringbuffer_init on the same pool.
Reset ==
  /\ live
  /\ ri' = 0 /\ rm' = 0 /\ wi' = 0 /\ wm' = 0
  /\ UNCHANGED <<live, pool, out, ret>>

\* ringbuffer_put finds no space.
PutFull ==
  /\ live
  /\ SpaceLen = 0
  /\ ret' = 0
  /\ UNCHANGED <<live, pool, indexVars, out>>

\* Slip: >= for >, and the index may reach the end of the pool.
PutStraightLoose(src) ==
  /\ live /\ SpaceLen # 0
  /\ Size - wi >= Stored(src)
  /\ pool' = Memcpy(pool, wi, src, 0, Stored(src))
  /\ wi' = (wi + Stored(src)) % IndexRange
  /\ ret' = Stored(src)
  /\ UNCHANGED <<live, ri, rm, wm, out>>

\* ringbuffer_put with room left before the end of the pool.
PutStraight(src) ==
  /\ live /\ SpaceLen # 0
  /\ Size - wi > Stored(src)
  /\ pool' = Memcpy(pool, wi, src, 0, Stored(src))
  /\ wi' = (wi + Stored(src)) % IndexRange
  /\ ret' = Stored(src)
  /\ UNCHANGED <<live, ri, rm, wm, out>>

\* ringbuffer_put that reaches the end of the pool and goes on at its start.
PutWrapped(src) ==
  LET room == Size - wi
      len  == Stored(src)
  IN /\ live /\ SpaceLen # 0
     /\ room <= len
     /\ pool' = Memcpy(Memcpy(pool, wi, src, 0, room), 0, src, room, len - room)
     /\ wm' = 1 - wm
     /\ wi' = (len - room) % IndexRange
     /\ ret' = len
     /\ UNCHANGED <<live, ri, rm, out>>

\* ringbuffer_get finds no data.
GetEmpty ==
  /\ live
  /\ DataLen = 0
  /\ ret' = 0
  /\ out' = <<>>
  /\ UNCHANGED <<live, pool, indexVars>>

\* ringbuffer_get of bytes that lie in one piece.
GetStraight(n) ==
  /\ live /\ DataLen # 0
  /\ Size - ri > Taken(n)
  /\ out' = [k \in 1 .. Taken(n) |-> pool[ri + k - 1]]
  /\ ri' = (ri + Taken(n)) % IndexRange
  /\ ret' = Taken(n)
  /\ UNCHANGED <<live, pool, rm, wi, wm>>

\* Slip: the mirror is not flipped.
GetWrappedNoFlip(n) ==
  LET room == Size - ri
      len  == Taken(n)
  IN /\ live /\ DataLen # 0
     /\ room <= len
     /\ out' = [k \in 1 .. len |-> pool[IF k <= room THEN ri + k - 1 ELSE k - room - 1]]
     /\ ri' = (len - room) % IndexRange
     /\ ret' = len
     /\ UNCHANGED <<live, pool, rm, wi, wm>>

\* ringbuffer_get of bytes that go on at the start of the pool.
GetWrapped(n) ==
  LET room == Size - ri
      len  == Taken(n)
  IN /\ live /\ DataLen # 0
     /\ room <= len
     /\ out' = [k \in 1 .. len |-> pool[IF k <= room THEN ri + k - 1
                                                     ELSE k - room - 1]]
     /\ rm' = 1 - rm
     /\ ri' = (len - room) % IndexRange
     /\ ret' = len
     /\ UNCHANGED <<live, pool, wi, wm>>

------------------------------------------------------------------------------
Init ==
  /\ live = FALSE
  /\ pool \in [Slots -> Byte]
  /\ ri = 0 /\ rm = 0 /\ wi = 0 /\ wm = 0
  /\ out = <<>>
  /\ ret = 0

Put(src) == PutFull \/ PutStraight(src) \/ PutWrapped(src)
Get(n)   == GetEmpty \/ GetStraight(n) \/ GetWrapped(n)

Next ==
  \/ Create \/ Destroy \/ Reset
  \/ \E src \in Blocks : Put(src)
  \/ \E n \in Requests : Get(n)

Spec == Init /\ [][Next]_vars

------------------------------------------------------------------------------
(* Properties                                                               *)

\* The type of every variable; the indices stay inside the pool.
TypeOK ==
  /\ live \in BOOLEAN
  /\ pool \in [Slots -> Byte]
  /\ ri \in Slots /\ wi \in Slots
  /\ rm \in {0, 1} /\ wm \in {0, 1}
  /\ out \in Seq(Byte)
  /\ ret \in 0 .. Size

\* The picture in ringbuffer.h: with equal mirrors the reader is behind the
\* writer, with different ones the writer has wrapped once more than the reader.
MirrorInv == IF rm = wm THEN ri <= wi ELSE wi <= ri

\* The bytes held, oldest first.
Content ==
  [k \in 1 .. DataLen |-> pool[IF ri + k <= Size THEN ri + k - 1
                                                 ELSE ri + k - 1 - Size]]

Fifo == INSTANCE BoundedFifo WITH
          Capacity <- Size,
          queue <- IF live THEN Content ELSE <<>>

\* The ring is a bounded queue: nothing is lost, repeated or reordered across
\* the wraps, and put and get return what they stored and took.
IsFifo == Fifo!Spec
==============================================================================
