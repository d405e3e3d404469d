--------------------------- MODULE SerialPortProofs ---------------------------
(***************************************************************************)
(* The serial port, for any ranges of the bytes and lengths of the frames: *)
(* the parsers stay inside their buffers, ublox_analys has its buffer      *)
(* while it uses it, what is published is the payload of a frame whose     *)
(* sums are right, and no frame is given up.                               *)
(***************************************************************************)
EXTENDS SerialPort, ByteSums, TLAPS, WellFoundedInduction

\* A byte is a number below the range of its type.
LEMMA SumIsChar ==
  ASSUME NEW R \in Nat \ {0}, NEW x \in 0 .. R - 1, NEW y \in 0 .. R - 1
  PROVE  (x + y) % R \in 0 .. R - 1
  OBVIOUS

\* A byte more.
LEMMA Appended ==
  ASSUME NEW S, NEW s \in Seq(S), NEW x \in S
  PROVE  /\ Append(s, x) \in Seq(S) /\ Len(Append(s, x)) = Len(s) + 1
         /\ Append(s, x)[Len(s) + 1] = x
         /\ \A i \in 1 .. Len(s) : Append(s, x)[i] = s[i]
  OBVIOUS

------------------------------------------------------------------------------
(* Sums                                                                     *)

\* Induction, with a set for the predicate.
LEMMA Induction ==
  ASSUME NEW S, 0 \in S, \A n \in Nat : n \in S => n + 1 \in S
  PROVE  \A n \in Nat : n \in S
<1> SUFFICES ASSUME Nat \ S # {} PROVE FALSE
  OBVIOUS
<1> DEFINE R == OpToRel(<, Nat)
           T == Nat \ S
<1>1. IsWellFoundedOn(R, Nat)
  BY NatLessThanWellFounded, Zenon
<1>2. \A y, x \in Nat : y < x => <<y, x>> \in R
  BY Zenon DEF OpToRel
<1> HIDE DEF R
<1>3. PICK x \in T : \A y \in T : ~ (<<y, x>> \in R)
  BY <1>1, WFMin
<1>4. x # 0 /\ x \in Nat
  OBVIOUS
<1>5. x - 1 \in Nat /\ x - 1 < x
  BY <1>4
<1>6. x - 1 \in S
  BY <1>2, <1>3, <1>4, <1>5
<1> QED BY <1>3, <1>4, <1>5, <1>6

\* f holds the sums of the first numbers of s.
Sums(f, s) ==
  f = [k \in 0 .. Len(s) |-> IF k = 0 THEN 0 ELSE f[k - 1] + s[k]]

LEMMA SumsExist ==
  ASSUME NEW s \in Seq(Nat) PROVE \E f \in [0 .. Len(s) -> Nat] : Sums(f, s)
<1> DEFINE Upto(n, f) == \A k \in 0 .. n : f[k] = IF k = 0 THEN 0 ELSE f[k - 1] + s[k]
           S == {n \in Nat : n <= Len(s) => \E f \in [0 .. n -> Nat] : Upto(n, f)}
<1>1. 0 \in S
  <2> DEFINE f == [k \in 0 .. 0 |-> 0]
  <2>1. f \in [0 .. 0 -> Nat] /\ Upto(0, f)
    OBVIOUS
  <2> QED BY <2>1
<1>2. ASSUME NEW n \in Nat, n \in S PROVE n + 1 \in S
  <2> SUFFICES ASSUME n + 1 <= Len(s) PROVE \E g \in [0 .. n + 1 -> Nat] : Upto(n + 1, g)
    OBVIOUS
  <2>0. Len(s) \in Nat
    OBVIOUS
  <2>1. n <= Len(s) /\ n + 1 \in 1 .. Len(s) /\ s[n + 1] \in Nat
    BY <2>0
  <2>2. PICK f \in [0 .. n -> Nat] : Upto(n, f)
    BY <1>2, <2>1
  <2> DEFINE g == [k \in 0 .. n + 1 |-> IF k = n + 1 THEN f[n] + s[n + 1] ELSE f[k]]
  <2>3. g \in [0 .. n + 1 -> Nat]
    <3>1. ASSUME NEW k \in 0 .. n + 1, k # n + 1 PROVE k \in 0 .. n
      BY <3>1
    <3>2. f[n] \in Nat
      OBVIOUS
    <3> QED BY <2>1, <3>1, <3>2
  <2>4. Upto(n + 1, g)
    <3> SUFFICES ASSUME NEW k \in 0 .. n + 1
                 PROVE  g[k] = IF k = 0 THEN 0 ELSE g[k - 1] + s[k]
      OBVIOUS
    <3>1. CASE k = n + 1
      <4>1. g[k] = f[n] + s[k] /\ g[k - 1] = f[n] /\ k # 0
        BY <3>1
      <4> QED BY <4>1
    <3>2. CASE k # n + 1
      <4>1. k \in 0 .. n /\ g[k] = f[k]
        BY <3>2
      <4>2. k # 0 => k - 1 \in 0 .. n + 1 /\ k - 1 # n + 1
        BY <3>2
      <4>3. k # 0 => g[k - 1] = f[k - 1]
        BY <4>2
      <4> HIDE DEF g
      <4> QED BY <2>2, <4>1, <4>3
    <3> QED BY <3>1, <3>2
  <2> QED BY <2>3, <2>4
<1> HIDE DEF S
<1>3. Len(s) \in S
  BY <1>1, <1>2, Induction
<1>4. PICK f \in [0 .. Len(s) -> Nat] : Upto(Len(s), f)
  BY <1>3 DEF S
<1>5. f = [k \in 0 .. Len(s) |-> IF k = 0 THEN 0 ELSE f[k - 1] + s[k]]
  BY <1>4
<1> QED BY <1>5 DEF Sums

\* t is s, and may go on.
GoesOn(s, t) ==
  /\ Len(s) \in Nat /\ Len(t) \in Nat /\ Len(s) <= Len(t)
  /\ \A k \in 1 .. Len(s) : s[k] = t[k]

\* The sums of a sequence are those of any that goes on from it.
LEMMA SumsAgree ==
  ASSUME NEW s, NEW t, NEW f, NEW g, Sums(f, s), Sums(g, t), GoesOn(s, t)
  PROVE  f[Len(s)] = g[Len(s)]
<1> DEFINE m == Len(s)
<1> DEFINE S == {k \in Nat : k <= m => f[k] = g[k]}
<1>0. /\ \A k \in 0 .. Len(s) : f[k] = IF k = 0 THEN 0 ELSE f[k - 1] + s[k]
      /\ \A k \in 0 .. Len(t) : g[k] = IF k = 0 THEN 0 ELSE g[k - 1] + t[k]
  BY Zenon DEF Sums
<1>m. /\ m \in Nat /\ Len(t) \in Nat /\ m <= Len(t)
      /\ \A k \in 1 .. m : s[k] = t[k]
  BY DEF GoesOn
<1>1. 0 \in S
  BY <1>0
<1>2. ASSUME NEW n \in Nat, n \in S PROVE n + 1 \in S
  <2> SUFFICES ASSUME n + 1 <= m PROVE f[n + 1] = g[n + 1]
    OBVIOUS
  <2>1. /\ n + 1 \in 0 .. Len(s) /\ n + 1 \in 0 .. Len(t) /\ n + 1 \in 1 .. m
        /\ n + 1 # 0 /\ (n + 1) - 1 = n /\ n <= m
    BY <1>m
  <2>2. f[n + 1] = f[n] + s[n + 1] /\ g[n + 1] = g[n] + t[n + 1]
    BY <1>0, <2>1
  <2> QED BY <1>2, <1>m, <2>1, <2>2
<1> HIDE DEF S
<1>3. \A k \in Nat : k \in S
  BY <1>1, <1>2, Induction
<1> QED BY <1>3, <1>m DEF S

\* The total is the last of the sums.
LEMMA TotalIs ==
  ASSUME NEW s \in Seq(Nat), NEW f, Sums(f, s)
  PROVE  Total(s) = f[Len(s)]
<1> DEFINE g == CHOOSE g : Sums(g, s)
<1>1. Sums(g, s)
  BY Zenon
<1>2. Total(s) = g[Len(s)]
  BY Zenon DEF Total, Sums
<1> HIDE DEF g
<1>3. GoesOn(s, s)
  BY DEF GoesOn
<1> QED BY <1>1, <1>2, <1>3, SumsAgree

LEMMA TotalEmpty == Total(<<>>) = 0
<1>1. <<>> \in Seq(Nat) /\ Len(<<>>) = 0
  OBVIOUS
<1>2. PICK f \in [0 .. 0 -> Nat] : Sums(f, <<>>)
  BY <1>1, SumsExist
<1>3. f[0] = 0
  BY <1>1, <1>2 DEF Sums
<1> QED BY <1>1, <1>2, <1>3, TotalIs

LEMMA TotalAppend ==
  ASSUME NEW s \in Seq(Nat), NEW x \in Nat
  PROVE  Total(s) \in Nat /\ Total(Append(s, x)) = Total(s) + x
<1> DEFINE n == Len(s)
           t == Append(s, x)
<1>1. /\ n \in Nat /\ t \in Seq(Nat) /\ Len(t) = n + 1 /\ t[n + 1] = x
      /\ \A k \in 1 .. n : s[k] = t[k]
  BY Appended
<1> HIDE DEF n, t
<1>2. PICK f \in [0 .. n -> Nat] : Sums(f, s)
  BY SumsExist DEF n
<1>3. PICK g \in [0 .. n + 1 -> Nat] : Sums(g, t)
  BY SumsExist, <1>1
<1>4. f[n] = g[n]
  <2>1. GoesOn(s, t) /\ Sums(f, s) /\ Sums(g, t)
    BY <1>1, <1>2, <1>3 DEF n, GoesOn
  <2> QED BY <2>1, SumsAgree DEF n
<1>5. g[n + 1] = g[n] + x
  <2>1. n + 1 \in 0 .. Len(t) /\ n + 1 # 0 /\ (n + 1) - 1 = n
    BY <1>1
  <2> QED BY <2>1, <1>1, <1>3 DEF Sums
<1>6. Total(s) = f[n] /\ Total(t) = g[n + 1]
  BY <1>1, <1>2, <1>3, TotalIs DEF n
<1> QED BY <1>1, <1>2, <1>4, <1>5, <1>6 DEF t

\* The total of sums is the sum of the totals.
LEMMA TotalPlus ==
  ASSUME NEW u \in Seq(Nat), NEW v \in Seq(Nat), NEW w \in Seq(Nat),
         Len(u) = Len(w), Len(v) = Len(w), \A k \in 1 .. Len(w) : w[k] = u[k] + v[k]
  PROVE  Total(w) = Total(u) + Total(v)
<1> DEFINE n == Len(w)
<1>0. n \in Nat /\ Len(u) = n /\ Len(v) = n
  OBVIOUS
<1>1. PICK f \in [0 .. n -> Nat] : Sums(f, u)
  BY <1>0, SumsExist
<1>2. PICK g \in [0 .. n -> Nat] : Sums(g, v)
  BY <1>0, SumsExist
<1>3. PICK h \in [0 .. n -> Nat] : Sums(h, w)
  BY <1>0, SumsExist
<1>4. \A k \in 0 .. n : /\ f[k] = IF k = 0 THEN 0 ELSE f[k - 1] + u[k]
                        /\ g[k] = IF k = 0 THEN 0 ELSE g[k - 1] + v[k]
                        /\ h[k] = IF k = 0 THEN 0 ELSE h[k - 1] + w[k]
  BY <1>0, <1>1, <1>2, <1>3, Zenon DEF Sums
<1>5. \A k \in 1 .. n : u[k] \in Nat /\ v[k] \in Nat /\ w[k] = u[k] + v[k]
  BY <1>0
<1> DEFINE S == {k \in Nat : k <= n => h[k] = f[k] + g[k]}
<1> HIDE DEF n
<1>6. 0 \in S
  BY <1>0, <1>4
<1>7. ASSUME NEW k \in Nat, k \in S PROVE k + 1 \in S
  <2> SUFFICES ASSUME k + 1 <= n PROVE h[k + 1] = f[k + 1] + g[k + 1]
    OBVIOUS
  <2>1. /\ k + 1 \in 0 .. n /\ k + 1 \in 1 .. n /\ k \in 0 .. n
        /\ k + 1 # 0 /\ (k + 1) - 1 = k /\ k <= n
    BY <1>0
  <2>2. /\ f[k + 1] = f[k] + u[k + 1] /\ g[k + 1] = g[k] + v[k + 1]
        /\ h[k + 1] = h[k] + w[k + 1]
    BY <1>4, <2>1
  <2>3. h[k] = f[k] + g[k]
    BY <1>7, <2>1
  <2>4. f[k] \in Nat /\ g[k] \in Nat
    BY <2>1
  <2> QED BY <1>5, <2>1, <2>2, <2>3, <2>4
<1> HIDE DEF S
<1>8. n \in S
  BY <1>0, <1>6, <1>7, Induction
<1>9. h[n] = f[n] + g[n]
  BY <1>0, <1>8 DEF S
<1> QED BY <1>0, <1>1, <1>2, <1>3, <1>9, TotalIs DEF n

LEMMA WeightedNat ==
  ASSUME NEW s \in Seq(Nat)
  PROVE  Weighted(s) \in Seq(Nat) /\ Len(Weighted(s)) = Len(s)
<1>1. Len(s) \in Nat
  OBVIOUS
<1>2. ASSUME NEW k \in 1 .. Len(s) PROVE (Len(s) + 1 - k) * s[k] \in Nat
  <2>1. Len(s) + 1 - k \in Nat /\ s[k] \in Nat
    BY <1>1
  <2> QED BY <2>1
<1>3. Weighted(s) \in [1 .. Len(s) -> Nat]
  BY <1>2 DEF Weighted
<1> QED BY <1>1, <1>3

\* A number added at the end enters one sum, and gives every other one more.
LEMMA WeightedAppend ==
  ASSUME NEW s \in Seq(Nat), NEW x \in Nat
  PROVE  /\ Total(Weighted(s)) \in Nat
         /\ Total(Weighted(Append(s, x))) = Total(Weighted(s)) + Total(Append(s, x))
<1> DEFINE n == Len(s)
           t == Append(s, x)
           u == Append(Weighted(s), 0)
<1>1. /\ n \in Nat /\ t \in Seq(Nat) /\ Len(t) = n + 1 /\ t[n + 1] = x
      /\ \A k \in 1 .. n : t[k] = s[k] /\ s[k] \in Nat
  BY Appended
<1>2. /\ Weighted(s) \in Seq(Nat) /\ Len(Weighted(s)) = n
      /\ Weighted(t) \in Seq(Nat) /\ Len(Weighted(t)) = n + 1
  BY <1>1, WeightedNat
<1>3. /\ u \in Seq(Nat) /\ Len(u) = n + 1 /\ u[n + 1] = 0
      /\ \A k \in 1 .. n : u[k] = Weighted(s)[k]
  BY <1>2, Appended
<1>4. \A k \in 1 .. n : Weighted(s)[k] = (n + 1 - k) * s[k]
  BY <1>1 DEF Weighted
<1>5. \A k \in 1 .. n + 1 : Weighted(t)[k] = (n + 2 - k) * t[k]
  <2>1. \A k \in 1 .. n + 1 : Len(t) + 1 - k = n + 2 - k
    BY <1>1
  <2> HIDE DEF t
  <2> QED BY <1>1, <2>1 DEF Weighted
<1> HIDE DEF n, t, u
<1>6. ASSUME NEW k \in 1 .. n + 1 PROVE Weighted(t)[k] = u[k] + t[k]
  <2>1. CASE k = n + 1
    <3>1. (n + 2 - k) * t[k] = x
      BY <2>1, <1>1
    <3> QED BY <1>1, <1>3, <1>5, <2>1, <3>1
  <2>2. CASE k # n + 1
    <3>1. k \in 1 .. n
      BY <1>1, <2>2
    <3> DEFINE a == s[k]
    <3>2. /\ a \in Nat /\ t[k] = a
          /\ u[k] = (n + 1 - k) * a /\ Weighted(t)[k] = (n + 2 - k) * a
      BY <1>1, <1>3, <1>4, <1>5, <3>1
    <3> HIDE DEF a
    <3>3. (n + 2 - k) * a = (n + 1 - k) * a + a
      BY <1>1, <3>2
    <3> QED BY <3>2, <3>3
  <2> QED BY <2>1, <2>2
<1>7. Total(Weighted(t)) = Total(u) + Total(t)
  <2>1. Len(u) = Len(Weighted(t)) /\ Len(t) = Len(Weighted(t))
    BY <1>1, <1>2, <1>3
  <2>2. \A k \in 1 .. Len(Weighted(t)) : Weighted(t)[k] = u[k] + t[k]
    BY <1>2, <1>6
  <2> QED BY ONLY <1>1, <1>2, <1>3, <2>1, <2>2, TotalPlus
<1>8. Total(Weighted(s)) \in Nat /\ Total(u) = Total(Weighted(s)) + 0
  BY <1>2, TotalAppend DEF u
<1> QED BY <1>7, <1>8 DEF t

------------------------------------------------------------------------------
\* Remainders: a number is so many times R and its remainder.
LEMMA Division ==
  ASSUME NEW R \in Nat \ {0}, NEW a \in Nat
  PROVE  \E q \in Nat : \E r \in 0 .. R - 1 : a = q * R + r
<1> DEFINE S == {n \in Nat : \E q \in Nat : \E r \in 0 .. R - 1 : n = q * R + r}
<1>1. 0 \in S
  <2>1. 0 = 0 * R + 0 /\ 0 \in 0 .. R - 1
    OBVIOUS
  <2> QED BY <2>1
<1>2. ASSUME NEW n \in Nat, n \in S PROVE n + 1 \in S
  <2>1. PICK q \in Nat, r \in 0 .. R - 1 : n = q * R + r
    BY <1>2
  <2> SUFFICES \E p \in Nat : \E t \in 0 .. R - 1 : n + 1 = p * R + t
    OBVIOUS
  <2>2. CASE r + 1 < R
    <3>1. n + 1 = q * R + (r + 1)
      BY <2>1
    <3> r + 1 \in 0 .. R - 1
      BY <2>2
    <3> WITNESS q \in Nat, r + 1 \in 0 .. R - 1
    <3> QED BY <3>1
  <2>3. CASE r + 1 = R
    <3>1. n + 1 = (q + 1) * R + 0
      BY <2>1, <2>3
    <3> WITNESS q + 1 \in Nat, 0 \in 0 .. R - 1
    <3> QED BY <3>1
  <2> QED BY <2>2, <2>3
<1> HIDE DEF S
<1>3. a \in S
  BY <1>1, <1>2, Induction
<1> QED BY <1>3 DEF S

LEMMA RemainderOf ==
  ASSUME NEW R \in Nat \ {0}, NEW q \in Nat, NEW r \in 0 .. R - 1
  PROVE  (q * R + r) % R = r
  OBVIOUS

\* The remainder may be taken at any time.
LEMMA RemainderOfSum ==
  ASSUME NEW R \in Nat \ {0}, NEW a \in Nat, NEW b \in Nat, NEW r, r = a % R
  PROVE  r \in Nat /\ (r + b) % R = (a + b) % R
<1>1. PICK q \in Nat, d \in 0 .. R - 1 : a = q * R + d
  BY Division
<1>2. PICK p \in Nat, t \in 0 .. R - 1 : d + b = p * R + t
  <2>1. d + b \in Nat
    OBVIOUS
  <2> QED BY <2>1, Division
<1>3. r = d
  BY <1>1, RemainderOf
<1>4. (d + b) % R = t
  BY <1>2, RemainderOf
<1>5. a + b = (q + p) * R + t /\ q + p \in Nat
  BY <1>1, <1>2
<1>6. (a + b) % R = t
  BY <1>5, RemainderOf
<1> QED BY <1>3, <1>4, <1>6

\* A number more, and both of a frame's sums go on as _ubx_checksum has them.
LEMMA SumsGoOn ==
  ASSUME NEW R \in Nat \ {0}, NEW s \in Seq(Nat), NEW x \in Nat, NEW a, NEW b, NEW c,
         a = Total(s) % R, b = Total(Weighted(s)) % R, c = (a + x) % R
  PROVE  c = Total(Append(s, x)) % R /\ (b + c) % R = Total(Weighted(Append(s, x))) % R
<1> DEFINE t == Total(s)
           v == Total(Append(s, x))
           w == Total(Weighted(s))
<1>1. t \in Nat /\ v = t + x /\ v \in Nat
  <2>1. t \in Nat /\ v = t + x
    BY TotalAppend, Zenon
  <2> HIDE DEF t, v
  <2> QED BY ONLY <2>1
<1>2. w \in Nat /\ Total(Weighted(Append(s, x))) = w + v
  BY WeightedAppend
<1>3. a = t % R /\ b = w % R
  OBVIOUS
<1> HIDE DEF t, v, w
<1>4. c = v % R
  <2>1. R \in Nat \ {0} /\ t \in Nat /\ x \in Nat /\ a = t % R
    BY <1>1, <1>3
  <2>2. (a + x) % R = (t + x) % R
    BY ONLY <2>1, RemainderOfSum
  <2> QED BY <1>1, <2>2, Zenon
<1>5. c \in Nat /\ (c + w) % R = (v + w) % R
  <2>1. R \in Nat \ {0} /\ v \in Nat /\ w \in Nat /\ c = v % R
    BY <1>1, <1>2, <1>4
  <2> QED BY ONLY <2>1, RemainderOfSum
<1>6. (b + c) % R = (w + c) % R
  <2>1. R \in Nat \ {0} /\ w \in Nat /\ c \in Nat /\ b = w % R
    BY <1>2, <1>3, <1>5, Zenon
  <2> QED BY ONLY <2>1, RemainderOfSum
<1>7. w + c = c + w /\ v + w = w + v
  BY <1>1, <1>2, <1>5
<1>8. (w + c) % R = (c + w) % R /\ (v + w) % R = (w + v) % R
  BY <1>7, Zenon
<1>9. (b + c) % R = (w + v) % R
  BY <1>5, <1>6, <1>8, Zenon
<1> QED BY <1>2, <1>4, <1>9 DEF v, w

\* A part of a sequence and the part that ends with the number after it.
LEMMA PartGoesOn ==
  ASSUME NEW S, NEW s \in Seq(S), NEW x \in S, NEW m \in Nat, m >= 1, m <= Len(s) + 1
  PROVE  SubSeq(Append(s, x), m, Len(s) + 1) = Append(SubSeq(s, m, Len(s)), x)
  OBVIOUS

LEMMA PartStays ==
  ASSUME NEW S, NEW s \in Seq(S), NEW x \in S, NEW m \in Nat, m >= 1,
         NEW n \in Nat, n <= Len(s)
  PROVE  SubSeq(Append(s, x), m, n) = SubSeq(s, m, n)
  OBVIOUS

\* A part from the beginning.
LEMMA PartOfHead ==
  ASSUME NEW S, NEW s \in Seq(S), NEW n \in Nat, n <= Len(s)
  PROVE  /\ SubSeq(s, 1, n) \in Seq(S) /\ Len(SubSeq(s, 1, n)) = n
         /\ \A i \in 1 .. n : SubSeq(s, 1, n)[i] = s[i]
  OBVIOUS

\* A sequence of some numbers is one of more.
LEMMA SeqWider ==
  ASSUME NEW S, NEW T, S \subseteq T, NEW s \in Seq(S) PROVE s \in Seq(T)
<1>1. s \in [1 .. Len(s) -> S] /\ Len(s) \in Nat
  OBVIOUS
<1>2. s \in [1 .. Len(s) -> T]
  BY <1>1
<1> QED BY <1>1, <1>2

LEMMA PartIsPart ==
  ASSUME NEW S, NEW s \in Seq(S), NEW m \in Nat, m >= 1, NEW n \in Nat, n <= Len(s)
  PROVE  SubSeq(s, m, n) \in Seq(S)
  OBVIOUS


------------------------------------------------------------------------------
(* The reader                                                               *)

Places == {"open", "set", "returned", "idle", "select", "read", "failed", "parse"}

\* Only user_test_func sets its port up, and only ublox_analys allocates.
ReaderInv ==
  /\ port \in {"gps", "imu"} /\ at \in Places
  /\ left \in 0 .. MaxRead /\ buffers \in 0 .. MaxBuffers /\ failed \in BOOLEAN
  /\ port = "gps" => at \notin {"open", "set", "returned"}
  /\ port = "imu" => buffers = 0
  /\ BufferHeld

LEMMA ReaderInitially == Init => ReaderInv
<1>1. MaxRead \in Nat /\ MaxBuffers \in Nat
  BY Given
<1>2. Init => /\ (port = "gps" /\ at = "idle") \/ (port = "imu" /\ at = "open")
              /\ left = 0 /\ buffers = 0 /\ failed = FALSE
  BY DEF Init
<1> SUFFICES ASSUME Init PROVE ReaderInv
  OBVIOUS
<1>3. buffers = 0 /\ ~ failed /\ failed \in BOOLEAN
  BY <1>2
<1>4. 0 \in 0 .. MaxRead /\ 0 \in 0 .. MaxBuffers /\ ~ (0 > 0) /\ 0 <= 1
  BY <1>1
<1>5. BufferHeld
  BY <1>2, <1>3, <1>4, Zenon DEF BufferHeld
<1> QED BY <1>2, <1>3, <1>4, <1>5, Zenon DEF ReaderInv, Places

\* The bytes parsed make no difference to the reader but for their number.
LEMMA ReaderPreserved == ASSUME ReaderInv, [Next]_vars PROVE ReaderInv'
<1>0. MaxRead \in Nat /\ MaxBuffers \in Nat /\ MaxBuffers > 0
  BY Given
<1>1. CASE UNCHANGED reader
  BY <1>1 DEF reader, ReaderInv, BufferHeld
<1>2. CASE TestOpen \/ TestSet
  <2>1. at \in {"open", "set"} /\ at' \in {"returned", "set", "idle"}
        /\ UNCHANGED <<port, left, buffers, failed>>
    BY <1>2 DEF TestOpen, TestSet, UartSet, Step
  <2> QED BY <2>1 DEF ReaderInv, BufferHeld, Places
<1>3. CASE Begin
  <2>1. /\ at = "idle" /\ at' = "select" /\ UNCHANGED <<port, left, failed>>
        /\ buffers' = IF port = "gps" THEN Lesser(buffers + 1, MaxBuffers) ELSE buffers
    BY <1>3 DEF Begin, Step
  <2>2. buffers \in 0 .. MaxBuffers /\ (~ failed => buffers = 0)
    BY <2>1 DEF ReaderInv, BufferHeld
  <2>3. /\ buffers' \in 0 .. MaxBuffers
        /\ port = "gps" => buffers' > 0
        /\ port = "imu" => buffers' = buffers
        /\ ~ failed => buffers' <= 1
    BY <1>0, <2>1, <2>2 DEF Lesser
  <2> QED BY <2>1, <2>3 DEF ReaderInv, BufferHeld, Places
<1>4. CASE SelectReady \/ SelectInterrupted \/ SelectTimeout
  <2>1. /\ at = "select" /\ at' \in {"read", "failed"}
        /\ UNCHANGED <<port, left, buffers, failed>>
    BY <1>4 DEF SelectReady, SelectInterrupted, SelectTimeout, Step
  <2> QED BY <2>1 DEF ReaderInv, BufferHeld, Places
<1>5. CASE Read
  <2>1. /\ at = "read" /\ at' \in {"parse", "failed"}
        /\ left' \in 0 .. MaxRead \/ left' = left
        /\ UNCHANGED <<port, buffers, failed>>
    BY <1>5 DEF Read, Step
  <2> QED BY <2>1 DEF ReaderInv, BufferHeld, Places
<1>6. CASE Fail
  <2>1. at = "failed" /\ at' = "idle" /\ failed' = TRUE /\ UNCHANGED <<port, left, buffers>>
    BY <1>6 DEF Fail, Step
  <2> QED BY <2>1 DEF ReaderInv, BufferHeld, Places
<1>7. CASE Parse
  <2>1. left > 0 /\ left' = left - 1 /\ UNCHANGED <<port, at, buffers, failed>>
    BY <1>7 DEF Parse
  <2>2. left \in 0 .. MaxRead
    BY DEF ReaderInv
  <2>3. left' \in 0 .. MaxRead
    BY <1>0, <2>1, <2>2
  <2> QED BY <2>1, <2>3 DEF ReaderInv, BufferHeld
<1>8. CASE Done
  <2>1. /\ at = "parse" /\ at' = "idle" /\ UNCHANGED <<port, left, failed>>
        /\ buffers' = IF port = "gps" THEN buffers - 1 ELSE buffers
    BY <1>8 DEF Done, Step
  <2>2. /\ buffers \in 0 .. MaxBuffers /\ (~ failed => buffers <= 1)
        /\ port = "gps" => buffers > 0
        /\ port = "imu" => buffers = 0
    BY <2>1 DEF ReaderInv, BufferHeld
  <2>3. /\ buffers' \in 0 .. MaxBuffers /\ (~ failed => buffers' <= 0)
        /\ port = "imu" => buffers' = 0
    BY <1>0, <2>1, <2>2 DEF ReaderInv
  <2> QED BY <2>1, <2>3 DEF ReaderInv, BufferHeld, Places
<1> QED
  BY <1>1, <1>2, <1>3, <1>4, <1>5, <1>6, <1>7, <1>8 DEF Next, Call, vars

\* The reader keeps its part of the invariant whatever is parsed.
THEOREM ReaderInvariant == Spec => []ReaderInv
<1>1. ReaderInv /\ [Next]_vars => ReaderInv'
  BY ReaderPreserved
<1> QED
  BY ReaderInitially, <1>1, PTL DEF Spec

------------------------------------------------------------------------------
(* The GPS parser                                                           *)

\* The bytes a NAV-PVT frame starts with.
GpsHead == <<SyncChar1, SyncChar2, UbxNav, UbxNavPvt>>

\* How many bytes have moved the parser on.
GpsTaken ==
  CASE gps_state = "HEADER2" -> 1
    [] gps_state = "CLASS"   -> 2
    [] gps_state = "ID"      -> 3
    [] gps_state = "LENGTH1" -> 4
    [] gps_state = "LENGTH2" -> 5
    [] gps_state \in {"PAYLOAD", "CK_A"} -> 6 + gps_index
    [] gps_state = "CK_B"    -> 7 + gps_index

\* The index never passes the length, and the length is that of the buffer.
GpsIndexed ==
  /\ gps_state = "PAYLOAD" => payload_length = PvtLength /\ gps_index < PvtLength
  /\ gps_state \in {"CK_A", "CK_B"} => gps_index = PvtLength
  /\ gps_state \notin {"PAYLOAD", "CK_A", "CK_B"} => gps_index = 0
  /\ gps_state = "LENGTH2" => payload_length \in Gps!Char

\* While a frame is being parsed, its header is what was waited for and its
\* payload is in the buffer.
GpsFollows ==
  gps_state # "HEADER1" =>
    /\ Len(kept) = GpsTaken
    /\ \A i \in 1 .. 4 : i <= Len(kept) => kept[i] = GpsHead[i]
    /\ Len(kept) = 5 => kept[5] = payload_length
    /\ Len(kept) >= 6 => kept[5] + kept[6] * GpsRange = PvtLength
    /\ \A k \in 1 .. PvtLength : k <= gps_index => kept[6 + k] = ubx_buf[k]

\* What is published is the payload of a frame that has all its bytes in place,
\* whatever the buffer held before.
GpsPublished ==
  gps_fresh =>
    /\ Len(kept) = Gps!FrameLength
    /\ \A i \in 1 .. 4 : kept[i] = GpsHead[i]
    /\ kept[5] + kept[6] * GpsRange = PvtLength
    /\ gps_sample_new = GpsSample(Gps!PayloadOf(kept))

GpsInv == Gps!TypeOK /\ GpsIndexed /\ GpsFollows /\ GpsPublished

LEMMA GpsConstants ==
  /\ GpsRange \in Nat \ {0} /\ PvtLength \in Nat /\ PvtLength > 0
  /\ SyncChar1 \in Gps!Char /\ SyncChar2 \in Gps!Char
  /\ UbxNav \in Gps!Char /\ UbxNavPvt \in Gps!Char /\ 0 \in Gps!Char
<1>1. GpsRange \in Nat \ {0} /\ PvtLength \in 1 .. GpsRange * GpsRange - 1
  BY Given
<1>2. GpsRange * GpsRange \in Nat
  BY <1>1
<1>3. PvtLength \in Nat /\ PvtLength > 0
  BY <1>1, <1>2
<1>4. {SyncChar1, SyncChar2, UbxNav, UbxNavPvt} \subseteq Gps!Char
  BY Given DEF Gps!Char
<1> QED BY <1>1, <1>3, <1>4 DEF Gps!Char

LEMMA GpsInitially == Gps!Init => GpsInv
<1> SUFFICES ASSUME Gps!Init PROVE GpsInv
  OBVIOUS
<1>1. /\ gps_state = "HEADER1" /\ ck_a = 0 /\ ck_b = 0
      /\ payload_length = 0 /\ gps_index = 0
      /\ ubx_buf = [k \in 1 .. PvtLength |-> 0]
      /\ kept = <<>> /\ gps_fresh = FALSE
  BY DEF Gps!Init
<1>2. Gps!TypeOK
  <2>1. payload_length \in 0 .. GpsRange - 1 /\ gps_index \in 0 .. PvtLength
    BY <1>1, GpsConstants
  <2>2. ubx_buf \in [1 .. PvtLength -> Gps!Char] /\ kept \in Seq(Gps!Char)
    BY <1>1, GpsConstants
  <2> QED BY <1>1, <2>1, <2>2, GpsConstants DEF Gps!TypeOK, Gps!States
<1>3. GpsIndexed /\ GpsFollows /\ GpsPublished
  BY <1>1 DEF GpsIndexed, GpsFollows, GpsPublished
<1> QED BY <1>2, <1>3 DEF GpsInv
\* Nothing is published: whatever the parser goes on with, it may be at rest.
LEMMA GpsRests ==
  ASSUME Gps!TypeOK', GpsIndexed', gps_state' = "HEADER1", ~ gps_fresh'
  PROVE  GpsInv'
  BY DEF GpsInv, GpsFollows, GpsPublished

\* A byte that is kept comes after those that were.
LEMMA GpsKeeps ==
  ASSUME GpsInv, gps_state # "HEADER1", NEW ch \in Gps!Char, kept' = Append(kept, ch)
  PROVE  /\ GpsTaken \in Nat /\ GpsTaken >= 1 /\ Len(kept) = GpsTaken
         /\ kept' \in Seq(Gps!Char) /\ Len(kept') = GpsTaken + 1
         /\ kept'[GpsTaken + 1] = ch
         /\ \A i \in 1 .. GpsTaken : kept'[i] = kept[i]
<1>1. kept \in Seq(Gps!Char) /\ Len(kept) = GpsTaken /\ gps_index \in Nat
      /\ gps_state \in Gps!States
  BY GpsConstants DEF GpsInv, GpsFollows, Gps!TypeOK
<1>2. GpsTaken \in Nat /\ GpsTaken >= 1
  BY <1>1 DEF GpsTaken, Gps!States
<1> QED BY <1>1, <1>2, Appended

\* The sums stay sums.
LEMMA GpsSums ==
  ASSUME Gps!TypeOK, NEW ch \in Gps!Char, Gps!Checksum(ch)
  PROVE  ck_a' \in Gps!Char /\ ck_b' \in Gps!Char
  BY GpsConstants, SumIsChar DEF Gps!TypeOK, Gps!Checksum, Gps!Char

LEMMA GpsHeader1 ==
  ASSUME GpsInv, NEW ch \in Gps!Char, Gps!Header1(ch) PROVE GpsInv'
<1>1. /\ gps_state = "HEADER1" /\ ~ gps_fresh' /\ gps_fresh' = FALSE
      /\ gps_state' = IF ch = SyncChar1 THEN "HEADER2" ELSE "HEADER1"
      /\ kept' = IF ch = SyncChar1 THEN <<ch>> ELSE <<>>
      /\ ck_a' = ck_a /\ ck_b' = ck_b /\ payload_length' = payload_length
      /\ gps_index' = gps_index /\ ubx_buf' = ubx_buf
  BY DEF Gps!Header1, Gps!sums
<1>2. kept' \in Seq(Gps!Char)
  BY <1>1
<1>3. Gps!TypeOK' /\ GpsIndexed'
  BY <1>1, <1>2 DEF GpsInv, Gps!TypeOK, Gps!States, GpsIndexed, Gps!Char
<1>4. CASE ch = SyncChar1
  <2>1. gps_state' = "HEADER2" /\ Len(kept') = 1 /\ kept'[1] = GpsHead[1]
    BY <1>1, <1>4 DEF GpsHead
  <2>2. gps_index' = 0
    BY <1>1 DEF GpsInv, GpsIndexed
  <2>3. GpsFollows'
    BY <2>1, <2>2, GpsConstants DEF GpsFollows, GpsTaken, GpsHead
  <2> QED BY <1>1, <1>3, <2>3 DEF GpsInv, GpsPublished
<1>5. CASE ch # SyncChar1
  BY <1>1, <1>3, <1>5, GpsRests
<1> QED BY <1>4, <1>5

\* The parser goes on with a byte that is the one waited for, the length's, or
\* the payload's.
LEMMA GpsGoesOn ==
  ASSUME GpsInv, gps_state # "HEADER1", NEW ch \in Gps!Char, Gps!Keep(ch),
         Gps!TypeOK', GpsIndexed', gps_state' # "HEADER1", GpsTaken' = GpsTaken + 1,
         GpsTaken < 4 => ch = GpsHead[GpsTaken + 1],
         GpsTaken = 4 => payload_length' = ch,
         GpsTaken = 5 => payload_length + ch * GpsRange = PvtLength,
         \A k \in 1 .. PvtLength : k <= gps_index' =>
           \/ k <= gps_index /\ ubx_buf'[k] = ubx_buf[k]
           \/ 6 + k = GpsTaken + 1 /\ ubx_buf'[k] = ch
  PROVE  GpsInv'
<1>1. /\ GpsTaken \in Nat /\ GpsTaken >= 1 /\ Len(kept) = GpsTaken
      /\ Len(kept') = GpsTaken + 1 /\ kept'[GpsTaken + 1] = ch
      /\ \A i \in 1 .. GpsTaken : kept'[i] = kept[i]
  BY GpsKeeps DEF Gps!Keep
<1>2. ~ gps_fresh'
  BY DEF Gps!Keep
<1>3. /\ \A i \in 1 .. 4 : i <= GpsTaken => kept[i] = GpsHead[i]
      /\ GpsTaken = 5 => kept[5] = payload_length
      /\ GpsTaken >= 6 => kept[5] + kept[6] * GpsRange = PvtLength
      /\ \A k \in 1 .. PvtLength : k <= gps_index => kept[6 + k] = ubx_buf[k]
  BY <1>1 DEF GpsInv, GpsFollows
<1>4. gps_index \in 0 .. PvtLength /\ (gps_index > 0 => GpsTaken >= 6 + gps_index)
  <2>1. gps_index \in 0 .. PvtLength /\ gps_state \in Gps!States
    BY DEF GpsInv, Gps!TypeOK
  <2>2. CASE gps_state \in {"PAYLOAD", "CK_A", "CK_B"}
    BY <2>1, <2>2, GpsConstants DEF GpsTaken
  <2>3. CASE gps_state \notin {"PAYLOAD", "CK_A", "CK_B"}
    BY <2>1, <2>3, GpsConstants DEF GpsInv, GpsIndexed
  <2> QED BY <2>2, <2>3
<1>5. \A i \in 1 .. 4 : i <= GpsTaken + 1 => kept'[i] = GpsHead[i]
  <2> SUFFICES ASSUME NEW i \in 1 .. 4, i <= GpsTaken + 1 PROVE kept'[i] = GpsHead[i]
    OBVIOUS
  <2>1. CASE i <= GpsTaken
    BY <1>1, <1>3, <2>1
  <2>2. CASE i = GpsTaken + 1
    BY <1>1, <2>2
  <2> QED BY <1>1, <2>1, <2>2
<1>6. GpsTaken + 1 = 5 => kept'[5] = payload_length'
  BY <1>1
<1>7. GpsTaken + 1 >= 6 => kept'[5] + kept'[6] * GpsRange = PvtLength
  <2>1. CASE GpsTaken = 5
    <3>1. kept'[6] = ch /\ kept'[5] = payload_length
      BY <1>1, <1>3, <2>1
    <3> QED BY <3>1, <2>1
  <2>2. CASE GpsTaken >= 6
    <3>1. kept'[6] = kept[6] /\ kept'[5] = kept[5]
      BY <1>1, <2>2
    <3> QED BY <3>1, <1>3, <2>2
  <2> QED BY <1>1, <2>1, <2>2
<1>8. \A k \in 1 .. PvtLength : k <= gps_index' => kept'[6 + k] = ubx_buf'[k]
  <2> SUFFICES ASSUME NEW k \in 1 .. PvtLength, k <= gps_index'
               PROVE  kept'[6 + k] = ubx_buf'[k]
    OBVIOUS
  <2>1. CASE k <= gps_index /\ ubx_buf'[k] = ubx_buf[k]
    <3>1. 6 + k \in 1 .. GpsTaken
      BY <1>1, <1>4, <2>1, GpsConstants
    <3> QED BY <1>1, <1>3, <2>1, <3>1
  <2>2. CASE 6 + k = GpsTaken + 1 /\ ubx_buf'[k] = ch
    BY <1>1, <2>2
  <2> QED BY <2>1, <2>2
<1>9. GpsFollows'
  <2>1. Len(kept') = GpsTaken'
    BY <1>1
  <2> QED BY ONLY <2>1, <1>1, <1>5, <1>6, <1>7, <1>8 DEF GpsFollows, GpsHead
<1> QED BY <1>2, <1>9 DEF GpsInv, GpsPublished

LEMMA GpsHeader2 ==
  ASSUME GpsInv, NEW ch \in Gps!Char, Gps!Header2(ch) PROVE GpsInv'
<1>1. /\ gps_state = "HEADER2" /\ payload_length' = payload_length
      /\ gps_index' = gps_index /\ ubx_buf' = ubx_buf /\ Gps!Keep(ch)
      /\ ck_a' \in {ck_a, 0} /\ ck_b' \in {ck_b, 0}
      /\ gps_state' = IF ch = SyncChar2 THEN "CLASS" ELSE "HEADER1"
  BY DEF Gps!Header2, Gps!sums
<1>2. kept' \in Seq(Gps!Char) /\ gps_fresh' = FALSE
  BY <1>1, GpsKeeps DEF Gps!Keep
<1>3. Gps!TypeOK' /\ GpsIndexed'
  BY <1>1, <1>2, GpsConstants DEF GpsInv, Gps!TypeOK, Gps!States, GpsIndexed, Gps!Char
<1>4. CASE ch = SyncChar2
  <2>1. gps_state' = "CLASS" /\ GpsTaken = 1 /\ GpsTaken' = 2
    BY <1>1, <1>4 DEF GpsTaken
  <2>2. gps_index' = 0
    BY <1>1 DEF GpsInv, GpsIndexed
  <2> QED BY <1>1, <1>3, <1>4, <2>1, <2>2, GpsGoesOn DEF GpsHead
<1>5. CASE ch # SyncChar2
  BY <1>1, <1>2, <1>3, <1>5, GpsRests
<1> QED BY <1>4, <1>5

LEMMA GpsPassOver ==
  ASSUME GpsInv, NEW ch \in Gps!Char, Gps!PassOver(ch) PROVE GpsInv'
<1>1. /\ gps_state' = gps_state /\ ck_a' = ck_a /\ ck_b' = ck_b
      /\ payload_length' = payload_length /\ gps_index' = gps_index
      /\ ubx_buf' = ubx_buf /\ kept' = kept /\ gps_fresh' = FALSE
  BY DEF Gps!PassOver, Gps!parser, Gps!sums
<1>2. Gps!TypeOK' /\ GpsIndexed'
  BY <1>1 DEF GpsInv, Gps!TypeOK, GpsIndexed, Gps!Char
<1>3. GpsTaken' = GpsTaken
  BY <1>1 DEF GpsTaken
<1>4. GpsFollows'
  BY <1>1, <1>3 DEF GpsInv, GpsFollows, GpsHead
<1> QED BY <1>1, <1>2, <1>4 DEF GpsInv, GpsPublished

LEMMA GpsClass ==
  ASSUME GpsInv, NEW ch \in Gps!Char, Gps!Class(ch) PROVE GpsInv'
<1>1. /\ gps_state = "CLASS" /\ gps_state' = "ID" /\ ch = UbxNav
      /\ payload_length' = payload_length
      /\ gps_index' = gps_index /\ ubx_buf' = ubx_buf /\ Gps!Keep(ch)
  BY DEF Gps!Class
<1>2. /\ kept' \in Seq(Gps!Char) /\ gps_fresh' = FALSE
      /\ ck_a' \in Gps!Char /\ ck_b' \in Gps!Char
  BY <1>1, GpsKeeps, GpsSums DEF Gps!Keep, Gps!Class, GpsInv
<1>3. Gps!TypeOK' /\ GpsIndexed' /\ gps_index' = 0
  BY <1>1, <1>2 DEF GpsInv, Gps!TypeOK, Gps!States, GpsIndexed, Gps!Char
<1>4. GpsTaken = 2 /\ GpsTaken' = 3
  BY <1>1 DEF GpsTaken
<1> QED BY <1>1, <1>3, <1>4, GpsGoesOn DEF GpsHead

LEMMA GpsId ==
  ASSUME GpsInv, NEW ch \in Gps!Char, Gps!Id(ch) PROVE GpsInv'
<1>1. /\ gps_state = "ID" /\ gps_state' = "LENGTH1" /\ ch = UbxNavPvt
      /\ payload_length' = payload_length
      /\ gps_index' = gps_index /\ ubx_buf' = ubx_buf /\ Gps!Keep(ch)
  BY DEF Gps!Id
<1>2. /\ kept' \in Seq(Gps!Char) /\ gps_fresh' = FALSE
      /\ ck_a' \in Gps!Char /\ ck_b' \in Gps!Char
  BY <1>1, GpsKeeps, GpsSums DEF Gps!Keep, Gps!Id, GpsInv
<1>3. Gps!TypeOK' /\ GpsIndexed' /\ gps_index' = 0
  BY <1>1, <1>2 DEF GpsInv, Gps!TypeOK, Gps!States, GpsIndexed, Gps!Char
<1>4. GpsTaken = 3 /\ GpsTaken' = 4
  BY <1>1 DEF GpsTaken
<1> QED BY <1>1, <1>3, <1>4, GpsGoesOn DEF GpsHead

LEMMA GpsLength1 ==
  ASSUME GpsInv, NEW ch \in Gps!Char, Gps!Length1(ch) PROVE GpsInv'
<1>1. /\ gps_state = "LENGTH1" /\ gps_state' = "LENGTH2" /\ payload_length' = ch
      /\ gps_index' = gps_index /\ ubx_buf' = ubx_buf /\ Gps!Keep(ch)
  BY DEF Gps!Length1
<1>2. /\ kept' \in Seq(Gps!Char) /\ gps_fresh' = FALSE
      /\ ck_a' \in Gps!Char /\ ck_b' \in Gps!Char
  BY <1>1, GpsKeeps, GpsSums DEF Gps!Keep, Gps!Length1, GpsInv
<1>3. Gps!TypeOK' /\ GpsIndexed' /\ gps_index' = 0
  BY <1>1, <1>2 DEF GpsInv, Gps!TypeOK, Gps!States, GpsIndexed, Gps!Char
<1>4. GpsTaken = 4 /\ GpsTaken' = 5
  BY <1>1 DEF GpsTaken
<1> QED BY <1>1, <1>3, <1>4, GpsGoesOn

LEMMA GpsLength2 ==
  ASSUME GpsInv, NEW ch \in Gps!Char, Gps!Length2(ch) PROVE GpsInv'
<1>1. gps_state = "LENGTH2" /\ ubx_buf' = ubx_buf /\ Gps!Keep(ch) /\ gps_index = 0
  BY DEF Gps!Length2, GpsInv, GpsIndexed
<1>2. kept' \in Seq(Gps!Char) /\ gps_fresh' = FALSE
  BY <1>1, GpsKeeps DEF Gps!Keep
<1>3. CASE payload_length + ch * GpsRange = PvtLength
  <2>1. /\ Gps!Checksum(ch) /\ payload_length' = PvtLength
        /\ gps_state' = "PAYLOAD" /\ gps_index' = 0
    BY <1>1, <1>3 DEF Gps!Length2
  <2>2. ck_a' \in Gps!Char /\ ck_b' \in Gps!Char
    BY <2>1, GpsSums DEF GpsInv
  <2>3. Gps!TypeOK' /\ GpsIndexed'
    BY <1>1, <1>2, <2>1, <2>2, GpsConstants
       DEF GpsInv, Gps!TypeOK, Gps!States, GpsIndexed, Gps!Char
  <2>4. GpsTaken = 5 /\ GpsTaken' = 6
    BY <1>1, <2>1 DEF GpsTaken
  <2> QED BY <1>1, <1>3, <2>1, <2>3, <2>4, GpsGoesOn
<1>4. CASE payload_length + ch * GpsRange # PvtLength
  <2>1. /\ gps_state' = "HEADER1" /\ ck_a' = 0 /\ ck_b' = 0
        /\ payload_length' = 0 /\ gps_index' = 0
    BY <1>1, <1>4 DEF Gps!Length2, Gps!ParseCharReset
  <2>2. Gps!TypeOK' /\ GpsIndexed'
    BY <1>1, <1>2, <2>1, GpsConstants
       DEF GpsInv, Gps!TypeOK, Gps!States, GpsIndexed, Gps!Char
  <2> QED BY <1>2, <2>1, <2>2, GpsRests
<1> QED BY <1>3, <1>4

LEMMA GpsPayload ==
  ASSUME GpsInv, NEW ch \in Gps!Char, Gps!Payload(ch) PROVE GpsInv'
<1>1. /\ gps_state = "PAYLOAD" /\ Gps!Keep(ch) /\ payload_length' = payload_length
      /\ ubx_buf' = [ubx_buf EXCEPT ![gps_index + 1] = ch]
      /\ gps_index' = gps_index + 1
      /\ gps_state' = IF gps_index' = payload_length THEN "CK_A" ELSE "PAYLOAD"
  BY DEF Gps!Payload
<1>2. /\ gps_index \in 0 .. PvtLength /\ gps_index < PvtLength
      /\ payload_length = PvtLength /\ ubx_buf \in [1 .. PvtLength -> Gps!Char]
  BY <1>1 DEF GpsInv, Gps!TypeOK, GpsIndexed
<1>3. PICK n \in 1 .. PvtLength : n = gps_index + 1
  BY <1>2, GpsConstants
<1>4. /\ kept' \in Seq(Gps!Char) /\ gps_fresh' = FALSE
      /\ ck_a' \in Gps!Char /\ ck_b' \in Gps!Char
  BY <1>1, GpsKeeps, GpsSums DEF Gps!Keep, Gps!Payload, GpsInv
<1>5. /\ gps_index' = n /\ ubx_buf' = [ubx_buf EXCEPT ![n] = ch]
      /\ gps_state' = IF n = PvtLength THEN "CK_A" ELSE "PAYLOAD"
      /\ n \in 0 .. PvtLength /\ (n = PvtLength \/ n < PvtLength)
  BY <1>1, <1>2, <1>3, GpsConstants
<1>6. ubx_buf' \in [1 .. PvtLength -> Gps!Char]
  BY <1>2, <1>5
<1>7. Gps!TypeOK' /\ GpsIndexed'
  BY <1>1, <1>2, <1>4, <1>5, <1>6 DEF GpsInv, Gps!TypeOK, Gps!States, GpsIndexed
<1>8. GpsTaken = 6 + gps_index /\ GpsTaken' = 6 + n
  BY <1>1, <1>5 DEF GpsTaken
<1>9. GpsTaken' = GpsTaken + 1 /\ GpsTaken >= 6 /\ GpsTaken \in Nat
  BY <1>2, <1>3, <1>8, GpsConstants
<1>10. \A k \in 1 .. PvtLength : k <= n =>
         \/ k <= gps_index /\ ubx_buf'[k] = ubx_buf[k]
         \/ 6 + k = GpsTaken + 1 /\ ubx_buf'[k] = ch
  BY <1>2, <1>3, <1>5, <1>8, GpsConstants
<1>11. gps_state # "HEADER1" /\ gps_state' # "HEADER1"
  BY <1>1, <1>5
<1>12. ~ (GpsTaken < 4) /\ GpsTaken # 4 /\ GpsTaken # 5
  BY <1>9
<1> QED BY <1>1, <1>5, <1>7, <1>9, <1>10, <1>11, <1>12, GpsGoesOn

LEMMA GpsCkA ==
  ASSUME GpsInv, NEW ch \in Gps!Char, Gps!CkA(ch) PROVE GpsInv'
<1>1. gps_state = "CK_A" /\ ubx_buf' = ubx_buf /\ Gps!Keep(ch) /\ gps_index = PvtLength
  BY DEF Gps!CkA, GpsInv, GpsIndexed
<1>2. kept' \in Seq(Gps!Char) /\ gps_fresh' = FALSE
  BY <1>1, GpsKeeps DEF Gps!Keep
<1>3. CASE ck_a = ch
  <2>1. /\ gps_state' = "CK_B" /\ ck_a' = ck_a /\ ck_b' = ck_b
        /\ payload_length' = payload_length /\ gps_index' = gps_index
    BY <1>1, <1>3 DEF Gps!CkA, Gps!sums
  <2>2. Gps!TypeOK' /\ GpsIndexed'
    BY <1>1, <1>2, <2>1, GpsConstants
       DEF GpsInv, Gps!TypeOK, Gps!States, GpsIndexed, Gps!Char
  <2>3. /\ GpsTaken = 6 + PvtLength /\ GpsTaken' = 7 + PvtLength
        /\ GpsTaken' = GpsTaken + 1 /\ GpsTaken >= 6 /\ GpsTaken \in Nat
    BY <1>1, <2>1, GpsConstants DEF GpsTaken
  <2>4. ~ (GpsTaken < 4) /\ GpsTaken # 4 /\ GpsTaken # 5
    BY <2>3
  <2> QED BY <1>1, <2>1, <2>2, <2>3, <2>4, GpsGoesOn
<1>4. CASE ck_a # ch
  <2>1. /\ gps_state' = "HEADER1" /\ ck_a' = 0 /\ ck_b' = 0
        /\ payload_length' = 0 /\ gps_index' = 0
    BY <1>1, <1>4 DEF Gps!CkA, Gps!ParseCharReset
  <2>2. Gps!TypeOK' /\ GpsIndexed'
    <3>1. 0 \in 0 .. PvtLength /\ 0 \in 0 .. GpsRange - 1
      BY GpsConstants
    <3>2. ubx_buf' \in [1 .. PvtLength -> Gps!Char]
      BY <1>1 DEF GpsInv, Gps!TypeOK
    <3> QED BY ONLY <1>2, <2>1, <3>1, <3>2
            DEF Gps!TypeOK, Gps!States, GpsIndexed, Gps!Char
  <2> QED BY <1>2, <2>1, <2>2, GpsRests
<1> QED BY <1>3, <1>4

\* The buffer is what was kept after the header.
LEMMA GpsCkB ==
  ASSUME GpsInv, NEW ch \in Gps!Char, Gps!CkB(ch) PROVE GpsInv'
<1>1. /\ gps_state = "CK_B" /\ kept' = Append(kept, ch) /\ ubx_buf' = ubx_buf
      /\ gps_state' = "HEADER1" /\ ck_a' = 0 /\ ck_b' = 0
      /\ payload_length' = 0 /\ gps_index' = 0 /\ gps_fresh' \in BOOLEAN
      /\ gps_fresh' => gps_sample_new' = GpsSample(ubx_buf)
  BY DEF Gps!CkB, Gps!PublishGpsMsg, Gps!ParseCharReset
<1>2. /\ GpsTaken = 7 + PvtLength /\ GpsTaken >= 6 /\ gps_index = PvtLength
      /\ ubx_buf \in [1 .. PvtLength -> Gps!Char]
  BY <1>1, GpsConstants DEF GpsTaken, GpsInv, GpsIndexed, Gps!TypeOK
<1>3. /\ Len(kept) = GpsTaken /\ kept' \in Seq(Gps!Char) /\ Len(kept') = PvtLength + 8
      /\ \A i \in 1 .. GpsTaken : kept'[i] = kept[i]
  BY <1>1, <1>2, GpsKeeps, GpsConstants
<1>4. Gps!TypeOK' /\ GpsIndexed'
  BY <1>1, <1>3, GpsConstants
     DEF GpsInv, Gps!TypeOK, Gps!States, GpsIndexed, Gps!Char
<1>5. /\ \A i \in 1 .. 4 : kept'[i] = GpsHead[i]
      /\ kept'[5] + kept'[6] * GpsRange = PvtLength
      /\ \A k \in 1 .. PvtLength : kept'[6 + k] = ubx_buf[k]
  <2>1. /\ \A i \in 1 .. 4 : kept[i] = GpsHead[i]
        /\ kept[5] + kept[6] * GpsRange = PvtLength
        /\ \A k \in 1 .. PvtLength : kept[6 + k] = ubx_buf[k]
    BY <1>1, <1>2, <1>3, GpsConstants DEF GpsInv, GpsFollows
  <2>2. /\ \A i \in 1 .. 4 : i \in 1 .. GpsTaken
        /\ 5 \in 1 .. GpsTaken /\ 6 \in 1 .. GpsTaken
        /\ \A k \in 1 .. PvtLength : 6 + k \in 1 .. GpsTaken
    BY <1>2, GpsConstants
  <2> QED BY ONLY <2>1, <2>2, <1>3
<1>6. SubSeq(kept', 7, PvtLength + 6) = ubx_buf
  <2> DEFINE t == SubSeq(kept', 7, PvtLength + 6)
  <2>1. /\ DOMAIN t = 1 .. PvtLength
        /\ \A k \in 1 .. PvtLength : t[k] = kept'[6 + k]
        /\ t = [k \in DOMAIN t |-> t[k]]
    BY <1>3, GpsConstants
  <2>2. \A k \in 1 .. PvtLength : t[k] = ubx_buf[k]
    BY <1>5, <2>1
  <2> HIDE DEF t
  <2>3. t = [k \in 1 .. PvtLength |-> t[k]]
    BY <2>1
  <2> QED BY <2>2, <2>3, <1>2 DEF t
<1>7. GpsFollows'
  BY <1>1 DEF GpsFollows
<1>8. GpsPublished'
  <2>1. GpsHead' = GpsHead
    BY DEF GpsHead
  <2>2. gps_fresh' => gps_sample_new' = GpsSample(Gps!PayloadOf(kept'))
    BY <1>1, <1>6 DEF Gps!PayloadOf
  <2> QED BY <1>3, <1>5, <2>1, <2>2 DEF GpsPublished, Gps!FrameLength, Gps!PayloadOf
<1> QED BY <1>4, <1>7, <1>8 DEF GpsInv

LEMMA GpsPreserved ==
  ASSUME GpsInv, NEW ch \in Gps!Char, Gps!ParseChar(ch) PROVE GpsInv'
BY GpsHeader1, GpsHeader2, GpsPassOver, GpsClass, GpsId, GpsLength1, GpsLength2,
   GpsPayload, GpsCkA, GpsCkB DEF Gps!ParseChar

LEMMA GpsUntouched == ASSUME GpsInv, UNCHANGED gps PROVE GpsInv'
<1>1. /\ gps_state' = gps_state /\ ck_a' = ck_a /\ ck_b' = ck_b
      /\ payload_length' = payload_length /\ gps_index' = gps_index /\ ubx_buf' = ubx_buf
      /\ gps_sample_new' = gps_sample_new /\ kept' = kept /\ gps_fresh' = gps_fresh
  BY DEF gps
<1>2. Gps!TypeOK' /\ GpsIndexed'
  BY <1>1 DEF GpsInv, Gps!TypeOK, GpsIndexed
<1>3. GpsFollows' /\ GpsPublished'
  <2>1. GpsTaken' = GpsTaken /\ GpsHead' = GpsHead
    BY <1>1 DEF GpsTaken, GpsHead
  <2> QED BY <1>1, <2>1 DEF GpsInv, GpsFollows, GpsPublished
<1> QED BY <1>2, <1>3 DEF GpsInv

------------------------------------------------------------------------------
(* The parser of the inertial unit                                          *)

\* How many bytes it has heard since it was at rest.
ImuTaken ==
  CASE imu_state = "HEADER2"   -> 1
    [] imu_state = "STATE"     -> 2
    [] imu_state \in {"PAYLOAD", "IDX"} -> 2 + imu_index
    [] imu_state = "CHECK_SUM" -> 3 + imu_index
    [] imu_state = "TAIL"      -> 4 + imu_index

\* The payload begins at the second byte of the buffer and ends with it.
ImuIndexed ==
  /\ imu_state = "PAYLOAD" => imu_index >= 1 /\ imu_index < NavLength
  /\ imu_state \in {"IDX", "CHECK_SUM", "TAIL"} => imu_index = NavLength
  /\ imu_state \in {"HEADER1", "HEADER2", "STATE"} => imu_index = 0

ImuFollows ==
  imu_state # "HEADER1" =>
    /\ Len(heard) = ImuTaken
    /\ heard[1] = HeadChar1
    /\ Len(heard) >= 2 => heard[2] = HeadChar2
    /\ \A k \in 1 .. NavLength : k <= imu_index => heard[2 + k] = buf_raw[k]

\* What is published is what lies between the header and the last three bytes of
\* as many bytes as a frame has, and the last is the tail.
ImuPublished ==
  imu_fresh =>
    /\ Len(heard) = Imu!FrameLength
    /\ heard[1] = HeadChar1 /\ heard[2] = HeadChar2
    /\ heard[Imu!FrameLength] = TailChar
    /\ imu040_sample = ImuSample(Imu!BufferOf(heard))

ImuInv == Imu!TypeOK /\ ImuIndexed /\ ImuFollows /\ ImuPublished

LEMMA ImuConstants ==
  /\ ImuRange \in Nat \ {0} /\ NavLength \in Nat /\ NavLength >= 2
  /\ 0 \in Imu!Char /\ 0 \in 0 .. NavLength
  BY Given DEF Imu!Char

LEMMA ImuInitially == Imu!Init => ImuInv
<1> SUFFICES ASSUME Imu!Init PROVE ImuInv
  OBVIOUS
<1>1. /\ imu_state = "HEADER1" /\ ck_sum = 0 /\ imu_index = 0
      /\ buf_raw = [k \in 1 .. NavLength |-> 0]
      /\ heard = <<>> /\ imu_fresh = FALSE
  BY DEF Imu!Init
<1>2. buf_raw \in [1 .. NavLength -> Imu!Char] /\ heard \in Seq(Imu!Char)
  BY <1>1, ImuConstants
<1>3. Imu!TypeOK
  BY <1>1, <1>2, ImuConstants DEF Imu!TypeOK
<1>4. ImuIndexed /\ ImuFollows /\ ImuPublished
  BY <1>1 DEF ImuIndexed, ImuFollows, ImuPublished
<1> QED BY <1>3, <1>4 DEF ImuInv

LEMMA ImuRests ==
  ASSUME Imu!TypeOK', ImuIndexed', imu_state' = "HEADER1", ~ imu_fresh'
  PROVE  ImuInv'
  BY DEF ImuInv, ImuFollows, ImuPublished

LEMMA ImuKeeps ==
  ASSUME ImuInv, imu_state # "HEADER1", NEW ch \in Imu!Char, heard' = Append(heard, ch)
  PROVE  /\ ImuTaken \in Nat /\ ImuTaken >= 1 /\ Len(heard) = ImuTaken
         /\ heard' \in Seq(Imu!Char) /\ Len(heard') = ImuTaken + 1
         /\ heard'[ImuTaken + 1] = ch
         /\ \A i \in 1 .. ImuTaken : heard'[i] = heard[i]
<1>1. heard \in Seq(Imu!Char) /\ Len(heard) = ImuTaken /\ imu_index \in Nat
      /\ imu_state \in {"HEADER1", "HEADER2", "STATE", "PAYLOAD", "IDX",
                        "CHECK_SUM", "TAIL"}
  BY ImuConstants DEF ImuInv, ImuFollows, Imu!TypeOK
<1>2. ImuTaken \in Nat /\ ImuTaken >= 1
  BY <1>1 DEF ImuTaken
<1> QED BY <1>1, <1>2, Appended

LEMMA ImuSums ==
  ASSUME Imu!TypeOK, NEW ch \in Imu!Char, Imu!Checksum(ch) PROVE ck_sum' \in Imu!Char
  BY ImuConstants, SumIsChar DEF Imu!TypeOK, Imu!Checksum, Imu!Char

\* A byte is taken: the second of the header, one that is stored, or one of the
\* two that are not.
LEMMA ImuGoesOn ==
  ASSUME ImuInv, imu_state # "HEADER1", NEW ch \in Imu!Char, Imu!Hear(ch),
         Imu!TypeOK', ImuIndexed', imu_state' # "HEADER1", ImuTaken' = ImuTaken + 1,
         ImuTaken = 1 => ch = HeadChar2,
         \A k \in 1 .. NavLength : k <= imu_index' =>
           \/ k <= imu_index /\ buf_raw'[k] = buf_raw[k]
           \/ 2 + k = ImuTaken + 1 /\ buf_raw'[k] = ch
  PROVE  ImuInv'
<1>1. /\ ImuTaken \in Nat /\ ImuTaken >= 1 /\ Len(heard) = ImuTaken
      /\ Len(heard') = ImuTaken + 1 /\ heard'[ImuTaken + 1] = ch
      /\ \A i \in 1 .. ImuTaken : heard'[i] = heard[i]
  BY ImuKeeps DEF Imu!Hear
<1>2. ~ imu_fresh'
  BY DEF Imu!Hear
<1>3. /\ heard[1] = HeadChar1
      /\ ImuTaken >= 2 => heard[2] = HeadChar2
      /\ \A k \in 1 .. NavLength : k <= imu_index => heard[2 + k] = buf_raw[k]
  BY <1>1 DEF ImuInv, ImuFollows
<1>4. imu_index \in 0 .. NavLength /\ (imu_index > 0 => ImuTaken >= 2 + imu_index)
  <2>1. imu_index \in 0 .. NavLength
        /\ imu_state \in {"HEADER2", "STATE", "PAYLOAD", "IDX", "CHECK_SUM", "TAIL"}
    BY DEF ImuInv, Imu!TypeOK
  <2>2. CASE imu_state \in {"PAYLOAD", "IDX", "CHECK_SUM", "TAIL"}
    BY <2>1, <2>2, ImuConstants DEF ImuTaken
  <2>3. CASE imu_state \in {"HEADER2", "STATE"}
    BY <2>1, <2>3, ImuConstants DEF ImuInv, ImuIndexed
  <2> QED BY <2>1, <2>2, <2>3
<1>5. heard'[1] = HeadChar1 /\ heard'[2] = HeadChar2
  <2>1. CASE ImuTaken = 1
    BY <1>1, <1>3, <2>1
  <2>2. CASE ImuTaken >= 2
    <3>1. 1 \in 1 .. ImuTaken /\ 2 \in 1 .. ImuTaken
      BY <1>1, <2>2
    <3> QED BY <1>1, <1>3, <2>2, <3>1
  <2> QED BY <1>1, <2>1, <2>2
<1>6. \A k \in 1 .. NavLength : k <= imu_index' => heard'[2 + k] = buf_raw'[k]
  <2> SUFFICES ASSUME NEW k \in 1 .. NavLength, k <= imu_index'
               PROVE  heard'[2 + k] = buf_raw'[k]
    OBVIOUS
  <2>1. CASE k <= imu_index /\ buf_raw'[k] = buf_raw[k]
    <3>1. 2 + k \in 1 .. ImuTaken
      BY <1>1, <1>4, <2>1, ImuConstants
    <3> QED BY <1>1, <1>3, <2>1, <3>1
  <2>2. CASE 2 + k = ImuTaken + 1 /\ buf_raw'[k] = ch
    BY <1>1, <2>2
  <2> QED BY <2>1, <2>2
<1>7. ImuFollows'
  <2>1. Len(heard') = ImuTaken'
    BY <1>1
  <2> QED BY ONLY <2>1, <1>1, <1>5, <1>6 DEF ImuFollows
<1> QED BY <1>2, <1>7 DEF ImuInv, ImuPublished

LEMMA ImuHeader1 ==
  ASSUME ImuInv, NEW ch \in Imu!Char, Imu!Header1(ch) PROVE ImuInv'
<1>1. /\ imu_state = "HEADER1" /\ imu_fresh' = FALSE
      /\ imu_state' = IF ch = HeadChar1 THEN "HEADER2" ELSE "HEADER1"
      /\ heard' = IF ch = HeadChar1 THEN <<ch>> ELSE <<>>
      /\ ck_sum' = ck_sum /\ imu_index' = imu_index /\ buf_raw' = buf_raw
  BY DEF Imu!Header1
<1>2. heard' \in Seq(Imu!Char)
  BY <1>1
<1>3. Imu!TypeOK' /\ ImuIndexed'
  BY <1>1, <1>2 DEF ImuInv, Imu!TypeOK, ImuIndexed, Imu!Char
<1>4. CASE ch = HeadChar1
  <2>1. imu_state' = "HEADER2" /\ Len(heard') = 1 /\ heard'[1] = HeadChar1
    BY <1>1, <1>4
  <2>2. imu_index' = 0
    BY <1>1 DEF ImuInv, ImuIndexed
  <2>3. ImuFollows'
    BY <2>1, <2>2, ImuConstants DEF ImuFollows, ImuTaken
  <2> QED BY <1>1, <1>3, <2>3 DEF ImuInv, ImuPublished
<1>5. CASE ch # HeadChar1
  BY <1>1, <1>3, <1>5, ImuRests
<1> QED BY <1>4, <1>5

LEMMA ImuHeader2 ==
  ASSUME ImuInv, NEW ch \in Imu!Char, Imu!Header2(ch) PROVE ImuInv'
<1>1. /\ imu_state = "HEADER2" /\ buf_raw' = buf_raw /\ Imu!Hear(ch) /\ imu_index = 0
      /\ ck_sum' \in {ck_sum, 0} /\ imu_index' = 0
      /\ imu_state' = IF ch = HeadChar2 THEN "STATE" ELSE "HEADER1"
  BY DEF Imu!Header2, Imu!ParseCharReset, ImuInv, ImuIndexed
<1>2. heard' \in Seq(Imu!Char) /\ imu_fresh' = FALSE
  BY <1>1, ImuKeeps DEF Imu!Hear
<1>3. Imu!TypeOK' /\ ImuIndexed'
  BY <1>1, <1>2, ImuConstants DEF ImuInv, Imu!TypeOK, ImuIndexed, Imu!Char
<1>4. CASE ch = HeadChar2
  <2>1. imu_state' = "STATE" /\ ImuTaken = 1 /\ ImuTaken' = 2
    BY <1>1, <1>4 DEF ImuTaken
  <2>2. \A k \in 1 .. NavLength : ~ (k <= imu_index')
    BY <1>1, ImuConstants
  <2> QED BY <1>1, <1>3, <1>4, <2>1, <2>2, ImuGoesOn
<1>5. CASE ch # HeadChar2
  BY <1>1, <1>2, <1>3, <1>5, ImuRests
<1> QED BY <1>4, <1>5

\* A stored byte has a place of its own in the buffer.
LEMMA ImuStores ==
  ASSUME ImuInv, imu_state \in {"STATE", "PAYLOAD"},
         NEW ch \in Imu!Char, Imu!Store(ch), Imu!Hear(ch), ck_sum' \in Imu!Char,
         imu_state' = IF imu_state = "PAYLOAD" /\ imu_index' >= NavLength
                        THEN "IDX" ELSE "PAYLOAD"
  PROVE  ImuInv'
<1>1. /\ imu_index \in 0 .. NavLength /\ imu_index < NavLength
      /\ imu_state = "PAYLOAD" => imu_index >= 1
      /\ imu_state = "STATE" => imu_index = 0
      /\ buf_raw \in [1 .. NavLength -> Imu!Char]
  BY ImuConstants DEF ImuInv, Imu!TypeOK, ImuIndexed
<1>2. PICK n \in 1 .. NavLength : n = imu_index + 1
  BY <1>1, ImuConstants
<1>3. imu_index' = n /\ buf_raw' = [buf_raw EXCEPT ![n] = ch]
  BY <1>2 DEF Imu!Store
<1>4. /\ n \in 0 .. NavLength /\ n >= 1
      /\ imu_state' = IF n = NavLength THEN "IDX" ELSE "PAYLOAD"
  <2>1. n \in 0 .. NavLength /\ n >= 1 /\ (n >= NavLength <=> n = NavLength)
    BY <1>2, ImuConstants
  <2>2. imu_state = "STATE" => n # NavLength
    BY <1>1, <1>2, ImuConstants
  <2> QED BY <1>3, <2>1, <2>2
<1>5. buf_raw' \in [1 .. NavLength -> Imu!Char]
  BY <1>1, <1>3
<1>6. heard' \in Seq(Imu!Char) /\ imu_fresh' = FALSE
  BY ImuKeeps DEF Imu!Hear
<1>7. Imu!TypeOK'
  BY <1>3, <1>4, <1>5, <1>6 DEF Imu!TypeOK
<1>8. ImuIndexed'
  <2>1. n = NavLength \/ n < NavLength
    BY <1>2, ImuConstants
  <2> QED BY ONLY <1>3, <1>4, <2>1 DEF ImuIndexed
<1>9. ImuTaken = 2 + imu_index /\ ImuTaken' = 2 + n
  BY <1>1, <1>3, <1>4 DEF ImuTaken
<1>10. ImuTaken' = ImuTaken + 1 /\ ImuTaken # 1
  BY <1>1, <1>2, <1>9, ImuConstants
<1>11. \A k \in 1 .. NavLength : k <= n =>
         \/ k <= imu_index /\ buf_raw'[k] = buf_raw[k]
         \/ 2 + k = ImuTaken + 1 /\ buf_raw'[k] = ch
  BY <1>1, <1>2, <1>3, <1>9, ImuConstants
<1>12. imu_state # "HEADER1" /\ imu_state' # "HEADER1"
  BY <1>4
<1> QED BY <1>3, <1>7, <1>8, <1>10, <1>11, <1>12, ImuGoesOn

LEMMA ImuState ==
  ASSUME ImuInv, NEW ch \in Imu!Char, Imu!State(ch) PROVE ImuInv'
<1>1. /\ imu_state = "STATE" /\ imu_state' = "PAYLOAD"
      /\ Imu!Store(ch) /\ Imu!Hear(ch) /\ ck_sum' = ck_sum
  BY DEF Imu!State
<1>2. ck_sum' \in Imu!Char
  BY <1>1 DEF ImuInv, Imu!TypeOK, Imu!Char
<1> QED BY <1>1, <1>2, ImuStores

LEMMA ImuPayload ==
  ASSUME ImuInv, NEW ch \in Imu!Char, Imu!Payload(ch) PROVE ImuInv'
<1>1. /\ imu_state = "PAYLOAD" /\ Imu!Store(ch) /\ Imu!Hear(ch) /\ Imu!Checksum(ch)
      /\ imu_state' = IF imu_index' >= NavLength THEN "IDX" ELSE "PAYLOAD"
  BY DEF Imu!Payload
<1>2. ck_sum' \in Imu!Char
  BY <1>1, ImuSums DEF ImuInv
<1> QED BY <1>1, <1>2, ImuStores

\* The two bytes that are compared and not stored, and the one that is neither.
LEMMA ImuTrailer ==
  ASSUME ImuInv, NEW ch \in Imu!Char, Imu!Idx(ch) \/ Imu!CheckSum(ch) PROVE ImuInv'
<1>1. /\ imu_state \in {"IDX", "CHECK_SUM"} /\ buf_raw' = buf_raw /\ Imu!Hear(ch)
      /\ imu_index = NavLength
      /\ \/ imu_state = "IDX" /\ imu_state' = "CHECK_SUM"
            /\ ck_sum' = ck_sum /\ imu_index' = imu_index
         \/ imu_state = "CHECK_SUM" /\ imu_state' = "TAIL"
            /\ ck_sum' = ck_sum /\ imu_index' = imu_index
         \/ imu_state' = "HEADER1" /\ ck_sum' = 0 /\ imu_index' = 0
  BY DEF Imu!Idx, Imu!CheckSum, Imu!ParseCharReset, ImuInv, ImuIndexed
<1>2. /\ heard' \in Seq(Imu!Char) /\ imu_fresh' = FALSE
      /\ ck_sum \in Imu!Char /\ buf_raw' \in [1 .. NavLength -> Imu!Char]
  BY <1>1, ImuKeeps DEF Imu!Hear, ImuInv, Imu!TypeOK, Imu!Char
<1>3. NavLength \in 0 .. NavLength
  BY ImuConstants
<1>4. Imu!TypeOK' /\ ImuIndexed'
  BY ONLY <1>1, <1>2, <1>3, ImuConstants DEF Imu!TypeOK, ImuIndexed
<1>5. CASE imu_state' = "HEADER1"
  BY <1>2, <1>4, <1>5, ImuRests
<1>6. CASE imu_state' # "HEADER1"
  <2>1. imu_index' = imu_index
    BY <1>1, <1>6
  <2>2. ImuTaken' = ImuTaken + 1 /\ ImuTaken # 1
    BY <1>1, <1>6, ImuConstants DEF ImuTaken
  <2> QED BY <1>1, <1>4, <1>6, <2>1, <2>2, ImuGoesOn
<1> QED BY <1>5, <1>6

LEMMA ImuTail ==
  ASSUME ImuInv, NEW ch \in Imu!Char, Imu!TailByte(ch) PROVE ImuInv'
<1>1. /\ imu_state = "TAIL" /\ heard' = Append(heard, ch) /\ buf_raw' = buf_raw
      /\ imu_state' = "HEADER1" /\ ck_sum' = 0 /\ imu_index' = 0
      /\ imu_fresh' \in BOOLEAN
      /\ imu_fresh' => ch = TailChar /\ imu040_sample' = ImuSample(buf_raw)
  BY DEF Imu!TailByte, Imu!PublishMsg, Imu!ParseCharReset
<1>2. /\ ImuTaken = 4 + NavLength /\ imu_index = NavLength
      /\ buf_raw \in [1 .. NavLength -> Imu!Char]
  BY <1>1 DEF ImuTaken, ImuInv, ImuIndexed, Imu!TypeOK
<1>3. /\ Len(heard) = ImuTaken /\ heard' \in Seq(Imu!Char) /\ Len(heard') = NavLength + 5
      /\ heard'[NavLength + 5] = ch /\ \A i \in 1 .. ImuTaken : heard'[i] = heard[i]
  <2>1. ImuTaken + 1 = NavLength + 5
    BY <1>2, ImuConstants
  <2> QED BY <1>1, <2>1, ImuKeeps
<1>4. Imu!TypeOK' /\ ImuIndexed'
  BY <1>1, <1>2, <1>3, ImuConstants DEF Imu!TypeOK, ImuIndexed
<1>5. /\ heard'[1] = HeadChar1 /\ heard'[2] = HeadChar2
      /\ \A k \in 1 .. NavLength : heard'[2 + k] = buf_raw[k]
  <2>1. /\ heard[1] = HeadChar1 /\ heard[2] = HeadChar2
        /\ \A k \in 1 .. NavLength : heard[2 + k] = buf_raw[k]
    BY <1>1, <1>2, <1>3, ImuConstants DEF ImuInv, ImuFollows
  <2>2. /\ 1 \in 1 .. ImuTaken /\ 2 \in 1 .. ImuTaken
        /\ \A k \in 1 .. NavLength : 2 + k \in 1 .. ImuTaken
    BY <1>2, ImuConstants
  <2> QED BY ONLY <2>1, <2>2, <1>3
<1>6. SubSeq(heard', 3, NavLength + 2) = buf_raw
  <2> DEFINE t == SubSeq(heard', 3, NavLength + 2)
  <2>1. /\ DOMAIN t = 1 .. NavLength
        /\ \A k \in 1 .. NavLength : t[k] = heard'[2 + k]
        /\ t = [k \in DOMAIN t |-> t[k]]
    BY <1>3, ImuConstants
  <2>2. \A k \in 1 .. NavLength : t[k] = buf_raw[k]
    BY <1>5, <2>1
  <2> HIDE DEF t
  <2>3. t = [k \in 1 .. NavLength |-> t[k]]
    BY <2>1
  <2> QED BY <2>2, <2>3, <1>2 DEF t
<1>7. ImuFollows'
  BY <1>1 DEF ImuFollows
<1>8. ImuPublished'
  <2>1. imu_fresh' => imu040_sample' = ImuSample(Imu!BufferOf(heard'))
    BY <1>1, <1>6 DEF Imu!BufferOf
  <2> QED BY <1>1, <1>3, <1>5, <2>1 DEF ImuPublished, Imu!FrameLength, Imu!BufferOf
<1> QED BY <1>4, <1>7, <1>8 DEF ImuInv

LEMMA ImuPreserved ==
  ASSUME ImuInv, NEW ch \in Imu!Char, Imu!ParseChar(ch) PROVE ImuInv'
BY ImuHeader1, ImuHeader2, ImuState, ImuPayload, ImuTrailer, ImuTail DEF Imu!ParseChar

LEMMA ImuUntouched == ASSUME ImuInv, UNCHANGED imu PROVE ImuInv'
<1>1. /\ imu_state' = imu_state /\ ck_sum' = ck_sum /\ imu_index' = imu_index
      /\ buf_raw' = buf_raw /\ imu040_sample' = imu040_sample
      /\ heard' = heard /\ imu_fresh' = imu_fresh
  BY DEF imu
<1>2. Imu!TypeOK' /\ ImuIndexed'
  BY <1>1 DEF ImuInv, Imu!TypeOK, ImuIndexed
<1>3. ImuFollows' /\ ImuPublished'
  <2>1. ImuTaken' = ImuTaken
    BY <1>1 DEF ImuTaken
  <2> QED BY <1>1, <2>1 DEF ImuInv, ImuFollows, ImuPublished
<1> QED BY <1>2, <1>3 DEF ImuInv

------------------------------------------------------------------------------
(* Reader and parsers together                                              *)

\* A step parses a byte with one parser, or with none.
LEMMA OneParser ==
  ASSUME [Next]_vars
  PROVE  \/ UNCHANGED parsers
         \/ (\E ch \in Gps!Char : Gps!ParseChar(ch)) /\ UNCHANGED imu
         \/ (\E ch \in Imu!Char : Imu!ParseChar(ch)) /\ UNCHANGED gps
<1>1. CASE UNCHANGED vars
  BY <1>1 DEF vars
<1>2. CASE Parse
  BY <1>2 DEF Parse
<1>3. CASE TestOpen \/ TestSet \/ Begin \/ SelectReady \/ SelectInterrupted
           \/ SelectTimeout \/ Read \/ Fail \/ Done
  BY <1>3 DEF TestOpen, TestSet, Begin, SelectReady, SelectInterrupted, SelectTimeout,
              Read, Fail, Done
<1> QED BY <1>1, <1>2, <1>3 DEF Next, Call

\* What holds of the reader and of both parsers, the sums left out.
SerialInv == ReaderInv /\ GpsInv /\ ImuInv

\* No byte disturbs it: a parser that has none stays as it is.
THEOREM SerialInvariant == Spec => []SerialInv
<1>1. Init => SerialInv
  BY ReaderInitially, GpsInitially, ImuInitially DEF Init, SerialInv
<1>2. SerialInv /\ [Next]_vars => SerialInv'
  <2> SUFFICES ASSUME SerialInv, [Next]_vars PROVE SerialInv'
    OBVIOUS
  <2>1. ReaderInv'
    BY ReaderPreserved DEF SerialInv
  <2>2. GpsInv' /\ ImuInv'
    <3>1. CASE UNCHANGED parsers
      <4>1. UNCHANGED gps /\ UNCHANGED imu
        BY <3>1 DEF parsers
      <4> QED BY <4>1, GpsUntouched, ImuUntouched DEF SerialInv
    <3>2. CASE (\E ch \in Gps!Char : Gps!ParseChar(ch)) /\ UNCHANGED imu
      BY <3>2, GpsPreserved, ImuUntouched DEF SerialInv
    <3>3. CASE (\E ch \in Imu!Char : Imu!ParseChar(ch)) /\ UNCHANGED gps
      BY <3>3, ImuPreserved, GpsUntouched DEF SerialInv
    <3> QED BY <3>1, <3>2, <3>3, OneParser
  <2> QED BY <2>1, <2>2 DEF SerialInv
<1> QED
  BY <1>1, <1>2, PTL DEF Spec

------------------------------------------------------------------------------
(* Frames of the GPS and their sums                                         *)

\* What the sums are the sums of: the bytes from the class on, as far as the end
\* of the payload.
GpsBody == SubSeq(kept, 3, Lesser(Len(kept), PvtLength + 6))

\* The running sums are those of the bytes that were kept, and the first of them
\* has been compared when the second is awaited.
GpsSummed ==
  /\ gps_state \in {"HEADER1", "HEADER2"} => ck_a = 0 /\ ck_b = 0
  /\ gps_state \notin {"HEADER1", "HEADER2"} =>
       ck_a = Gps!SumA(GpsBody) /\ ck_b = Gps!SumB(GpsBody)
  /\ gps_state = "CK_B" => kept[PvtLength + 7] = ck_a

GpsFramed == GpsSummed /\ Gps!PublishedIsFramed /\ Gps!FrameIsPublished

LEMMA GpsSumsAre ==
  \A s : /\ Gps!SumA(s) = Total(s) % GpsRange
         /\ Gps!SumB(s) = Total(Weighted(s)) % GpsRange
<1>1. \A s : Gps!Total(s) = Total(s) /\ Gps!Weighted(s) = Weighted(s)
  BY Zenon DEF Gps!Total, Total, Gps!Weighted, Weighted
<1> QED BY <1>1, Zenon DEF Gps!SumA, Gps!SumB

\* Nothing has been summed yet.
LEMMA GpsSumsOfNone == Gps!SumA(<<>>) = 0 /\ Gps!SumB(<<>>) = 0
<1>1. Weighted(<<>>) = <<>>
  BY DEF Weighted
<1>2. 0 % GpsRange = 0
  BY GpsConstants
<1> QED BY <1>1, <1>2, TotalEmpty, GpsSumsAre, Zenon

LEMMA GpsHeads ==
  ASSUME NEW s \in Seq(Gps!Char), Len(s) >= 1
  PROVE  Gps!IsPrefix(SubSeq(s, 1, Gps!Lesser(Len(s), 4)), GpsHead)
           <=> \A i \in 1 .. 4 : i <= Len(s) => s[i] = GpsHead[i]
<1> DEFINE m == Gps!Lesser(Len(s), 4)
           p == SubSeq(s, 1, m)
<1>1. Len(s) \in Nat /\ m \in 1 .. 4 /\ m <= Len(s) /\ (m = 4 \/ m = Len(s))
  <2>1. PICK n \in Nat : n = Len(s)
    OBVIOUS
  <2>2. m = IF n < 4 THEN n ELSE 4
    BY <2>1 DEF Gps!Lesser
  <2> HIDE DEF m
  <2>3. m \in 1 .. 4 /\ m <= n /\ (m = 4 \/ m = n)
    BY <2>1, <2>2
  <2> QED BY <2>1, <2>3
<1>2. GpsHead \in Seq(Gps!Char) /\ Len(GpsHead) = 4
  BY GpsConstants DEF GpsHead
<1> HIDE DEF m
<1>3. /\ p \in Seq(Gps!Char) /\ Len(p) = m /\ \A i \in 1 .. m : p[i] = s[i]
  BY <1>1
<1> HIDE DEF p
<1>4. SubSeq(p, 1, m) = p
  BY <1>1, <1>3
<1> DEFINE q == SubSeq(GpsHead, 1, m)
<1>5. /\ q \in Seq(Gps!Char) /\ Len(q) = m /\ \A i \in 1 .. m : q[i] = GpsHead[i]
  <2>1. m \in Nat /\ m <= Len(GpsHead)
    BY <1>1, <1>2
  <2> QED BY <1>2, <2>1, PartOfHead
<1> HIDE DEF q
<1>6. p = q <=> \A i \in 1 .. m : p[i] = q[i]
  BY <1>3, <1>5
<1>7. Gps!IsPrefix(p, GpsHead) <=> p = q
  BY <1>1, <1>2, <1>3, <1>4 DEF Gps!IsPrefix, q
<1>8. (\A i \in 1 .. m : p[i] = q[i])
        <=> (\A i \in 1 .. 4 : i <= Len(s) => s[i] = GpsHead[i])
  BY <1>1, <1>3, <1>5
<1> QED BY <1>6, <1>7, <1>8 DEF p, m

\* A byte that is summed goes on with the body.
LEMMA GpsSumsGoOn ==
  ASSUME GpsInv, GpsSummed, NEW ch \in Gps!Char, Gps!Checksum(ch), Gps!Keep(ch),
         gps_state \in {"CLASS", "ID", "LENGTH1", "LENGTH2", "PAYLOAD"}
  PROVE  ck_a' = Gps!SumA(GpsBody') /\ ck_b' = Gps!SumB(GpsBody')
<1>1. /\ Len(kept) = GpsTaken /\ GpsTaken \in Nat
      /\ kept' = Append(kept, ch) /\ Len(kept') = GpsTaken + 1
      /\ kept \in Seq(Gps!Char)
  BY GpsKeeps DEF Gps!Keep, GpsInv, Gps!TypeOK
<1>2. GpsTaken >= 2 /\ GpsTaken + 1 <= PvtLength + 6
  <2>1. gps_state = "PAYLOAD" => gps_index \in Nat /\ gps_index < PvtLength
    BY GpsConstants DEF GpsInv, GpsIndexed, Gps!TypeOK
  <2> QED BY <2>1, GpsConstants DEF GpsTaken
<1>3. GpsBody = SubSeq(kept, 3, Len(kept)) /\ GpsBody' = SubSeq(kept', 3, Len(kept) + 1)
  BY <1>1, <1>2, GpsConstants DEF GpsBody, Lesser
<1>4. GpsBody' = Append(GpsBody, ch)
  BY <1>1, <1>2, <1>3, PartGoesOn
<1>5. GpsBody \in Seq(Nat) /\ ch \in Nat
  <2>1. GpsBody \in Seq(Gps!Char)
    BY <1>1, <1>3, PartIsPart
  <2>2. Gps!Char \subseteq Nat
    BY GpsConstants DEF Gps!Char
  <2> QED BY ONLY <2>1, <2>2, SeqWider, ch \in Gps!Char
<1>6. ck_a = Total(GpsBody) % GpsRange /\ ck_b = Total(Weighted(GpsBody)) % GpsRange
  BY GpsSumsAre, Zenon DEF GpsSummed
<1>7. ck_a' = (ck_a + ch) % GpsRange /\ ck_b' = (ck_b + ck_a') % GpsRange
  BY DEF Gps!Checksum
<1>8. /\ ck_a' = Total(Append(GpsBody, ch)) % GpsRange
      /\ ck_b' = Total(Weighted(Append(GpsBody, ch))) % GpsRange
  <2>1. GpsRange \in Nat \ {0}
    BY GpsConstants
  <2> QED BY ONLY <2>1, <1>5, <1>6, <1>7, SumsGoOn
<1> QED BY <1>4, <1>8, GpsSumsAre, Zenon

\* The parser goes on and publishes nothing.
LEMMA GpsFramedOn ==
  ASSUME GpsSummed', gps_fresh' = FALSE, gps_state' # "HEADER1" PROVE GpsFramed'
BY DEF GpsFramed, Gps!PublishedIsFramed, Gps!FrameIsPublished

\* The parser gives up what cannot become a frame.
LEMMA GpsFramedRests ==
  ASSUME gps_state' = "HEADER1", ck_a' = 0, ck_b' = 0, gps_fresh' = FALSE,
         ~ Gps!Begins(kept')
  PROVE  GpsFramed'
BY DEF GpsFramed, GpsSummed, Gps!PublishedIsFramed, Gps!FrameIsPublished

LEMMA GpsFramedHeader1 ==
  ASSUME GpsFramed, NEW ch \in Gps!Char, Gps!Header1(ch) PROVE GpsFramed'
<1>1. /\ gps_fresh' = FALSE /\ ck_a' = 0 /\ ck_b' = 0
      /\ ch = SyncChar1 => gps_state' = "HEADER2"
      /\ ch # SyncChar1 => gps_state' = "HEADER1" /\ kept' = <<>>
  BY DEF Gps!Header1, Gps!sums, GpsFramed, GpsSummed
<1>2. CASE ch = SyncChar1
  BY <1>1, <1>2, GpsFramedOn DEF GpsSummed
<1>3. CASE ch # SyncChar1
  <2>1. Len(kept') = 0
    BY <1>1, <1>3
  <2>2. ~ Gps!Begins(kept')
    BY <2>1 DEF Gps!Begins
  <2> QED BY <1>1, <1>3, <2>2, GpsFramedRests
<1> QED BY <1>2, <1>3

LEMMA GpsFramedHeader2 ==
  ASSUME GpsInv, GpsFramed, NEW ch \in Gps!Char, Gps!Header2(ch) PROVE GpsFramed'
<1>1. /\ gps_state = "HEADER2" /\ Gps!Keep(ch) /\ gps_fresh' = FALSE
      /\ ck_a' = 0 /\ ck_b' = 0
      /\ gps_state' = IF ch = SyncChar2 THEN "CLASS" ELSE "HEADER1"
  BY DEF Gps!Header2, Gps!Keep, Gps!sums, GpsFramed, GpsSummed
<1>2. kept' \in Seq(Gps!Char) /\ Len(kept') = 2 /\ kept'[2] = ch
  <2>1. GpsTaken = 1
    BY <1>1 DEF GpsTaken
  <2> QED BY <1>1, <2>1, GpsKeeps DEF Gps!Keep
<1>3. CASE ch = SyncChar2
  <2>1. Lesser(Len(kept'), PvtLength + 6) = 2
    BY <1>2, GpsConstants DEF Lesser
  <2>2. GpsBody' = <<>>
    BY <1>2, <2>1 DEF GpsBody
  <2>3. GpsSummed'
    BY <1>1, <1>3, <2>2, GpsSumsOfNone DEF GpsSummed
  <2> QED BY <1>1, <1>3, <2>3, GpsFramedOn
<1>4. CASE ch # SyncChar2
  <2>1. GpsHead[2] = SyncChar2 /\ 2 \in 1 .. 4 /\ 2 <= Len(kept') /\ Len(kept') >= 1
    BY <1>2 DEF GpsHead
  <2>2. ~ (\A i \in 1 .. 4 : i <= Len(kept') => kept'[i] = GpsHead[i])
    BY <1>2, <1>4, <2>1
  <2>3. ~ Gps!IsPrefix(SubSeq(kept', 1, Gps!Lesser(Len(kept'), 4)), GpsHead)
    BY <1>2, <2>1, <2>2, GpsHeads
  <2>4. ~ Gps!Begins(kept')
    BY <2>3, Zenon DEF Gps!Begins, GpsHead
  <2> QED BY <1>1, <1>4, <2>4, GpsFramedRests
<1> QED BY <1>3, <1>4

LEMMA GpsFramedPassOver ==
  ASSUME GpsFramed, NEW ch \in Gps!Char, Gps!PassOver(ch) PROVE GpsFramed'
<1>1. /\ gps_state \in {"CLASS", "ID"} /\ gps_state' = gps_state
      /\ ck_a' = ck_a /\ ck_b' = ck_b /\ kept' = kept /\ gps_fresh' = FALSE
  BY DEF Gps!PassOver, Gps!parser, Gps!sums
<1>2. GpsBody' = GpsBody
  BY <1>1 DEF GpsBody
<1>3. GpsSummed'
  BY <1>1, <1>2 DEF GpsFramed, GpsSummed
<1> QED BY <1>1, <1>3, GpsFramedOn

\* The bytes that are summed.
LEMMA GpsFramedSummed ==
  ASSUME GpsInv, GpsFramed, NEW ch \in Gps!Char,
         \/ Gps!Class(ch) \/ Gps!Id(ch) \/ Gps!Length1(ch) \/ Gps!Payload(ch)
         \/ (Gps!Length2(ch) /\ payload_length + ch * GpsRange = PvtLength)
  PROVE  GpsFramed'
<1>1. /\ Gps!Checksum(ch) /\ Gps!Keep(ch)
      /\ gps_state \in {"CLASS", "ID", "LENGTH1", "LENGTH2", "PAYLOAD"}
      /\ gps_state' \in {"ID", "LENGTH1", "LENGTH2", "PAYLOAD", "CK_A"}
  BY DEF Gps!Class, Gps!Id, Gps!Length1, Gps!Payload, Gps!Length2
<1>2. ck_a' = Gps!SumA(GpsBody') /\ ck_b' = Gps!SumB(GpsBody')
  BY <1>1, GpsSumsGoOn DEF GpsFramed
<1>3. GpsSummed'
  BY <1>1, <1>2 DEF GpsSummed
<1>4. gps_fresh' = FALSE
  BY <1>1 DEF Gps!Keep
<1> QED BY <1>1, <1>3, <1>4, GpsFramedOn

LEMMA GpsFramedLength2 ==
  ASSUME GpsInv, GpsFramed, NEW ch \in Gps!Char, Gps!Length2(ch) PROVE GpsFramed'
<1>1. CASE payload_length + ch * GpsRange = PvtLength
  BY <1>1, GpsFramedSummed
<1>2. CASE payload_length + ch * GpsRange # PvtLength
  <2>1. /\ gps_state = "LENGTH2" /\ gps_state' = "HEADER1" /\ Gps!Keep(ch)
        /\ ck_a' = 0 /\ ck_b' = 0 /\ gps_fresh' = FALSE
    BY <1>2 DEF Gps!Length2, Gps!ParseCharReset, Gps!Keep
  <2>2. GpsTaken = 5
    BY <2>1 DEF GpsTaken
  <2>3. /\ Len(kept') = 6 /\ kept'[6] = ch /\ kept'[5] = kept[5] /\ Len(kept) = 5
    BY <2>1, <2>2, GpsKeeps DEF Gps!Keep
  <2>4. kept[5] = payload_length
    BY <2>1, <2>3 DEF GpsInv, GpsFollows
  <2>5. GpsRange * ch = ch * GpsRange
    BY GpsConstants DEF Gps!Char
  <2>6. ~ Gps!Begins(kept')
    BY <1>2, <2>3, <2>4, <2>5 DEF Gps!Begins
  <2> QED BY <2>1, <2>6, GpsFramedRests
<1> QED BY <1>1, <1>2

\* With the whole payload kept, a byte more changes nothing of the body.
LEMMA GpsBodyStays ==
  ASSUME GpsInv, gps_state \in {"CK_A", "CK_B"}, NEW ch \in Gps!Char,
         kept' = Append(kept, ch)
  PROVE  Gps!Summed(kept') = GpsBody /\ GpsBody' = GpsBody
<1>1. kept \in Seq(Gps!Char) /\ Len(kept) >= PvtLength + 6 /\ Len(kept) \in Nat
      /\ Len(kept') = Len(kept) + 1
  <2>1. GpsTaken \in {6 + PvtLength, 7 + PvtLength}
    BY DEF GpsInv, GpsIndexed, GpsTaken
  <2> QED BY <2>1, GpsKeeps, GpsConstants DEF GpsInv, Gps!TypeOK
<1>2. /\ Lesser(Len(kept), PvtLength + 6) = PvtLength + 6
      /\ Lesser(Len(kept'), PvtLength + 6) = PvtLength + 6
  BY <1>1, GpsConstants DEF Lesser
<1>3. SubSeq(kept', 3, PvtLength + 6) = SubSeq(kept, 3, PvtLength + 6)
  <2>1. PvtLength + 6 \in Nat
    BY GpsConstants
  <2> QED BY <1>1, <2>1, PartStays
<1> QED BY <1>2, <1>3, Zenon DEF GpsBody, Gps!Summed

LEMMA GpsFramedCkA ==
  ASSUME GpsInv, GpsFramed, NEW ch \in Gps!Char, Gps!CkA(ch) PROVE GpsFramed'
<1>1. gps_state = "CK_A" /\ Gps!Keep(ch) /\ gps_fresh' = FALSE
      /\ kept' = Append(kept, ch)
  BY DEF Gps!CkA, Gps!Keep
<1>2. GpsTaken = 6 + PvtLength
  BY <1>1 DEF GpsTaken, GpsInv, GpsIndexed
<1>3. Len(kept') = PvtLength + 7 /\ kept'[PvtLength + 7] = ch
  <2>1. GpsTaken + 1 = PvtLength + 7
    BY <1>2, GpsConstants
  <2> QED BY <1>1, <2>1, GpsKeeps
<1>4. ck_a = Gps!SumA(GpsBody) /\ ck_b = Gps!SumB(GpsBody)
  BY <1>1 DEF GpsFramed, GpsSummed
<1>5. Gps!Summed(kept') = GpsBody /\ GpsBody' = GpsBody
  BY <1>1, GpsBodyStays
<1>6. CASE ck_a = ch
  <2>1. gps_state' = "CK_B" /\ ck_a' = ck_a /\ ck_b' = ck_b
    BY <1>6 DEF Gps!CkA, Gps!sums
  <2>2. GpsSummed'
    BY <1>3, <1>4, <1>5, <1>6, <2>1 DEF GpsSummed
  <2> QED BY <1>1, <2>1, <2>2, GpsFramedOn
<1>7. CASE ck_a # ch
  <2>1. gps_state' = "HEADER1" /\ ck_a' = 0 /\ ck_b' = 0
    BY <1>7 DEF Gps!CkA, Gps!ParseCharReset
  <2>2. Gps!FrameLength - 1 = PvtLength + 7 /\ PvtLength + 7 >= PvtLength + 7
    BY GpsConstants DEF Gps!FrameLength
  <2>3. ~ Gps!Begins(kept')
    BY <1>3, <1>4, <1>5, <1>7, <2>2 DEF Gps!Begins
  <2> QED BY <1>1, <2>1, <2>3, GpsFramedRests
<1> QED BY <1>6, <1>7

\* At the last byte everything but the second sum has been seen to.
LEMMA GpsFramedCkB ==
  ASSUME GpsInv, GpsInv', GpsFramed, NEW ch \in Gps!Char, Gps!CkB(ch) PROVE GpsFramed'
<1>1. /\ gps_state = "CK_B" /\ kept' = Append(kept, ch)
      /\ gps_state' = "HEADER1" /\ ck_a' = 0 /\ ck_b' = 0
      /\ gps_fresh' <=> ck_b = ch
  BY DEF Gps!CkB, Gps!PublishGpsMsg, Gps!ParseCharReset
<1>2. GpsTaken = 7 + PvtLength /\ gps_index = PvtLength
  BY <1>1 DEF GpsTaken, GpsInv, GpsIndexed
<1>3. /\ Len(kept') = PvtLength + 8 /\ kept'[PvtLength + 8] = ch
      /\ kept' \in Seq(Gps!Char) /\ \A i \in 1 .. PvtLength + 7 : kept'[i] = kept[i]
      /\ Len(kept) = PvtLength + 7
  <2>1. GpsTaken + 1 = PvtLength + 8 /\ GpsTaken = PvtLength + 7
    BY <1>2, GpsConstants
  <2> QED BY <1>1, <2>1, GpsKeeps
<1>4. /\ ck_a = Gps!SumA(GpsBody) /\ ck_b = Gps!SumB(GpsBody)
      /\ kept[PvtLength + 7] = ck_a
  BY <1>1 DEF GpsFramed, GpsSummed
<1>5. Gps!Summed(kept') = GpsBody
  BY <1>1, GpsBodyStays
<1>6. /\ Gps!FrameLength = PvtLength + 8 /\ Gps!FrameLength - 1 = PvtLength + 7
      /\ PvtLength + 8 \in 1 .. PvtLength + 8 /\ PvtLength + 7 \in 1 .. PvtLength + 7
  BY GpsConstants DEF Gps!FrameLength
<1>7. kept'[PvtLength + 7] = Gps!SumA(Gps!Summed(kept'))
  BY <1>3, <1>4, <1>5, <1>6
<1>8. /\ \A i \in 1 .. 4 : kept'[i] = GpsHead[i]
      /\ kept'[5] + GpsRange * kept'[6] = PvtLength
  <2>1. /\ \A i \in 1 .. 4 : i <= Len(kept) => kept[i] = GpsHead[i]
        /\ kept[5] + kept[6] * GpsRange = PvtLength
    BY <1>1, <1>3, GpsConstants DEF GpsInv, GpsFollows
  <2>2. /\ \A i \in 1 .. 4 : i \in 1 .. PvtLength + 7 /\ i <= Len(kept)
        /\ 5 \in 1 .. PvtLength + 7 /\ 6 \in 1 .. PvtLength + 7
    BY <1>3, GpsConstants
  <2>3. kept'[5] = kept[5] /\ kept'[6] = kept[6] /\ \A i \in 1 .. 4 : kept'[i] = GpsHead[i]
    BY ONLY <1>3, <2>1, <2>2
  <2>4. 6 \in 1 .. Len(kept')
    BY <1>3, GpsConstants
  <2>5. kept'[6] \in Gps!Char
    BY ONLY <1>3, <2>4
  <2>6. GpsRange * kept'[6] = kept'[6] * GpsRange
    BY <2>5, GpsConstants DEF Gps!Char
  <2> QED BY <2>1, <2>3, <2>6
<1>9. Gps!IsPrefix(SubSeq(kept', 1, Gps!Lesser(Len(kept'), 4)), GpsHead)
  <2>1. Len(kept') >= 1
    BY <1>3, GpsConstants
  <2> QED BY <1>3, <1>8, <2>1, GpsHeads
<1>10. Gps!Begins(kept') <=> ch = ck_b
  <2>1. Gps!Begins(kept') <=> kept'[PvtLength + 8] = Gps!SumB(Gps!Summed(kept'))
    BY ONLY <1>3, <1>6, <1>7, <1>8, <1>9 DEF Gps!Begins, GpsHead
  <2> QED BY <1>3, <1>4, <1>5, <2>1
<1>11. Gps!PublishedIsFramed'
  <2>1. gps_fresh' => gps_sample_new' = GpsSample(Gps!PayloadOf(kept'))
    BY DEF GpsInv, GpsPublished, Gps!PayloadOf
  <2>2. gps_fresh' => Gps!IsFrame(kept')
    BY <1>1, <1>3, <1>6, <1>10 DEF Gps!IsFrame
  <2> QED BY <2>1, <2>2 DEF Gps!PublishedIsFramed, Gps!IsFrame, Gps!Begins, Gps!PayloadOf
<1>12. Gps!FrameIsPublished'
  BY <1>1, <1>10 DEF Gps!FrameIsPublished, Gps!Begins
<1>13. GpsSummed'
  BY <1>1 DEF GpsSummed
<1> QED BY <1>11, <1>12, <1>13 DEF GpsFramed

LEMMA GpsFramedPreserved ==
  ASSUME GpsInv, GpsInv', GpsFramed, NEW ch \in Gps!Char, Gps!ParseChar(ch)
  PROVE  GpsFramed'
<1>1. CASE Gps!Header1(ch)
  BY <1>1, GpsFramedHeader1
<1>2. CASE Gps!Header2(ch)
  BY <1>2, GpsFramedHeader2
<1>3. CASE Gps!PassOver(ch)
  BY <1>3, GpsFramedPassOver
<1>4. CASE Gps!Class(ch) \/ Gps!Id(ch) \/ Gps!Length1(ch) \/ Gps!Payload(ch)
  BY <1>4, GpsFramedSummed
<1>5. CASE Gps!Length2(ch)
  BY <1>5, GpsFramedLength2
<1>6. CASE Gps!CkA(ch)
  BY <1>6, GpsFramedCkA
<1>7. CASE Gps!CkB(ch)
  BY <1>7, GpsFramedCkB
<1> QED BY <1>1, <1>2, <1>3, <1>4, <1>5, <1>6, <1>7 DEF Gps!ParseChar

LEMMA GpsFramedUntouched == ASSUME GpsFramed, UNCHANGED gps PROVE GpsFramed'
<1>1. /\ gps_state' = gps_state /\ ck_a' = ck_a /\ ck_b' = ck_b
      /\ gps_sample_new' = gps_sample_new /\ kept' = kept /\ gps_fresh' = gps_fresh
  BY DEF gps
<1>2. GpsSummed'
  BY <1>1 DEF GpsFramed, GpsSummed, GpsBody
<1>3. Gps!PublishedIsFramed' /\ Gps!FrameIsPublished'
  BY <1>1 DEF GpsFramed, Gps!PublishedIsFramed, Gps!FrameIsPublished, Gps!IsFrame,
              Gps!Begins
<1> QED BY <1>2, <1>3 DEF GpsFramed

LEMMA GpsFramedInitially == Gps!Init => GpsFramed
<1> SUFFICES ASSUME Gps!Init PROVE GpsFramed
  OBVIOUS
<1>1. gps_state = "HEADER1" /\ ck_a = 0 /\ ck_b = 0 /\ kept = <<>> /\ gps_fresh = FALSE
  BY DEF Gps!Init
<1>2. ~ Gps!Begins(kept)
  <2>1. Len(kept) = 0
    BY <1>1
  <2> QED BY <2>1 DEF Gps!Begins
<1> QED BY <1>1, <1>2 DEF GpsFramed, GpsSummed, Gps!PublishedIsFramed, Gps!FrameIsPublished

------------------------------------------------------------------------------
(* Frames of the inertial unit and their sum                                *)

\* The state byte is stored but not summed.
ImuBody == SubSeq(heard, 4, Lesser(Len(heard), NavLength + 2))

ImuSummed ==
  /\ imu_state \in {"HEADER1", "HEADER2", "STATE"} => ck_sum = 0
  /\ imu_state \notin {"HEADER1", "HEADER2", "STATE"} =>
       ck_sum = Total(ImuBody) % ImuRange
  /\ imu_state = "TAIL" => heard[NavLength + 4] = ck_sum

ImuFramed == ImuSummed /\ Imu!PublishedIsFramed /\ Imu!FrameIsPublished

LEMMA ImuSumIs == \A s : Imu!Sum(s) = Total(SubSeq(s, 4, NavLength + 2)) % ImuRange
<1>1. \A s : Imu!Total(s) = Total(s)
  BY Zenon DEF Imu!Total, Total
<1> QED BY <1>1, Zenon DEF Imu!Sum

LEMMA ImuFramedOn ==
  ASSUME ImuSummed', imu_fresh' = FALSE, imu_state' # "HEADER1" PROVE ImuFramed'
BY DEF ImuFramed, Imu!PublishedIsFramed, Imu!FrameIsPublished

LEMMA ImuFramedRests ==
  ASSUME imu_state' = "HEADER1", ck_sum' = 0, imu_fresh' = FALSE, ~ Imu!Begins(heard')
  PROVE  ImuFramed'
BY DEF ImuFramed, ImuSummed, Imu!PublishedIsFramed, Imu!FrameIsPublished

LEMMA ImuFramedHeader ==
  ASSUME ImuInv, ImuFramed, NEW ch \in Imu!Char, Imu!Header1(ch) \/ Imu!Header2(ch)
  PROVE  ImuFramed'
<1>1. CASE Imu!Header1(ch)
  <2>1. /\ imu_fresh' = FALSE /\ ck_sum' = 0
        /\ ch = HeadChar1 => imu_state' = "HEADER2"
        /\ ch # HeadChar1 => imu_state' = "HEADER1" /\ heard' = <<>>
    BY <1>1 DEF Imu!Header1, ImuFramed, ImuSummed
  <2>2. CASE ch = HeadChar1
    BY <2>1, <2>2, ImuFramedOn DEF ImuSummed
  <2>3. CASE ch # HeadChar1
    <3>1. Len(heard') = 0
      BY <2>1, <2>3
    <3>2. ~ Imu!Begins(heard')
      BY <3>1 DEF Imu!Begins
    <3> QED BY <2>1, <2>3, <3>2, ImuFramedRests
  <2> QED BY <2>2, <2>3
<1>2. CASE Imu!Header2(ch)
  <2>1. /\ imu_state = "HEADER2" /\ Imu!Hear(ch) /\ imu_fresh' = FALSE /\ ck_sum' = 0
        /\ imu_state' = IF ch = HeadChar2 THEN "STATE" ELSE "HEADER1"
    BY <1>2 DEF Imu!Header2, Imu!Hear, Imu!ParseCharReset, ImuFramed, ImuSummed
  <2>2. Len(heard') = 2 /\ heard'[2] = ch
    <3>1. ImuTaken = 1
      BY <2>1 DEF ImuTaken
    <3> QED BY <2>1, <3>1, ImuKeeps DEF Imu!Hear
  <2>3. CASE ch = HeadChar2
    BY <2>1, <2>3, ImuFramedOn DEF ImuSummed
  <2>4. CASE ch # HeadChar2
    <3>1. ~ Imu!Begins(heard')
      BY <2>2, <2>4 DEF Imu!Begins
    <3> QED BY <2>1, <2>4, <3>1, ImuFramedRests
  <2> QED BY <2>3, <2>4
<1> QED BY <1>1, <1>2

LEMMA ImuFramedState ==
  ASSUME ImuInv, ImuFramed, NEW ch \in Imu!Char, Imu!State(ch) PROVE ImuFramed'
<1>1. /\ imu_state = "STATE" /\ imu_state' = "PAYLOAD" /\ Imu!Hear(ch)
      /\ imu_fresh' = FALSE /\ ck_sum' = 0
  BY DEF Imu!State, Imu!Hear, ImuFramed, ImuSummed
<1>2. Len(heard') = 3 /\ heard' \in Seq(Imu!Char)
  <2>1. ImuTaken = 2
    BY <1>1 DEF ImuTaken
  <2> QED BY <1>1, <2>1, ImuKeeps DEF Imu!Hear
<1>3. Lesser(Len(heard'), NavLength + 2) = 3
  BY <1>2, ImuConstants DEF Lesser
<1>4. ImuBody' = <<>>
  BY <1>2, <1>3 DEF ImuBody
<1>5. Total(ImuBody') % ImuRange = 0
  <2>1. 0 % ImuRange = 0
    BY ImuConstants
  <2> QED BY <1>4, <2>1, TotalEmpty, Zenon
<1>6. ImuSummed'
  BY <1>1, <1>5 DEF ImuSummed
<1> QED BY <1>1, <1>6, ImuFramedOn

LEMMA ImuFramedPayload ==
  ASSUME ImuInv, ImuFramed, NEW ch \in Imu!Char, Imu!Payload(ch) PROVE ImuFramed'
<1>1. /\ imu_state = "PAYLOAD" /\ imu_state' \in {"PAYLOAD", "IDX"}
      /\ Imu!Hear(ch) /\ imu_fresh' = FALSE /\ ck_sum' = (ck_sum + ch) % ImuRange
  BY DEF Imu!Payload, Imu!Hear, Imu!Checksum
<1>2. /\ Len(heard) = ImuTaken /\ ImuTaken \in Nat
      /\ heard' = Append(heard, ch) /\ Len(heard') = ImuTaken + 1
      /\ heard \in Seq(Imu!Char)
  BY <1>1, ImuKeeps DEF Imu!Hear, ImuInv, Imu!TypeOK
<1>3. ImuTaken >= 3 /\ ImuTaken + 1 <= NavLength + 2
  <2>1. imu_index \in 0 .. NavLength /\ imu_index >= 1 /\ imu_index < NavLength
    BY <1>1 DEF ImuInv, ImuIndexed, Imu!TypeOK
  <2>2. ImuTaken = 2 + imu_index
    BY <1>1 DEF ImuTaken
  <2> QED BY <2>1, <2>2, ImuConstants
<1>4. ImuBody = SubSeq(heard, 4, Len(heard)) /\ ImuBody' = SubSeq(heard', 4, Len(heard) + 1)
  BY <1>2, <1>3, ImuConstants DEF ImuBody, Lesser
<1>5. ImuBody' = Append(ImuBody, ch)
  BY <1>2, <1>3, <1>4, PartGoesOn
<1>6. ImuBody \in Seq(Nat) /\ ch \in Nat
  <2>1. ImuBody \in Seq(Imu!Char)
    BY <1>2, <1>4, PartIsPart
  <2>2. Imu!Char \subseteq Nat
    BY ImuConstants DEF Imu!Char
  <2> QED BY ONLY <2>1, <2>2, SeqWider, ch \in Imu!Char
<1>7. ck_sum = Total(ImuBody) % ImuRange
  BY <1>1 DEF ImuFramed, ImuSummed
<1>8. ck_sum' = Total(Append(ImuBody, ch)) % ImuRange
  <2>1. ImuRange \in Nat \ {0}
    BY ImuConstants
  <2>2. /\ Total(ImuBody) \in Nat
        /\ Total(Append(ImuBody, ch)) = Total(ImuBody) + ch
    BY <1>6, TotalAppend
  <2>3. (ck_sum + ch) % ImuRange = (Total(ImuBody) + ch) % ImuRange
    BY ONLY <1>6, <1>7, <2>1, <2>2, RemainderOfSum
  <2> QED BY <1>1, <2>2, <2>3, Zenon
<1>9. ImuSummed'
  BY <1>1, <1>5, <1>8 DEF ImuSummed
<1> QED BY <1>1, <1>9, ImuFramedOn

\* With the whole payload heard, a byte more changes nothing of the body.
LEMMA ImuBodyStays ==
  ASSUME ImuInv, imu_state \in {"IDX", "CHECK_SUM", "TAIL"}, NEW ch \in Imu!Char,
         heard' = Append(heard, ch)
  PROVE  SubSeq(heard', 4, NavLength + 2) = ImuBody /\ ImuBody' = ImuBody
<1>1. heard \in Seq(Imu!Char) /\ Len(heard) >= NavLength + 2 /\ Len(heard) \in Nat
      /\ Len(heard') = Len(heard) + 1
  <2>1. ImuTaken \in {2 + NavLength, 3 + NavLength, 4 + NavLength}
    BY DEF ImuInv, ImuIndexed, ImuTaken
  <2> QED BY <2>1, ImuKeeps, ImuConstants DEF ImuInv, Imu!TypeOK
<1>2. /\ Lesser(Len(heard), NavLength + 2) = NavLength + 2
      /\ Lesser(Len(heard'), NavLength + 2) = NavLength + 2
  BY <1>1, ImuConstants DEF Lesser
<1>3. SubSeq(heard', 4, NavLength + 2) = SubSeq(heard, 4, NavLength + 2)
  <2>1. NavLength + 2 \in Nat
    BY ImuConstants
  <2> QED BY <1>1, <2>1, PartStays
<1> QED BY <1>2, <1>3, Zenon DEF ImuBody

LEMMA ImuFramedTrailer ==
  ASSUME ImuInv, ImuFramed, NEW ch \in Imu!Char, Imu!Idx(ch) \/ Imu!CheckSum(ch)
  PROVE  ImuFramed'
<1>1. /\ imu_state \in {"IDX", "CHECK_SUM"} /\ Imu!Hear(ch) /\ imu_fresh' = FALSE
      /\ heard' = Append(heard, ch)
      /\ \/ imu_state = "IDX" /\ imu_state' = "CHECK_SUM" /\ ck_sum' = ck_sum
         \/ imu_state = "CHECK_SUM" /\ ch = ck_sum
              /\ imu_state' = "TAIL" /\ ck_sum' = ck_sum
         \/ imu_state = "CHECK_SUM" /\ ch # ck_sum
              /\ imu_state' = "HEADER1" /\ ck_sum' = 0
  BY DEF Imu!Idx, Imu!CheckSum, Imu!ParseCharReset, Imu!Hear
<1>2. SubSeq(heard', 4, NavLength + 2) = ImuBody /\ ImuBody' = ImuBody
  BY <1>1, ImuBodyStays
<1>3. ck_sum = Total(ImuBody) % ImuRange
  BY <1>1 DEF ImuFramed, ImuSummed
<1>4. imu_state = "CHECK_SUM" => Len(heard') = NavLength + 4 /\ heard'[NavLength + 4] = ch
  <2> SUFFICES ASSUME imu_state = "CHECK_SUM"
               PROVE  Len(heard') = NavLength + 4 /\ heard'[NavLength + 4] = ch
    OBVIOUS
  <2>1. ImuTaken = 3 + NavLength
    BY DEF ImuTaken, ImuInv, ImuIndexed
  <2>2. ImuTaken + 1 = NavLength + 4
    BY <2>1, ImuConstants
  <2> QED BY <1>1, <2>2, ImuKeeps
<1>5. CASE imu_state' # "HEADER1"
  <2>1. ImuSummed'
    BY <1>1, <1>2, <1>3, <1>4, <1>5 DEF ImuSummed
  <2> QED BY <1>1, <1>5, <2>1, ImuFramedOn
<1>6. CASE imu_state' = "HEADER1"
  <2>1. Imu!Sum(heard') = ck_sum
    BY <1>2, <1>3, ImuSumIs
  <2>2. ~ Imu!Begins(heard')
    BY <1>1, <1>4, <1>6, <2>1, ImuConstants DEF Imu!Begins
  <2> QED BY <1>1, <1>6, <2>2, ImuFramedRests
<1> QED BY <1>5, <1>6

LEMMA ImuFramedTail ==
  ASSUME ImuInv, ImuInv', ImuFramed, NEW ch \in Imu!Char, Imu!TailByte(ch)
  PROVE  ImuFramed'
<1>1. /\ imu_state = "TAIL" /\ heard' = Append(heard, ch)
      /\ imu_state' = "HEADER1" /\ ck_sum' = 0
      /\ imu_fresh' <=> ch = TailChar
  BY DEF Imu!TailByte, Imu!PublishMsg, Imu!ParseCharReset
<1>2. /\ Len(heard') = NavLength + 5 /\ heard'[NavLength + 5] = ch
      /\ \A i \in 1 .. NavLength + 4 : heard'[i] = heard[i]
      /\ Len(heard) = NavLength + 4
  <2>1. ImuTaken = 4 + NavLength
    BY <1>1 DEF ImuTaken, ImuInv, ImuIndexed
  <2>2. ImuTaken + 1 = NavLength + 5 /\ ImuTaken = NavLength + 4
    BY <2>1, ImuConstants
  <2> QED BY <1>1, <2>2, ImuKeeps
<1>3. /\ ck_sum = Total(ImuBody) % ImuRange /\ heard[NavLength + 4] = ck_sum
      /\ SubSeq(heard', 4, NavLength + 2) = ImuBody
  BY <1>1, ImuBodyStays DEF ImuFramed, ImuSummed
<1>4. /\ Imu!FrameLength = NavLength + 5 /\ NavLength + 5 \in 1 .. NavLength + 5
      /\ NavLength + 4 \in 1 .. NavLength + 4
      /\ 1 \in 1 .. NavLength + 4 /\ 2 \in 1 .. NavLength + 4
  BY ImuConstants DEF Imu!FrameLength
<1>5. heard'[NavLength + 4] = Imu!Sum(heard')
  BY <1>2, <1>3, <1>4, ImuSumIs
<1>6. heard'[1] = HeadChar1 /\ heard'[2] = HeadChar2
  <2>1. heard[1] = HeadChar1 /\ heard[2] = HeadChar2
    BY <1>1, <1>2, ImuConstants DEF ImuInv, ImuFollows
  <2> QED BY ONLY <1>2, <1>4, <2>1
<1>7. Imu!Begins(heard') <=> ch = TailChar
  BY ONLY <1>2, <1>4, <1>5, <1>6 DEF Imu!Begins
<1>8. Imu!PublishedIsFramed'
  <2>1. imu_fresh' => imu040_sample' = ImuSample(Imu!BufferOf(heard'))
    BY DEF ImuInv, ImuPublished, Imu!BufferOf
  <2>2. imu_fresh' => Imu!IsFrame(heard')
    BY <1>1, <1>2, <1>4, <1>7 DEF Imu!IsFrame
  <2> QED BY <2>1, <2>2 DEF Imu!PublishedIsFramed, Imu!IsFrame, Imu!Begins, Imu!BufferOf
<1>9. Imu!FrameIsPublished'
  BY <1>1, <1>7 DEF Imu!FrameIsPublished, Imu!Begins
<1>10. ImuSummed'
  BY <1>1 DEF ImuSummed
<1> QED BY <1>8, <1>9, <1>10 DEF ImuFramed

LEMMA ImuFramedPreserved ==
  ASSUME ImuInv, ImuInv', ImuFramed, NEW ch \in Imu!Char, Imu!ParseChar(ch)
  PROVE  ImuFramed'
<1>1. CASE Imu!Header1(ch) \/ Imu!Header2(ch)
  BY <1>1, ImuFramedHeader
<1>2. CASE Imu!State(ch)
  BY <1>2, ImuFramedState
<1>3. CASE Imu!Payload(ch)
  BY <1>3, ImuFramedPayload
<1>4. CASE Imu!Idx(ch) \/ Imu!CheckSum(ch)
  BY <1>4, ImuFramedTrailer
<1>5. CASE Imu!TailByte(ch)
  BY <1>5, ImuFramedTail
<1> QED BY <1>1, <1>2, <1>3, <1>4, <1>5 DEF Imu!ParseChar

LEMMA ImuFramedUntouched == ASSUME ImuFramed, UNCHANGED imu PROVE ImuFramed'
<1>1. /\ imu_state' = imu_state /\ ck_sum' = ck_sum /\ imu040_sample' = imu040_sample
      /\ heard' = heard /\ imu_fresh' = imu_fresh
  BY DEF imu
<1>2. ImuSummed'
  BY <1>1 DEF ImuFramed, ImuSummed, ImuBody
<1>3. Imu!PublishedIsFramed' /\ Imu!FrameIsPublished'
  BY <1>1 DEF ImuFramed, Imu!PublishedIsFramed, Imu!FrameIsPublished, Imu!IsFrame,
              Imu!Begins
<1> QED BY <1>2, <1>3 DEF ImuFramed

LEMMA ImuFramedInitially == Imu!Init => ImuFramed
<1> SUFFICES ASSUME Imu!Init PROVE ImuFramed
  OBVIOUS
<1>1. imu_state = "HEADER1" /\ ck_sum = 0 /\ heard = <<>> /\ imu_fresh = FALSE
  BY DEF Imu!Init
<1>2. ~ Imu!Begins(heard)
  <2>1. Len(heard) = 0
    BY <1>1
  <2> QED BY <2>1 DEF Imu!Begins
<1> QED BY <1>1, <1>2 DEF ImuFramed, ImuSummed, Imu!PublishedIsFramed, Imu!FrameIsPublished

------------------------------------------------------------------------------
(* What is published, and what is not given up                              *)

\* With the sums: the bytes that moved a parser on account for its running sums.
THEOREM FramedInvariant == Spec => [](GpsFramed /\ ImuFramed)
<1>1. Init => GpsFramed /\ ImuFramed
  BY GpsFramedInitially, ImuFramedInitially DEF Init
<1>2. SerialInv /\ SerialInv' /\ GpsFramed /\ ImuFramed /\ [Next]_vars
        => GpsFramed' /\ ImuFramed'
  <2> SUFFICES ASSUME SerialInv, SerialInv', GpsFramed, ImuFramed, [Next]_vars
               PROVE  GpsFramed' /\ ImuFramed'
    OBVIOUS
  <2>1. GpsInv /\ GpsInv' /\ ImuInv /\ ImuInv'
    BY DEF SerialInv
  <2>2. CASE UNCHANGED parsers
    <3>1. UNCHANGED gps /\ UNCHANGED imu
      BY <2>2 DEF parsers
    <3> QED BY <3>1, GpsFramedUntouched, ImuFramedUntouched
  <2>3. CASE (\E ch \in Gps!Char : Gps!ParseChar(ch)) /\ UNCHANGED imu
    BY <2>1, <2>3, GpsFramedPreserved, ImuFramedUntouched
  <2>4. CASE (\E ch \in Imu!Char : Imu!ParseChar(ch)) /\ UNCHANGED gps
    BY <2>1, <2>4, ImuFramedPreserved, GpsFramedUntouched
  <2> QED BY <2>2, <2>3, <2>4, OneParser
<1> QED
  BY <1>1, <1>2, SerialInvariant, PTL DEF Spec

\* Every variable holds a value of its kind, and neither parser ever stores a byte
\* outside its buffer, whatever bytes come and however the reads cut them.
THEOREM SerialTyped == Spec => []TypeOK
<1>1. SerialInv => TypeOK
  BY DEF SerialInv, ReaderInv, GpsInv, ImuInv, TypeOK, Places
<1> QED
  BY <1>1, SerialInvariant, PTL

\* ublox_analys has its buffer as long as it uses it and loses one only with a
\* failed call.
THEOREM BufferIsHeld == Spec => []BufferHeld
<1>1. SerialInv => BufferHeld
  BY DEF SerialInv, ReaderInv
<1> QED
  BY <1>1, SerialInvariant, PTL

\* Whatever bytes come, and however they are cut into reads, a sample is published
\* only for a frame whose header, length and sums are right, and is made of that
\* frame's payload.
THEOREM PublishedSamplesAreFramed == Spec => []PublishedIsFramed
<1>1. GpsFramed /\ ImuFramed => PublishedIsFramed
  BY DEF GpsFramed, ImuFramed, PublishedIsFramed
<1> QED
  BY <1>1, FramedInvariant, PTL

\* A frame that starts when the parser is at rest is published: the parser gives
\* up only what can become none.
THEOREM FramesArePublished == Spec => []FrameIsPublished
<1>1. GpsFramed /\ ImuFramed => FrameIsPublished
  BY DEF GpsFramed, ImuFramed, FrameIsPublished
<1> QED
  BY <1>1, FramedInvariant, PTL
==============================================================================
