------------------------------ MODULE KcpProofs ------------------------------
(***************************************************************************)
(* Theorems about two kcp connections (kcp/cc/ikcp.c), for any windows,    *)
(* numbering and lengths of messages: the window of the receiver is kept,  *)
(* no segment is forgotten that has not arrived, and what is read is what  *)
(* was sent.  The segments of a peer, from the first that it cut out of a  *)
(* message on, are a sequence that no variable holds; the invariant says   *)
(* that there is one of which every queue and buffer is a part.            *)
(***************************************************************************)
EXTENDS Kcp, TLAPS, SequenceTheorems, WellFoundedInduction

Less == {ss \in Nat \X Nat : ss[1] < ss[2]}

LEMMA LeastNatural ==
  ASSUME NEW X, X \subseteq Nat, X # {}
  PROVE  \E n \in X : \A m \in X : n <= m
<1>1. IsWellFoundedOn(Less, Nat)
  BY NatLessThanWellFounded DEF OpToRel, Less
<1>2. PICK n \in X : \A m \in X : <<m, n>> \notin Less
  BY <1>1, WFMin
<1>3. ASSUME NEW m \in X PROVE n <= m
  <2>1. m \in Nat /\ n \in Nat /\ <<m, n>> \notin Less
    BY <1>2
  <2>2. ~(m < n)
    BY <2>1 DEF Less
  <2> QED BY <2>1, <2>2
<1> QED BY <1>2, <1>3

----------------------------------------------------------------------------
(* Numbers: the i-th segment has number Num(i), and as long as i is near    *)
(* enough to 0, sequence numbers compare like the segments they stand for.  *)
Num(i) == Plus(Start, i)
Near == {i \in Nat : 2 * i < SeqMod}

LEMMA ModAround ==
  ASSUME NEW n \in Nat \ {0}, NEW x \in Int, -n < x, x < 2 * n
  PROVE  x % n = IF x < 0 THEN x + n ELSE IF x < n THEN x ELSE x - n
<1>1. CASE x < 0
  BY <1>1
<1>2. CASE 0 <= x /\ x < n
  BY <1>2
<1>3. CASE n <= x
  BY <1>3
<1> QED BY <1>1, <1>2, <1>3

LEMMA NumIs ==
  ASSUME NEW i \in Near
  PROVE  /\ SeqMod \in Nat \ {0} /\ Start \in 0 .. SeqMod - 1 /\ i \in Nat /\ 2 * i < SeqMod
         /\ Num(i) = IF Start + i < SeqMod THEN Start + i ELSE Start + i - SeqMod
         /\ Num(i) \in 0 .. SeqMod - 1
<1>1. SeqMod \in Nat \ {0} /\ Start \in 0 .. SeqMod - 1 /\ i \in Nat /\ 2 * i < SeqMod
  BY WindowAssumption DEF Near
<1> PICK y : y = Start + i
  OBVIOUS
<1>2. y \in Int /\ -SeqMod < y /\ y < 2 * SeqMod /\ ~(y < 0)
  BY <1>1
<1>4. y % SeqMod = IF y < 0 THEN y + SeqMod ELSE IF y < SeqMod THEN y ELSE y - SeqMod
  BY <1>1, <1>2, ModAround
<1>3. Num(i) = IF y < SeqMod THEN y ELSE y - SeqMod
  BY <1>2, <1>4 DEF Num, Plus
<1> QED BY <1>1, <1>2, <1>3

LEMMA NumDiffers ==
  ASSUME NEW i \in Near, NEW j \in Near, Num(i) = Num(j)
  PROVE  i = j
<1>1. /\ Num(i) = IF Start + i < SeqMod THEN Start + i ELSE Start + i - SeqMod
      /\ Num(j) = IF Start + j < SeqMod THEN Start + j ELSE Start + j - SeqMod
      /\ SeqMod \in Nat /\ Start \in 0 .. SeqMod - 1
      /\ i \in Nat /\ j \in Nat /\ 2 * i < SeqMod /\ 2 * j < SeqMod
  BY NumIs
<1>2. /\ SeqMod \in Int /\ Start \in Int /\ i \in Int /\ j \in Int
      /\ i < SeqMod /\ j < SeqMod /\ -SeqMod < i - j /\ i - j < SeqMod
  BY <1>1
<1>3. Num(i) \in {Start + i, Start + i - SeqMod}
  BY <1>1, Zenon
<1>4. Num(j) \in {Start + j, Start + j - SeqMod}
  BY <1>1, Zenon
<1>5. \/ Start + i = Start + j
      \/ Start + i = Start + j - SeqMod
      \/ Start + i - SeqMod = Start + j
      \/ Start + i - SeqMod = Start + j - SeqMod
  BY <1>3, <1>4, Zenon
<1> QED BY <1>2, <1>5

LEMMA NumPlus ==
  ASSUME NEW i \in Nat, NEW k \in Nat, i + k \in Near
  PROVE  Plus(Num(i), k) = Num(i + k)
<1>1. SeqMod \in Nat \ {0} /\ Start \in 0 .. SeqMod - 1 /\ 2 * (i + k) < SeqMod
  BY WindowAssumption DEF Near
<1>2. i \in Near
  BY <1>1 DEF Near
<1>3. Num(i) \in 0 .. SeqMod - 1 /\ Num(i) = IF Start + i < SeqMod THEN Start + i ELSE Start + i - SeqMod
  BY <1>2, NumIs
<1> PICK x : x = Num(i)
  OBVIOUS
<1> PICK y : y = x + k
  OBVIOUS
<1>4. y \in Int /\ -SeqMod < y /\ y < 2 * SeqMod /\ ~(y < 0)
  BY <1>1, <1>3
<1>7. y % SeqMod = IF y < 0 THEN y + SeqMod ELSE IF y < SeqMod THEN y ELSE y - SeqMod
  BY <1>1, <1>4, ModAround
<1>5. y % SeqMod = IF y < SeqMod THEN y ELSE y - SeqMod
  BY <1>4, <1>7
<1>6. Num(i + k) = IF Start + (i + k) < SeqMod THEN Start + (i + k) ELSE Start + (i + k) - SeqMod
  BY NumIs
<1>8. y % SeqMod = Num(i + k)
  BY <1>1, <1>3, <1>5, <1>6
<1> QED BY <1>8 DEF Plus

LEMMA NumDiff ==
  ASSUME NEW i \in Near, NEW j \in Near
  PROVE  Diff(Num(i), Num(j)) = i - j
<1>1. /\ Num(i) = IF Start + i < SeqMod THEN Start + i ELSE Start + i - SeqMod
      /\ Num(j) = IF Start + j < SeqMod THEN Start + j ELSE Start + j - SeqMod
      /\ SeqMod \in Nat \ {0} /\ Start \in 0 .. SeqMod - 1
      /\ i \in Nat /\ j \in Nat /\ 2 * i < SeqMod /\ 2 * j < SeqMod
      /\ Num(i) \in 0 .. SeqMod - 1 /\ Num(j) \in 0 .. SeqMod - 1
  BY NumIs
<1> PICK x : x = Num(i) - Num(j)
  OBVIOUS
<1>2. x \in Int /\ -SeqMod < x /\ x < SeqMod /\ x < 2 * SeqMod
  BY <1>1
<1>3. x % SeqMod = IF x < 0 THEN x + SeqMod ELSE IF x < SeqMod THEN x ELSE x - SeqMod
  BY <1>1, <1>2, ModAround
<1> PICK d : d = x % SeqMod
  OBVIOUS
<1>4. Diff(Num(i), Num(j)) = IF 2 * d < SeqMod THEN d ELSE d - SeqMod
  BY Zenon DEF Diff
<1>5. d = IF x < 0 THEN x + SeqMod ELSE x
  BY <1>2, <1>3
<1>6. (IF 2 * d < SeqMod THEN d ELSE d - SeqMod) = i - j
  <2>1. x \in {i - j, i - j + SeqMod, i - j - SeqMod}
    BY <1>1
  <2> QED BY <1>1, <1>2, <1>5, <2>1
<1> QED BY <1>4, <1>6

LEMMA DiffIsInt ==
  ASSUME NEW m \in Int, NEW n \in Int
  PROVE  Diff(m, n) \in Int
<1>1. SeqMod \in Nat \ {0}
  BY WindowAssumption
<1> PICK d : d = (m - n) % SeqMod
  OBVIOUS
<1>2. d \in Int
  BY <1>1
<1>3. Diff(m, n) = IF 2 * d < SeqMod THEN d ELSE d - SeqMod
  BY Zenon DEF Diff
<1> QED BY <1>1, <1>2, <1>3

----------------------------------------------------------------------------
(* The segments of one peer: s[i + 1] is the data of segment i, which is    *)
(* numbered Num(i).                                                         *)
Seg(s, i) == [sn |-> Num(i), data |-> s[i + 1]]

\* Nothing that is compared is farther than this.
Fits(s) == \A i \in 0 .. Len(s) + RcvWnd + SndWnd : i \in Near

\* What may be held of segments r to n - 1, in a buffer that waits for segment r.
Window(buf, s, n, r) == \A x \in buf : \E i \in r .. n - 1 : i < r + RcvWnd /\ x = Seg(s, i)

\* What a receiver holds of them: t are read, r are in order, n were ever sent.
Held(buf, queue, s, n, r, t) ==
  /\ s \in Seq(Data) /\ Fits(s)
  /\ n \in 0 .. Len(s) /\ r \in 0 .. n /\ t \in 0 .. r /\ r - t <= RcvWnd
  /\ Window(buf, s, n, r) /\ queue = SubSeq(s, t + 1, r)

\* It keeps back what is in order only when the queue is full.
Settled(buf, r, t) == r - t = RcvWnd \/ \A x \in buf : x.sn # Num(r)

LEMMA FitsNear ==
  ASSUME NEW s \in Seq(Data), Fits(s), NEW i \in Nat, i <= Len(s) + RcvWnd + SndWnd
  PROVE  i \in Near
<1>1. i \in 0 .. Len(s) + RcvWnd + SndWnd
  BY WindowAssumption
<1> QED BY <1>1 DEF Fits

LEMMA PartOfSeq ==
  ASSUME NEW X, NEW s \in Seq(X), NEW m \in Nat, NEW n \in 0 .. Len(s), m <= n
  PROVE  /\ SubSeq(s, m + 1, n) \in Seq(X) /\ Len(SubSeq(s, m + 1, n)) = n - m
         /\ \A k \in 1 .. n - m : SubSeq(s, m + 1, n)[k] = s[m + k]
<1>1. m + 1 \in Int /\ n \in Int /\ n - (m + 1) + 1 = n - m /\ n - m \in Nat
  OBVIOUS
<1>2. \A k \in m + 1 .. n : s[k] \in X
  <2>1. \A k \in m + 1 .. n : k \in 1 .. Len(s)
    OBVIOUS
  <2> QED BY <2>1, ElementOfSeq
<1>3. /\ SubSeq(s, m + 1, n) \in Seq(X)
      /\ Len(SubSeq(s, m + 1, n)) = IF m + 1 <= n THEN n - (m + 1) + 1 ELSE 0
      /\ \A k \in 1 .. n - (m + 1) + 1 : SubSeq(s, m + 1, n)[k] = s[m + 1 + k - 1]
  BY <1>1, <1>2, SubSeqProperties
<1>4. (IF m + 1 <= n THEN n - (m + 1) + 1 ELSE 0) = n - m
  BY <1>1
<1>5. \A k \in 1 .. n - m : m + 1 + k - 1 = m + k
  OBVIOUS
<1> QED BY <1>1, <1>3, <1>4, <1>5

\* In such a buffer a number stands for one segment.
LEMMA OneSegment ==
  ASSUME NEW s \in Seq(Data), Fits(s), NEW n \in 0 .. Len(s), NEW r \in 0 .. n,
         NEW buf, Window(buf, s, n, r), NEW x \in buf, NEW i \in Nat,
         i <= Len(s) + RcvWnd + SndWnd, x.sn = Num(i)
  PROVE  i \in r .. n - 1 /\ i < r + RcvWnd /\ x = Seg(s, i)
<1>1. PICK j \in r .. n - 1 : j < r + RcvWnd /\ x = Seg(s, j)
  BY DEF Window
<1>2. x.sn = Num(j)
  BY <1>1 DEF Seg
<1>3. i \in Near /\ j \in Near
  <2>1. j \in Nat /\ j <= Len(s) + RcvWnd + SndWnd
    BY WindowAssumption
  <2> QED BY <2>1, FitsNear
<1>4. i = j
  BY <1>2, <1>3, NumDiffers
<1> QED BY <1>1, <1>4

LEMMA MovableIs ==
  ASSUME NEW buf, NEW queue, NEW s, NEW n, NEW r, NEW t, Held(buf, queue, s, n, r, t),
         NEW k, k = Movable(buf, queue, Num(r))
  PROVE  /\ k \in 0 .. RcvWnd - (r - t) /\ Len(queue) = r - t
         /\ \A j \in 0 .. k - 1 : \E x \in buf : x.sn = Num(r + j)
         /\ k = RcvWnd - (r - t) \/ ~\E x \in buf : x.sn = Num(r + k)
<1>1. /\ s \in Seq(Data) /\ Len(s) \in Nat /\ RcvWnd \in Nat /\ SndWnd \in Nat
      /\ n \in 0 .. Len(s) /\ r \in 0 .. n /\ t \in 0 .. r /\ r - t <= RcvWnd
      /\ t \in Nat /\ r \in 0 .. Len(s) /\ t <= r
  BY WindowAssumption, LenProperties DEF Held
<1>2. Len(queue) = r - t
  BY <1>1, PartOfSeq DEF Held
<1> DEFINE room == RcvWnd - (r - t)
           In(i) == \E x \in buf : x.sn = Num(i)
           Stops == {i \in 0 .. room : i = room \/ ~In(r + i)}
<1>3. room \in Nat
  BY <1>1
<1>4. \A j \in 0 .. room : Plus(Num(r), j) = Num(r + j)
  <2>1. ASSUME NEW j \in 0 .. room PROVE Plus(Num(r), j) = Num(r + j)
    <3>1. r \in Nat /\ j \in Nat /\ r + j \in Nat /\ r + j <= Len(s) + RcvWnd + SndWnd
      BY <1>1
    <3>2. r + j \in Near
      BY <1>1, <3>1, FitsNear DEF Held
    <3> QED BY <3>1, <3>2, NumPlus
  <2> QED BY <2>1
<1>5. PICK l \in Stops : \A i \in Stops : l <= i
  <2>1. room \in Stops /\ Stops \subseteq Nat
    BY <1>3
  <2> HIDE DEF Stops
  <2> QED BY <2>1, LeastNatural
<1>6. /\ l \in 0 .. room /\ \A j \in 0 .. l - 1 : In(r + j)
      /\ l = room \/ ~In(r + l)
  <2>1. ASSUME NEW j \in 0 .. l - 1 PROVE In(r + j)
    <3>1. j \in 0 .. room /\ ~(l <= j)
      BY <1>3, <1>5
    <3> QED BY <1>5, <3>1
  <2> QED BY <1>5, <2>1
<1>7. k = CHOOSE i \in 0 .. room :
            /\ \A j \in 0 .. i - 1 : \E x \in buf : x.sn = Plus(Num(r), j)
            /\ i = room \/ ~\E x \in buf : x.sn = Plus(Num(r), i)
  BY <1>2 DEF Movable
<1> DEFINE Fit(i) == /\ \A j \in 0 .. i - 1 : \E x \in buf : x.sn = Plus(Num(r), j)
                     /\ i = room \/ ~\E x \in buf : x.sn = Plus(Num(r), i)
<1>8. Fit(l)
  <2>1. \A j \in 0 .. l - 1 : j \in 0 .. room
    BY <1>3, <1>6
  <2> QED BY <1>4, <1>6, <2>1
<1>9. k \in 0 .. room /\ Fit(k)
  <2>1. \E i \in 0 .. room : Fit(i)
    BY <1>6, <1>8
  <2>2. k = CHOOSE i \in 0 .. room : Fit(i)
    BY <1>7
  <2> HIDE DEF Fit
  <2> QED BY <2>1, <2>2
<1>10. \A j \in 0 .. k - 1 : j \in 0 .. room
  BY <1>3, <1>9
<1> QED BY <1>2, <1>4, <1>9, <1>10

Rest(buf, i) == {x \in buf : Diff(x.sn, Num(i)) >= 0}

\* ikcp_recv and ikcp_parse_data move k segments from the buffer to the queue.
MovedOn(buf, queue, s, n, r, t, k) ==
  /\ k \in Nat /\ r + k \in r .. n /\ Plus(Num(r), k) = Num(r + k)
  /\ Held(Rest(buf, r + k), queue \o Moved(buf, Num(r), k), s, n, r + k, t)
  /\ Settled(Rest(buf, r + k), r + k, t)
  /\ \A i \in r + k .. n - 1 : Seg(s, i) \in buf => Seg(s, i) \in Rest(buf, r + k)

LEMMA MovingOn ==
  ASSUME NEW buf, NEW queue, NEW s, NEW n, NEW r, NEW t, Held(buf, queue, s, n, r, t),
         NEW k, k = Movable(buf, queue, Num(r))
  PROVE  MovedOn(buf, queue, s, n, r, t, k)
<1>1. /\ s \in Seq(Data) /\ Len(s) \in Nat /\ RcvWnd \in Nat /\ SndWnd \in Nat /\ Fits(s)
      /\ n \in 0 .. Len(s) /\ r \in 0 .. n /\ t \in 0 .. r /\ r - t <= RcvWnd
      /\ t \in Nat /\ r \in 0 .. Len(s) /\ t <= r /\ r \in Nat
      /\ Window(buf, s, n, r) /\ queue = SubSeq(s, t + 1, r)
  BY WindowAssumption, LenProperties DEF Held
<1>2. /\ k \in 0 .. RcvWnd - (r - t) /\ Len(queue) = r - t
      /\ \A j \in 0 .. k - 1 : \E x \in buf : x.sn = Num(r + j)
      /\ k = RcvWnd - (r - t) \/ ~\E x \in buf : x.sn = Num(r + k)
  BY MovableIs
<1>3. k \in Nat /\ k <= RcvWnd /\ r + k - t <= RcvWnd
  BY <1>1, <1>2
<1>14. PICK z : z = r + k
  OBVIOUS
<1>15. /\ r \in Nat /\ t \in Nat /\ k \in Nat /\ RcvWnd \in Nat /\ n \in Nat /\ Len(s) \in Nat
       /\ z \in Nat /\ z = r + k /\ r <= n /\ t <= r /\ n <= Len(s) /\ z - t <= RcvWnd
  <2>1. /\ r \in Nat /\ t \in Nat /\ RcvWnd \in Nat /\ n \in Nat /\ Len(s) \in Nat
        /\ r <= n /\ t <= r /\ n <= Len(s)
    BY <1>1
  <2>2. k \in Nat /\ r + k - t <= RcvWnd
    BY <1>3
  <2>3. z - t <= RcvWnd
    BY <1>14, <2>1, <2>2
  <2>4. z \in Nat
    BY <1>14, <2>1, <2>2
  <2> QED BY <1>14, <2>1, <2>2, <2>3, <2>4, Zenon
<1>4. \A j \in 0 .. k : r + j \in Nat /\ r + j <= Len(s) + RcvWnd + SndWnd
  BY <1>1, <1>3
<1>5. \A j \in 0 .. k - 1 : \A x \in buf :
        x.sn = Num(r + j) => r + j \in r .. n - 1 /\ x = Seg(s, r + j)
  <2>1. ASSUME NEW j \in 0 .. k - 1, NEW x \in buf, x.sn = Num(r + j)
        PROVE  r + j \in r .. n - 1 /\ x = Seg(s, r + j)
    <3>1. j \in 0 .. k
      BY <1>3
    <3>2. PICK i : i = r + j
      OBVIOUS
    <3>3. i \in Nat /\ i <= Len(s) + RcvWnd + SndWnd /\ x.sn = Num(i)
      BY <1>4, <2>1, <3>1, <3>2
    <3>4. i \in r .. n - 1 /\ x = Seg(s, i)
      BY <1>1, <3>3, OneSegment
    <3> QED BY <3>2, <3>4
  <2> QED BY <2>1
<1>6. r + k \in r .. n
  <2>1. CASE k = 0
    BY <1>1, <2>1
  <2>2. CASE k # 0
    <3>1. k - 1 \in 0 .. k - 1
      BY <1>3, <2>2
    <3>2. r + (k - 1) \in r .. n - 1
      BY <1>2, <1>5, <3>1
    <3>3. r \in Nat /\ n \in Nat /\ k \in Nat /\ k - 1 + r <= n - 1
      BY <1>15, <3>2
    <3> QED BY <3>3
  <2> QED BY <2>1, <2>2
<1>7. r + k \in Near /\ Plus(Num(r), k) = Num(r + k)
  <2>1. r + k \in Nat /\ r + k <= Len(s) + RcvWnd + SndWnd
    BY <1>1, <1>3
  <2>2. r + k \in Near
    BY <1>1, <2>1, FitsNear
  <2> QED BY <1>1, <1>3, <2>2, NumPlus
<1>8. ASSUME NEW i \in r .. n - 1
      PROVE  Diff(Num(i), Num(r + k)) = i - (r + k)
  <2>1. i \in Nat /\ i <= Len(s) + RcvWnd + SndWnd
    BY <1>1
  <2>2. i \in Near
    BY <1>1, <2>1, FitsNear
  <2> QED BY <1>7, <2>2, NumDiff
<1>9. Window(Rest(buf, r + k), s, n, r + k)
  <2>1. ASSUME NEW x \in Rest(buf, r + k)
        PROVE  \E i \in r + k .. n - 1 : i < r + k + RcvWnd /\ x = Seg(s, i)
    <3>1. x \in buf /\ Diff(x.sn, Num(r + k)) >= 0
      BY <2>1 DEF Rest
    <3>2. PICK i \in r .. n - 1 : i < r + RcvWnd /\ x = Seg(s, i)
      BY <1>1, <3>1 DEF Window
    <3>3. x.sn = Num(i)
      BY <3>2 DEF Seg
    <3>4. i - (r + k) >= 0
      BY <1>8, <3>1, <3>3
    <3>5. i \in r + k .. n - 1 /\ i < r + k + RcvWnd
      BY <1>1, <1>3, <3>2, <3>4
    <3> QED BY <3>2, <3>5
  <2> QED BY <2>1, Zenon DEF Window
<1>10. queue \o Moved(buf, Num(r), k) = SubSeq(s, t + 1, r + k)
  <2>1. /\ SubSeq(s, r + 1, r + k) \in Seq(Data) /\ Len(SubSeq(s, r + 1, r + k)) = k
        /\ \A j \in 1 .. k : SubSeq(s, r + 1, r + k)[j] = s[r + j]
    <3>1. z \in 0 .. Len(s) /\ r <= z /\ z - r = k
      BY <1>6, <1>15
    <3>2. /\ SubSeq(s, r + 1, z) \in Seq(Data) /\ Len(SubSeq(s, r + 1, z)) = z - r
          /\ \A j \in 1 .. z - r : SubSeq(s, r + 1, z)[j] = s[r + j]
      BY <1>1, <3>1, PartOfSeq
    <3> QED BY <1>14, <3>1, <3>2
  <2> PICK w : w = SubSeq(s, r + 1, r + k)
    OBVIOUS
  <2>2. ASSUME NEW j \in 1 .. k
        PROVE  (CHOOSE x \in buf : x.sn = Plus(Num(r), j - 1)).data = w[j]
    <3>1. j - 1 \in 0 .. k - 1 /\ j - 1 \in Nat /\ j - 1 \in 0 .. k /\ r + (j - 1) + 1 = r + j
      <4>1. k \in Nat /\ r \in Nat /\ j \in 1 .. k
        BY <1>15
      <4> QED BY <4>1
    <3>2. Plus(Num(r), j - 1) = Num(r + (j - 1))
      <4>1. r + (j - 1) \in Nat /\ r + (j - 1) <= Len(s) + RcvWnd + SndWnd
        BY <1>4, <3>1
      <4>2. r + (j - 1) \in Near
        BY <1>1, <4>1, FitsNear
      <4> QED BY <1>1, <3>1, <4>2, NumPlus
    <3> PICK x : x = CHOOSE y \in buf : y.sn = Plus(Num(r), j - 1)
      OBVIOUS
    <3>3. x \in buf /\ x.sn = Num(r + (j - 1))
      <4>1. \E y \in buf : y.sn = Plus(Num(r), j - 1)
        BY <1>2, <3>1, <3>2
      <4> QED BY <3>2, <4>1
    <3>4. x = Seg(s, r + (j - 1))
      BY <1>5, <3>1, <3>3
    <3>5. x.data = s[r + j]
      <4>1. Seg(s, r + (j - 1)).data = s[r + (j - 1) + 1]
        BY Zenon DEF Seg
      <4> QED BY <3>1, <3>4, <4>1
    <3> QED BY <2>1, <3>5
  <2>3. Moved(buf, Num(r), k) = [j \in 1 .. k |-> w[j]]
    BY <2>2, Zenon DEF Moved
  <2>4. w = [j \in 1 .. k |-> w[j]]
    BY <2>1, LenProperties
  <2>5. Moved(buf, Num(r), k) = SubSeq(s, r + 1, r + k)
    BY <2>3, <2>4
  <2>6. t + 1 \in 1 .. Len(s) + 1 /\ r \in t + 1 - 1 .. Len(s) /\ z \in r .. Len(s)
    <3>1. t \in Nat /\ r \in Nat /\ z \in Nat /\ Len(s) \in Nat /\ t <= r /\ r <= z /\ z <= Len(s)
      BY <1>6, <1>15
    <3> QED BY <3>1
  <2>7. SubSeq(s, t + 1, r) \o SubSeq(s, r + 1, r + k) = SubSeq(s, t + 1, r + k)
    <3> PICK t1 : t1 = t + 1
      OBVIOUS
    <3>1. SubSeq(s, t1, r) \o SubSeq(s, r + 1, z) = SubSeq(s, t1, z)
      BY <1>1, <2>6, ConcatAdjacentSubSeq
    <3> QED BY <1>14, <3>1
  <2> QED BY <1>1, <2>5, <2>7
<1>11. Settled(Rest(buf, r + k), r + k, t)
  <2>1. CASE k = RcvWnd - (r - t)
    <3>1. z - t = RcvWnd
      <4>1. r \in Int /\ t \in Int /\ RcvWnd \in Int
        BY <1>15
      <4>2. z = r + (RcvWnd - (r - t))
        BY <1>14, <2>1
      <4> QED BY <4>1, <4>2
    <3> QED BY <1>14, <3>1 DEF Settled
  <2>2. CASE ~\E x \in buf : x.sn = Num(r + k)
    BY <2>2 DEF Settled, Rest
  <2> QED BY <1>2, <2>1, <2>2
<1>12. \A i \in r + k .. n - 1 : Seg(s, i) \in buf => Seg(s, i) \in Rest(buf, r + k)
  <2>1. ASSUME NEW i \in r + k .. n - 1 PROVE Diff(Seg(s, i).sn, Num(r + k)) >= 0
    <3>1. i \in r .. n - 1 /\ i - (r + k) >= 0
      BY <1>1, <1>3
    <3> QED BY <1>8, <3>1 DEF Seg
  <2> QED BY <2>1 DEF Rest
<1>13. Held(Rest(buf, r + k), queue \o Moved(buf, Num(r), k), s, n, r + k, t)
  <2>1. z \in 0 .. n /\ t \in 0 .. z /\ z - t <= RcvWnd
    BY <1>6, <1>15
  <2>2. Held(Rest(buf, z), queue \o Moved(buf, Num(r), k), s, n, z, t)
    BY <1>1, <1>9, <1>10, <1>14, <2>1, Zenon DEF Held
  <2> QED BY <1>14, <2>2
<1> QED BY <1>3, <1>6, <1>7, <1>11, <1>12, <1>13, Zenon DEF MovedOn

----------------------------------------------------------------------------
(* The segments s are the fragments of the messages ms, one after the       *)
(* other: the first m messages end with segment e[m].                       *)
Pieces(n) == IF n = 0 THEN 1 ELSE n

Cut(s, e, ms) ==
  /\ ms \in Seq(Nat) /\ \A m \in 1 .. Len(ms) : ms[m] < RcvWnd
  /\ s \in Seq(Data)
  /\ e \in [0 .. Len(ms) -> Nat] /\ e[0] = 0 /\ e[Len(ms)] = Len(s)
  /\ \A m \in 0 .. Len(ms) : e[m] <= Len(s) /\ e[m] <= m * RcvWnd
  /\ \A m \in 1 .. Len(ms) :
       /\ e[m] = e[m - 1] + Pieces(ms[m])
       /\ \A k \in 1 .. Pieces(ms[m]) : s[e[m - 1] + k] = Fragments(m, ms[m])[k]

LEMMA FragmentsAre ==
  ASSUME NEW m \in Nat, NEW n \in Nat, n < RcvWnd
  PROVE  /\ Pieces(n) \in Nat /\ 1 <= Pieces(n) /\ Pieces(n) <= RcvWnd
         /\ Fragments(m, n) \in Seq(Data) /\ Len(Fragments(m, n)) = Pieces(n)
         /\ \A k \in 1 .. Pieces(n) : Fragments(m, n)[k].frg = Pieces(n) - k
         /\ Fragments(m, n)[1].len = IF n = 0 THEN 0 ELSE 1
<1>1. RcvWnd \in Nat \ {0}
  BY WindowAssumption
<1>2. CASE n = 0
  <2>1. PICK x : x = [msg |-> m, frg |-> 0, len |-> 0]
    OBVIOUS
  <2>2. x \in Data /\ x.frg = 0 /\ x.len = 0
    BY <1>1, <2>1 DEF Data
  <2>3. Fragments(m, n) = <<x>>
    BY <1>2, <2>1 DEF Fragments
  <2>4. <<x>> \in Seq(Data) /\ Len(<<x>>) = 1 /\ <<x>>[1] = x
    BY <2>2
  <2>5. Pieces(n) = 1 /\ \A k \in 1 .. 1 : k = 1 /\ 1 - k = 0
    BY <1>2 DEF Pieces
  <2>6. 1 <= 1 /\ 1 <= RcvWnd /\ 1 \in Nat
    BY <1>1
  <2>7. \A k \in 1 .. 1 : <<x>>[k].frg = 1 - k
    BY <2>2, <2>4, <2>5
  <2> QED BY <1>2, <2>2, <2>3, <2>4, <2>5, <2>6, <2>7
<1>3. CASE n # 0
  <2>1. Fragments(m, n) = [k \in 1 .. n |-> [msg |-> m, frg |-> n - k, len |-> 1]]
    BY <1>3 DEF Fragments
  <2>2. \A k \in 1 .. n : [msg |-> m, frg |-> n - k, len |-> 1] \in Data
    <3>1. ASSUME NEW k \in 1 .. n PROVE n - k \in 0 .. RcvWnd - 1
      BY <1>1
    <3> QED BY <3>1 DEF Data
  <2>3. Fragments(m, n) \in [1 .. n -> Data]
    BY <2>1, <2>2
  <2>4. Fragments(m, n) \in Seq(Data) /\ Len(Fragments(m, n)) = n
    BY <2>3, SeqDef, LenProperties
  <2>5. 1 \in 1 .. n /\ Pieces(n) = n
    BY <1>3 DEF Pieces
  <2>6. \A k \in 1 .. n : Fragments(m, n)[k].frg = n - k /\ Fragments(m, n)[k].len = 1
    BY <2>1
  <2>7. n \in Nat /\ 1 <= n /\ n <= RcvWnd
    BY <1>1, <1>3
  <2> QED BY <1>3, <2>4, <2>5, <2>6, <2>7
<1> QED BY <1>2, <1>3

\* ikcp_send puts the fragments of the next message behind the others.
LEMMA CutMore ==
  ASSUME NEW s, NEW e, NEW ms, Cut(s, e, ms), NEW n \in Nat, n < RcvWnd
  PROVE  \E d : /\ Cut(s \o Fragments(Len(ms) + 1, n), d, Append(ms, n))
                /\ \A m \in 0 .. Len(ms) : d[m] = e[m]
<1> DEFINE l == Len(ms)
           f == Fragments(l + 1, n)
           d == [m \in 0 .. l + 1 |-> IF m <= l THEN e[m] ELSE Len(s) + Pieces(n)]
           ns == Append(ms, n)
           z == s \o f
<1>1. /\ ms \in Seq(Nat) /\ l \in Nat /\ s \in Seq(Data) /\ Len(s) \in Nat /\ RcvWnd \in Nat
      /\ e \in [0 .. l -> Nat] /\ e[0] = 0 /\ e[l] = Len(s)
      /\ \A m \in 0 .. l : e[m] <= Len(s) /\ e[m] <= m * RcvWnd
  BY WindowAssumption, LenProperties DEF Cut
<1>2. /\ Pieces(n) \in Nat /\ Pieces(n) <= RcvWnd
      /\ f \in Seq(Data) /\ Len(f) = Pieces(n)
  <2>1. l + 1 \in Nat
    BY <1>1
  <2> HIDE DEF l
  <2> QED BY <2>1, FragmentsAre
<1>3. /\ ns \in Seq(Nat) /\ Len(ns) = l + 1 /\ ns[l + 1] = n
      /\ \A m \in 1 .. l : ns[m] = ms[m]
  BY <1>1, AppendProperties
<1>4. /\ z \in Seq(Data) /\ Len(z) = Len(s) + Pieces(n)
      /\ \A k \in 1 .. Len(s) : z[k] = s[k]
      /\ \A k \in 1 .. Pieces(n) : z[Len(s) + k] = f[k]
  <2> HIDE DEF f
  <2>1. /\ z \in Seq(Data) /\ Len(z) = Len(s) + Len(f)
        /\ \A k \in 1 .. Len(s) + Len(f) : z[k] = IF k <= Len(s) THEN s[k] ELSE f[k - Len(s)]
    <3>1. s \in Seq(Data) /\ f \in Seq(Data)
      BY <1>1, <1>2
    <3> QED BY <3>1, ConcatProperties
  <2>2. ASSUME NEW k \in 1 .. Len(s) PROVE z[k] = s[k]
    BY <1>1, <1>2, <2>1
  <2>3. ASSUME NEW k \in 1 .. Pieces(n) PROVE z[Len(s) + k] = f[k]
    <3>1. /\ Len(s) + k \in 1 .. Len(s) + Len(f) /\ ~(Len(s) + k <= Len(s))
          /\ Len(s) + k - Len(s) = k
      BY <1>1, <1>2
    <3> QED BY <2>1, <3>1
  <2> QED BY <1>2, <2>1, <2>2, <2>3
<1>5. /\ d \in [0 .. l + 1 -> Nat] /\ \A m \in 0 .. l : d[m] = e[m]
      /\ d[l + 1] = Len(s) + Pieces(n)
  BY <1>1, <1>2
<1> HIDE DEF d, ns, z, f
<1>6. \A m \in 0 .. l + 1 : d[m] <= Len(z) /\ d[m] <= m * RcvWnd
  <2>1. ASSUME NEW m \in 0 .. l PROVE d[m] <= Len(z) /\ d[m] <= m * RcvWnd
    <3>1. e[m] \in Nat /\ e[m] <= Len(s) /\ e[m] <= m * RcvWnd /\ d[m] = e[m]
      BY <1>1, <1>5
    <3>2. Len(s) <= Len(z) /\ Len(z) \in Nat /\ Len(s) \in Nat
      BY <1>1, <1>2, <1>4
    <3>3. e[m] <= Len(z)
      BY <3>1, <3>2
    <3> QED BY <3>1, <3>3
  <2>2. d[l + 1] <= Len(z) /\ d[l + 1] <= (l + 1) * RcvWnd
    <3>1. Len(s) <= l * RcvWnd
      BY <1>1
    <3>2. (l + 1) * RcvWnd = l * RcvWnd + RcvWnd /\ l * RcvWnd \in Nat
      BY <1>1
    <3> QED BY <1>1, <1>2, <1>4, <1>5, <3>1, <3>2
  <2>3. \A m \in 0 .. l + 1 : m \in 0 .. l \/ m = l + 1
    BY <1>1
  <2> QED BY <2>1, <2>2, <2>3
<1>7. ASSUME NEW m \in 1 .. l + 1
      PROVE  /\ ns[m] < RcvWnd
             /\ d[m] = d[m - 1] + Pieces(ns[m])
             /\ \A k \in 1 .. Pieces(ns[m]) : z[d[m - 1] + k] = Fragments(m, ns[m])[k]
  <2>1. CASE m = l + 1
    <3>1. m - 1 = l /\ l \in 0 .. l
      BY <1>1, <2>1
    <3>2. d[m - 1] = Len(s)
      BY <1>1, <1>5, <3>1
    <3> QED BY <1>3, <1>4, <1>5, <2>1, <3>2 DEF f
  <2>2. CASE m \in 1 .. l
    <3>1. m \in 0 .. l /\ m - 1 \in 0 .. l
      BY <1>1, <2>2
    <3>2. /\ ms[m] < RcvWnd /\ e[m] = e[m - 1] + Pieces(ms[m]) /\ e[m] <= Len(s) /\ e[m - 1] \in Nat
          /\ \A k \in 1 .. Pieces(ms[m]) : s[e[m - 1] + k] = Fragments(m, ms[m])[k]
      BY <1>1, <2>2, <3>1 DEF Cut
    <3>3. ms[m] \in Nat
      BY <1>1, <2>2, ElementOfSeq
    <3>4. Pieces(ms[m]) \in Nat
      BY <3>3 DEF Pieces
    <3>5. \A k \in 1 .. Pieces(ms[m]) : e[m - 1] + k \in 1 .. Len(s)
      <4> PICK x, y, w : x = e[m - 1] /\ y = Pieces(ms[m]) /\ w = e[m]
        OBVIOUS
      <4>1. x \in Nat /\ y \in Nat /\ w = x + y /\ w <= Len(s) /\ Len(s) \in Nat
        BY <1>1, <3>2, <3>4
      <4>2. ASSUME NEW k \in 1 .. y PROVE x + k \in 1 .. Len(s)
        <5>1. x + k <= w /\ x + k \in Nat \ {0}
          BY <4>1
        <5> QED BY <4>1, <5>1
      <4> QED BY <4>2
    <3> QED BY <1>3, <1>4, <1>5, <2>2, <3>1, <3>2, <3>5
  <2>3. m = l + 1 \/ m \in 1 .. l
    BY <1>1
  <2> QED BY <2>1, <2>2, <2>3
<1>8. Cut(z, d, ns)
  <2>1. 0 \in 0 .. l
    BY <1>1
  <2> QED BY <1>1, <1>3, <1>4, <1>5, <1>6, <1>7, <2>1 DEF Cut
<1> QED BY <1>5, <1>8 DEF z, f, ns

\* A queue starts with message i, of n full segments.
Starts(queue, i, n) ==
  /\ n \in Nat /\ n < RcvWnd /\ queue \in Seq(Data) /\ queue[1].frg + 1 = Pieces(n)
  /\ \A k \in 1 .. Pieces(n) : k <= Len(queue) => queue[k] = Fragments(i, n)[k]

\* A queue that begins behind message j, of which i is the next, and ends with segment r.
Behind(queue, s, e, ms, j, i, r) ==
  /\ Cut(s, e, ms) /\ j \in 0 .. Len(ms) /\ i = j + 1 /\ r \in 0 .. Len(s) /\ e[j] <= r
  /\ queue = SubSeq(s, e[j] + 1, r) /\ queue # <<>>

\* The queue of a receiver starts with message j + 1, after the first j were read.
LEMMA StartsWith ==
  ASSUME NEW s, NEW e, NEW ms, NEW j, NEW i, NEW r, NEW queue, Behind(queue, s, e, ms, j, i, r)
  PROVE  /\ j < Len(ms) /\ i \in Nat /\ Starts(queue, i, ms[i])
         /\ Len(queue) = r - e[j] /\ e[i] = e[j] + Pieces(ms[i])
<1>0. /\ Cut(s, e, ms) /\ j \in 0 .. Len(ms) /\ i = j + 1 /\ r \in 0 .. Len(s) /\ e[j] <= r
      /\ queue = SubSeq(s, e[j] + 1, r) /\ queue # <<>>
  BY Zenon DEF Behind
<1>1. /\ ms \in Seq(Nat) /\ Len(ms) \in Nat /\ s \in Seq(Data) /\ Len(s) \in Nat
      /\ e \in [0 .. Len(ms) -> Nat] /\ e[Len(ms)] = Len(s) /\ r \in Nat /\ j \in Nat
  BY <1>0, LenProperties DEF Cut
<1> PICK t : t = e[j]
  OBVIOUS
<1>2. t \in Nat /\ t <= r /\ r <= Len(s)
  <2>1. j \in 0 .. Len(ms) /\ e \in [0 .. Len(ms) -> Nat] /\ r \in 0 .. Len(s) /\ e[j] <= r
    BY <1>0, <1>1
  <2>2. t \in Nat /\ t <= r
    BY <2>1
  <2> QED BY <1>1, <2>1, <2>2
<1>3. /\ queue \in Seq(Data) /\ Len(queue) = r - t
      /\ \A k \in 1 .. r - t : queue[k] = s[t + k]
  <2>1. s \in Seq(Data) /\ t \in Nat /\ r \in 0 .. Len(s) /\ t <= r /\ queue = SubSeq(s, t + 1, r)
    BY <1>0, <1>1, <1>2
  <2> QED BY <2>1, PartOfSeq
<1>4. t < r
  <2>1. Len(queue) \in Nat \ {0}
    BY <1>0, <1>3, EmptySeq
  <2> QED BY <1>0, <1>1, <1>2, <1>3, <2>1
<1>5. j < Len(ms)
  <2>1. j # Len(ms)
    BY <1>0, <1>1, <1>2, <1>4
  <2> QED BY <1>0, <1>1, <2>1
<1>6. i \in 1 .. Len(ms) /\ i - 1 = j /\ i \in Nat
  BY <1>0, <1>1, <1>5
<1> PICK n : n = ms[i]
  OBVIOUS
<1>7. /\ n \in Nat /\ n < RcvWnd /\ e[i] = t + Pieces(n)
      /\ \A k \in 1 .. Pieces(n) : s[t + k] = Fragments(i, n)[k]
  <2>1. /\ ms[i] < RcvWnd /\ e[i] = e[i - 1] + Pieces(ms[i]) /\ i - 1 = j
        /\ \A k \in 1 .. Pieces(ms[i]) : s[e[i - 1] + k] = Fragments(i, ms[i])[k]
    BY <1>0, <1>6 DEF Cut
  <2>2. ms[i] \in Nat
    BY <1>0, <1>1, <1>6, ElementOfSeq
  <2> QED BY <1>0, <2>1, <2>2
<1>8. /\ Pieces(n) \in Nat /\ 1 <= Pieces(n)
      /\ \A k \in 1 .. Pieces(n) : Fragments(i, n)[k].frg = Pieces(n) - k
  BY <1>0, <1>6, <1>7, FragmentsAre
<1>9. \A k \in 1 .. Pieces(n) : k <= Len(queue) => queue[k] = Fragments(i, n)[k]
  <2>1. \A k \in 1 .. Pieces(n) : k <= r - t => k \in 1 .. r - t
    BY <1>0, <1>1, <1>2, <1>8
  <2> QED BY <1>0, <1>3, <1>7, <2>1
<1>10. queue[1].frg + 1 = Pieces(n)
  <2>1. 1 \in 1 .. Pieces(n) /\ 1 <= Len(queue)
    BY <1>0, <1>1, <1>2, <1>3, <1>4, <1>8
  <2>2. queue[1].frg = Pieces(n) - 1
    BY <1>0, <1>8, <1>9, <2>1
  <2>3. Pieces(n) - 1 + 1 = Pieces(n)
    BY <1>0, <1>8
  <2> QED BY <1>0, <2>2, <2>3
<1>11. Starts(queue, i, n)
  BY <1>0, <1>3, <1>7, <1>9, <1>10, Zenon DEF Starts
<1> QED BY <1>0, <1>3, <1>5, <1>6, <1>7, <1>11, Zenon

\* ikcp_recv merges the fragments of one message.
LEMMA FirstMessageIs ==
  ASSUME NEW queue, NEW m \in Nat, NEW n, Starts(queue, m, n), Len(queue) >= Pieces(n)
  PROVE  /\ FirstMessage(queue) = Pieces(n)
         /\ SubSeq(queue, 1, Pieces(n)) = Fragments(m, n)
<1>0. /\ queue \in Seq(Data) /\ n \in Nat /\ n < RcvWnd
      /\ \A k \in 1 .. Pieces(n) : k <= Len(queue) => queue[k] = Fragments(m, n)[k]
  BY Zenon DEF Starts
<1> PICK c, f, l : c = Pieces(n) /\ f = Fragments(m, n) /\ l = Len(queue)
  OBVIOUS
<1>1. /\ c \in Nat /\ 1 <= c /\ f \in Seq(Data) /\ Len(f) = c
      /\ \A k \in 1 .. c : f[k].frg = c - k
  BY <1>0, FragmentsAre
<1>2. l \in Nat /\ DOMAIN queue = 1 .. l /\ c <= l /\ c \in 1 .. l
  BY <1>0, <1>1, LenProperties
<1>3. \A k \in 1 .. c : queue[k] = f[k]
  BY <1>0, <1>1, <1>2
<1>4. \A k \in 1 .. c : queue[k].frg = c - k
  BY <1>1, <1>3
<1>5. queue[c].frg = 0 /\ \A k \in 1 .. c - 1 : queue[k].frg # 0 /\ k # l
  <2>1. c \in 1 .. c /\ c - c = 0 /\ \A k \in 1 .. c - 1 : k \in 1 .. c /\ c - k # 0 /\ k # l
    BY <1>1, <1>2
  <2> QED BY <1>4, <2>1
<1> DEFINE First(k) == /\ queue[k].frg = 0 \/ k = l
                       /\ \A j \in 1 .. k - 1 : queue[j].frg # 0
<1>6. First(c)
  BY <1>5
<1>7. ASSUME NEW k \in DOMAIN queue, First(k) PROVE k = c
  <2>1. CASE k < c
    <3>1. k \in 1 .. c - 1
      BY <1>1, <1>2, <2>1
    <3> QED BY <1>5, <1>7, <3>1
  <2>2. CASE c < k
    <3>1. c \in 1 .. k - 1
      BY <1>1, <1>2, <2>2
    <3> QED BY <1>5, <1>7, <3>1
  <2> QED BY <1>1, <1>2, <2>1, <2>2
<1>8. FirstMessage(queue) = c
  <2>1. FirstMessage(queue) = CHOOSE k \in DOMAIN queue : First(k)
    BY DEF FirstMessage
  <2> HIDE DEF First
  <2> QED BY <1>2, <1>6, <1>7, <2>1
<1>9. SubSeq(queue, 1, c) = f
  <2>1. 0 \in Nat /\ 0 <= c /\ c \in 0 .. Len(queue) /\ 0 + 1 = 1 /\ c - 0 = c
    BY <1>1, <1>2
  <2>2. /\ SubSeq(queue, 0 + 1, c) \in Seq(Data) /\ Len(SubSeq(queue, 0 + 1, c)) = c - 0
        /\ \A k \in 1 .. c - 0 : SubSeq(queue, 0 + 1, c)[k] = queue[0 + k]
    BY <1>0, <2>1, PartOfSeq
  <2>3. \A k \in 1 .. c : 0 + k = k
    OBVIOUS
  <2>4. /\ SubSeq(queue, 1, c) \in Seq(Data) /\ Len(SubSeq(queue, 1, c)) = c
        /\ \A k \in 1 .. c : SubSeq(queue, 1, c)[k] = f[k]
    BY <1>3, <2>1, <2>2, <2>3
  <2> QED BY <1>1, <2>4, SeqEqual
<1> QED BY <1>8, <1>9

----------------------------------------------------------------------------
(* What p sends to q: of the segments s, n are numbered, the first u are    *)
(* acknowledged, the first r arrived in order, the first t are read.        *)
ReadSide(p, s, e, t) ==
  /\ Cut(s, e, sent[p]) /\ Fits(s) /\ Len(sent[p]) <= Messages[p]
  /\ Len(read[p]) \in 0 .. Len(sent[p])
  /\ read[p] = SubSeq(sent[p], 1, Len(read[p]))
  /\ t = e[Len(read[p])]

SendSide(p, s, n, u) ==
  /\ n \in 0 .. Len(s) /\ u \in 0 .. n
  /\ sndNxt[p] = Num(n) /\ sndUna[p] = Num(u)
  /\ sndQueue[p] = SubSeq(s, n + 1, Len(s))
  /\ \A x \in sndBuf[p] : \E i \in u .. n - 1 : x = Seg(s, i)

RecvSide(q, s, n, r, t) ==
  /\ rcvNxt[q] = Num(r)
  /\ Held(rcvBuf[q], rcvQueue[q], s, n, r, t)
  /\ Settled(rcvBuf[q], r, t)

\* What is numbered and not in order is on one side or on the other.
Kept(p, q, s, n, r) == \A i \in r .. n - 1 : Seg(s, i) \in sndBuf[p] \cup rcvBuf[q]

\* The segment of this number arrived.
Got(q, s, n, r, sn) == \E i \in 0 .. n - 1 : sn = Num(i) /\ (i < r \/ Seg(s, i) \in rcvBuf[q])

AckSide(q, s, n, r) == \A k \in DOMAIN ackList[q] : Got(q, s, n, r, ackList[q][k])

\* The packets from p carry its segments, and those from q acknowledge some of them.
Carries(m, s, n) == m.cmd = "PUSH" => \E i \in 0 .. n - 1 : m.sn = Num(i) /\ m.data = s[i + 1]
Confirms(m, q, s, n, r) ==
  /\ \E j \in 0 .. r : m.una = Num(j)
  /\ m.cmd = "ACK" => Got(q, s, n, r, m.sn)
NetSide(p, q, s, n, r) ==
  \A m \in net : /\ m.dst = q => Carries(m, s, n)
                 /\ m.dst = p => Confirms(m, q, s, n, r)

Stream(p, q, s, e, n, u, r, t) ==
  /\ ReadSide(p, s, e, t)
  /\ SendSide(p, s, n, u)
  /\ RecvSide(q, s, n, r, t)
  /\ Kept(p, q, s, n, r)
  /\ AckSide(q, s, n, r)
  /\ NetSide(p, q, s, n, r)

OfPeers(f) == f = [p \in Peer |-> f[p]]

Types ==
  /\ OfPeers(sndQueue) /\ OfPeers(sndBuf) /\ OfPeers(sndUna) /\ OfPeers(sndNxt)
  /\ OfPeers(rcvBuf) /\ OfPeers(rcvQueue) /\ OfPeers(rcvNxt) /\ OfPeers(sent) /\ OfPeers(read)
  /\ rmtWnd \in [Peer -> 0 .. RcvWnd] /\ ackList \in [Peer -> Seq(0 .. SeqMod - 1)]
  /\ probing \in [Peer -> BOOLEAN] /\ tell \in [Peer -> BOOLEAN]
  /\ \A m \in net : m.dst \in Peer /\ m.wnd \in 0 .. RcvWnd

Streams == \A p \in Peer : \E s, e, n, u, r, t : Stream(p, Other(p), s, e, n, u, r, t)

KcpInv == Types /\ Streams

----------------------------------------------------------------------------
LEMMA Two ==
  ASSUME NEW p \in Peer
  PROVE  Other(p) \in Peer /\ Other(p) # p /\ Other(Other(p)) = p /\ Peer = {p, Other(p)}
BY PeerAssumption DEF Peer, Other

LEMMA LessTimes ==
  ASSUME NEW x \in Nat, NEW y \in Nat, NEW c \in Nat, x <= y
  PROVE  x * c <= y * c /\ x * c \in Nat /\ y * c \in Nat
<1>1. y - x \in Nat
  OBVIOUS
<1>2. (y - x) * c \in Nat
  BY <1>1
<1>3. y * c = x * c + (y - x) * c
  OBVIOUS
<1>4. x * c \in Nat
  OBVIOUS
<1>5. y * c \in Nat
  OBVIOUS
<1> QED BY <1>2, <1>3, <1>4, <1>5

LEMMA CutFits ==
  ASSUME NEW s, NEW e, NEW ms, Cut(s, e, ms), NEW p \in Peer, Len(ms) <= Messages[p]
  PROVE  Fits(s)
<1>1. /\ Len(ms) \in Nat /\ Len(s) \in Nat /\ Len(s) <= Len(ms) * RcvWnd
      /\ RcvWnd \in Nat /\ SndWnd \in Nat /\ SeqMod \in Nat
  <2>1. ms \in Seq(Nat) /\ s \in Seq(Data) /\ e[Len(ms)] = Len(s)
    BY DEF Cut
  <2>2. Len(ms) \in Nat /\ Len(s) \in Nat
    BY <2>1, LenProperties
  <2>3. Len(ms) \in 0 .. Len(ms)
    BY <2>2
  <2>4. e[Len(ms)] <= Len(ms) * RcvWnd
    BY <2>3 DEF Cut
  <2> QED BY <2>1, <2>2, <2>4, WindowAssumption
<1>2. Messages[p] \in Nat /\ 2 * (Messages[p] * RcvWnd + RcvWnd + SndWnd) < SeqMod
  BY NumbersAssumption, BoundsAssumption DEF Peer
<1>7. PICK k, l, w : k = Messages[p] /\ l = Len(ms) /\ w = RcvWnd
  OBVIOUS
<1>3. l * w <= k * w /\ l * w \in Nat /\ k * w \in Nat
  <2>1. k \in Nat /\ l \in Nat /\ l <= k /\ w \in Nat
    BY <1>1, <1>2, <1>7
  <2> QED BY <2>1, LessTimes
<1>4. 2 * (k * w + w + SndWnd) < SeqMod /\ Len(s) <= l * w
  BY <1>1, <1>2, <1>7
<1>6. PICK x, y : x = k * w /\ y = l * w
  OBVIOUS
<1>5. ASSUME NEW i \in 0 .. Len(s) + RcvWnd + SndWnd PROVE i \in Near
  <2>1. /\ x \in Nat /\ y \in Nat /\ y <= x /\ Len(s) <= y /\ w = RcvWnd
        /\ 2 * (x + w + SndWnd) < SeqMod
    BY <1>3, <1>4, <1>6, <1>7
  <2>2. /\ i \in Nat /\ Len(s) \in Nat /\ w \in Nat /\ SndWnd \in Nat /\ SeqMod \in Nat
        /\ i <= Len(s) + w + SndWnd
    BY <1>1, <1>7, <2>1
  <2>3. i <= x + w + SndWnd
    BY <2>1, <2>2
  <2>4. 2 * i <= 2 * (x + w + SndWnd)
    BY <2>1, <2>2, <2>3
  <2>5. 2 * i < SeqMod
    BY <2>1, <2>2, <2>4
  <2> QED BY <2>2, <2>5 DEF Near
<1> QED BY <1>5 DEF Fits

\* A step that touches nothing of a stream but loses packets of it.
LEMMA Untouched ==
  ASSUME NEW p, NEW q, NEW s, NEW e, NEW n, NEW u, NEW r, NEW t,
         Stream(p, q, s, e, n, u, r, t),
         sent'[p] = sent[p], read'[p] = read[p],
         sndNxt'[p] = sndNxt[p], sndUna'[p] = sndUna[p],
         sndQueue'[p] = sndQueue[p], sndBuf'[p] = sndBuf[p],
         rcvNxt'[q] = rcvNxt[q], rcvBuf'[q] = rcvBuf[q], rcvQueue'[q] = rcvQueue[q],
         ackList'[q] = ackList[q], net' \subseteq net
  PROVE  Stream(p, q, s, e, n, u, r, t)'
<1>1. ReadSide(p, s, e, t)'
  BY Zenon DEF Stream, ReadSide
<1>2. SendSide(p, s, n, u)'
  BY Zenon DEF Stream, SendSide
<1>3. RecvSide(q, s, n, r, t)'
  BY Zenon DEF Stream, RecvSide
<1>4. Kept(p, q, s, n, r)'
  BY Zenon DEF Stream, Kept
<1>5. AckSide(q, s, n, r)'
  BY Zenon DEF Stream, AckSide, Got
<1>6. NetSide(p, q, s, n, r)'
  BY Zenon DEF Stream, NetSide, Carries, Confirms, Got
<1> QED BY <1>1, <1>2, <1>3, <1>4, <1>5, <1>6, Zenon DEF Stream

LEMMA KcpStarts ==
  ASSUME Init
  PROVE  KcpInv
<1>1. Types
  <2>1. /\ OfPeers(sndQueue) /\ OfPeers(sndBuf) /\ OfPeers(sndUna) /\ OfPeers(sndNxt)
        /\ OfPeers(rcvBuf) /\ OfPeers(rcvQueue) /\ OfPeers(rcvNxt) /\ OfPeers(sent) /\ OfPeers(read)
    BY DEF Init, OfPeers
  <2>2. rmtWnd \in [Peer -> 0 .. RcvWnd] /\ ackList \in [Peer -> Seq(0 .. SeqMod - 1)]
    BY WindowAssumption DEF Init
  <2> QED BY <2>1, <2>2 DEF Types, Init
<1> DEFINE e == [m \in 0 .. 0 |-> 0]
<1>2. 0 .. 0 = {0} /\ e[0] = 0 /\ e \in [0 .. 0 -> Nat] /\ 0 * RcvWnd = 0
  BY WindowAssumption
<1> HIDE DEF e
<1>3. Cut(<<>>, e, <<>>)
  <2>1. Len(<<>>) = 0 /\ 1 .. 0 = {}
    OBVIOUS
  <2>2. <<>> \in Seq(Nat) /\ <<>> \in Seq(Data)
    BY EmptySeq
  <2> QED BY <1>2, <2>1, <2>2 DEF Cut
<1>4. SubSeq(<<>>, 1, 0) = <<>>
  BY EmptySeq
<1>5. ASSUME NEW p \in Peer
      PROVE  Stream(p, Other(p), <<>>, e, 0, 0, 0, 0)
  <2> PICK q : q = Other(p)
    OBVIOUS
  <2>1. /\ q \in Peer /\ Len(<<>>) = 0 /\ 1 .. 0 = {} /\ 0 .. 0 - 1 = {} /\ 0 + 1 = 1
    BY Two
  <2>2. Messages[p] \in Nat
    BY BoundsAssumption DEF Peer
  <2>3. Fits(<<>>)
    BY <1>3, <2>1, <2>2, CutFits
  <2>4. Num(0) = Start
    BY WindowAssumption DEF Num, Plus
  <2>5. /\ sndQueue[p] = <<>> /\ sndBuf[p] = {} /\ sndUna[p] = Start /\ sndNxt[p] = Start
        /\ rcvBuf[q] = {} /\ rcvQueue[q] = <<>> /\ rcvNxt[q] = Start /\ ackList[q] = <<>>
        /\ net = {} /\ sent[p] = <<>> /\ read[p] = <<>>
    BY <2>1 DEF Init
  <2>6. ReadSide(p, <<>>, e, 0)
    BY <1>2, <1>3, <1>4, <2>1, <2>2, <2>3, <2>5 DEF ReadSide
  <2>7. SendSide(p, <<>>, 0, 0)
    BY <1>4, <2>1, <2>4, <2>5 DEF SendSide
  <2>8. RecvSide(q, <<>>, 0, 0, 0)
    <3>1. Held({}, <<>>, <<>>, 0, 0, 0)
      <4>1. 0 \in 0 .. 0 /\ 0 - 0 <= RcvWnd
        BY WindowAssumption
      <4> QED BY <1>4, <2>1, <2>3, <4>1, EmptySeq DEF Held, Window
    <3> QED BY <2>4, <2>5, <3>1 DEF RecvSide, Settled
  <2>9. Kept(p, q, <<>>, 0, 0) /\ NetSide(p, q, <<>>, 0, 0)
    BY <2>1, <2>5 DEF Kept, NetSide
  <2>10. AckSide(q, <<>>, 0, 0)
    BY <2>1, <2>5 DEF AckSide
  <2>11. Stream(p, q, <<>>, e, 0, 0, 0, 0)
    BY <2>6, <2>7, <2>8, <2>9, <2>10 DEF Stream
  <2> QED BY <2>11
<1>6. Streams
  BY <1>5, Zenon DEF Streams
<1> QED BY <1>1, <1>6 DEF KcpInv

\* A stream belongs to its two peers: what is known of it for one of them suffices.
LEMMA BothStreams ==
  ASSUME NEW p \in Peer,
         (\E s, e, n, u, r, t : Stream(p, Other(p), s, e, n, u, r, t))',
         (\E s, e, n, u, r, t : Stream(Other(p), p, s, e, n, u, r, t))'
  PROVE  Streams'
<1>1. \A x \in Peer : x = p \/ x = Other(p)
  BY Two
<1>2. Other(Other(p)) = p
  BY Two
<1>3. ASSUME NEW x \in Peer PROVE (\E s, e, n, u, r, t : Stream(x, Other(x), s, e, n, u, r, t))'
  <2>1. CASE x = p
    BY <2>1, Zenon
  <2>2. CASE x = Other(p)
    BY <1>2, <2>2, Zenon
  <2> QED BY <1>1, <2>1, <2>2
<1> QED BY <1>3, Zenon DEF Streams

\* A longer sequence of segments has the shorter one's segments.
LEMMA LongerSeg ==
  ASSUME NEW s \in Seq(Data), NEW f \in Seq(Data), NEW i \in 0 .. Len(s) - 1
  PROVE  Seg(s \o f, i) = Seg(s, i) /\ (s \o f)[i + 1] = s[i + 1]
<1>1. i + 1 \in 1 .. Len(s) + Len(f) /\ i + 1 <= Len(s)
  <2>1. Len(s) \in Nat /\ Len(f) \in Nat
    BY LenProperties
  <2> QED BY <2>1
<1>2. (s \o f)[i + 1] = s[i + 1]
  BY <1>1, ConcatProperties
<1> QED BY <1>2 DEF Seg

LEMMA LongerSub ==
  ASSUME NEW s \in Seq(Data), NEW f \in Seq(Data), NEW m \in 0 .. Len(s)
  PROVE  /\ \A r \in m .. Len(s) : SubSeq(s \o f, m + 1, r) = SubSeq(s, m + 1, r)
         /\ SubSeq(s \o f, m + 1, Len(s \o f)) = SubSeq(s, m + 1, Len(s)) \o f
<1> PICK z, l, g : z = s \o f /\ l = Len(s) /\ g = Len(f)
  OBVIOUS
<1>1. /\ l \in Nat /\ g \in Nat /\ z \in Seq(Data) /\ Len(z) = l + g
      /\ \A k \in 1 .. l + g : z[k] = IF k <= l THEN s[k] ELSE f[k - l]
  BY LenProperties, ConcatProperties
<1>2. ASSUME NEW r \in m .. Len(s)
      PROVE  SubSeq(z, m + 1, r) = SubSeq(s, m + 1, r)
  <2>1. m \in Nat /\ r \in 0 .. Len(s) /\ r \in 0 .. Len(z) /\ m <= r
    BY <1>1
  <2>2. /\ SubSeq(z, m + 1, r) \in Seq(Data) /\ Len(SubSeq(z, m + 1, r)) = r - m
        /\ \A k \in 1 .. r - m : SubSeq(z, m + 1, r)[k] = z[m + k]
    BY <1>1, <2>1, PartOfSeq
  <2>3. /\ SubSeq(s, m + 1, r) \in Seq(Data) /\ Len(SubSeq(s, m + 1, r)) = r - m
        /\ \A k \in 1 .. r - m : SubSeq(s, m + 1, r)[k] = s[m + k]
    BY <2>1, PartOfSeq
  <2>4. ASSUME NEW k \in 1 .. r - m PROVE z[m + k] = s[m + k]
    <3>1. m + k \in 1 .. l + g /\ m + k <= l
      BY <1>1, <2>1
    <3> QED BY <1>1, <3>1
  <2> QED BY <2>2, <2>3, <2>4, SeqEqual
<1>3. SubSeq(z, m + 1, Len(z)) = SubSeq(s, m + 1, l) \o f
  <2>1. /\ m \in Nat /\ l \in 0 .. Len(s) /\ m <= l /\ Len(z) \in 0 .. Len(z)
        /\ m <= Len(z) /\ Len(z) = l + g /\ l \in Nat /\ g \in Nat
    BY <1>1
  <2>2. /\ SubSeq(z, m + 1, Len(z)) \in Seq(Data) /\ Len(SubSeq(z, m + 1, Len(z))) = Len(z) - m
        /\ \A k \in 1 .. Len(z) - m : SubSeq(z, m + 1, Len(z))[k] = z[m + k]
    BY <1>1, <2>1, PartOfSeq
  <2> PICK w : w = SubSeq(s, m + 1, l)
    OBVIOUS
  <2>3. /\ w \in Seq(Data) /\ Len(w) = l - m
        /\ \A k \in 1 .. l - m : w[k] = s[m + k]
    BY <2>1, PartOfSeq
  <2>4. /\ w \o f \in Seq(Data) /\ Len(w \o f) = l - m + g
        /\ \A k \in 1 .. l - m + g : (w \o f)[k] = IF k <= l - m THEN w[k] ELSE f[k - (l - m)]
    <3>1. /\ w \o f \in Seq(Data) /\ Len(w \o f) = Len(w) + Len(f)
          /\ \A k \in 1 .. Len(w) + Len(f) : (w \o f)[k] = IF k <= Len(w) THEN w[k] ELSE f[k - Len(w)]
      BY <2>3, ConcatProperties
    <3>2. Len(w) = l - m /\ Len(f) = g
      BY <2>3
    <3> QED BY <3>1, <3>2, Zenon
  <2>5. l - m + g = Len(z) - m
    <3> PICK y : y = Len(z)
      OBVIOUS
    <3>1. y = l + g /\ l \in Nat /\ g \in Nat /\ m \in Nat
      BY <2>1
    <3>2. l - m + g = y - m
      BY <3>1
    <3> QED BY <3>2
  <2>6. ASSUME NEW k \in 1 .. Len(z) - m PROVE z[m + k] = (w \o f)[k]
    <3>1. CASE k <= l - m
      <4>1. k \in 1 .. l - m /\ m + k \in 1 .. l + g /\ m + k <= l
        BY <2>1, <3>1
      <4> QED BY <1>1, <2>3, <2>4, <2>5, <4>1
    <3>2. CASE ~(k <= l - m)
      <4> PICK x, y : x = m + k /\ y = k - (l - m)
        OBVIOUS
      <4>1. x \in 1 .. l + g /\ ~(x <= l) /\ x - l = y
        BY <2>1, <3>2
      <4>2. z[x] = f[y]
        BY <1>1, <4>1
      <4>3. (w \o f)[k] = f[y]
        BY <2>4, <2>5, <3>2
      <4> QED BY <4>2, <4>3
    <3> QED BY <3>1, <3>2
  <2> PICK v, c, h : v = SubSeq(z, m + 1, Len(z)) /\ c = w \o f /\ h = Len(z) - m
    OBVIOUS
  <2>7. v \in Seq(Data) /\ Len(v) = h /\ \A k \in 1 .. h : v[k] = z[m + k]
    BY <2>2
  <2>8. c \in Seq(Data) /\ Len(c) = h /\ \A k \in 1 .. h : z[m + k] = c[k]
    BY <2>4, <2>5, <2>6
  <2>9. Len(v) = Len(c) /\ \A k \in 1 .. Len(v) : v[k] = c[k]
    BY <2>7, <2>8, Zenon
  <2>10. v = c
    BY <2>7, <2>8, <2>9, SeqEqual
  <2> QED BY <2>10, Zenon
<1> QED BY <1>2, <1>3

\* Appending changes nothing of what was read of the messages.
LEMMA LongerPrefix ==
  ASSUME NEW ms \in Seq(Nat), NEW n \in Nat, NEW j \in 0 .. Len(ms)
  PROVE  SubSeq(Append(ms, n), 1, j) = SubSeq(ms, 1, j)
<1>1. 1 \in 1 .. Len(ms) + 1 /\ j \in 1 - 1 .. Len(ms)
  BY LenProperties
<1>2. Append(ms, n) = ms \o <<n>> /\ <<n>> \in Seq(Nat)
  BY AppendIsConcat
<1> QED BY <1>1, <1>2, SubSeqOfConcat1

\* More segments to come change nothing for the receiver.
LEMMA HeldLonger ==
  ASSUME NEW buf, NEW queue, NEW s, NEW n, NEW r, NEW t, Held(buf, queue, s, n, r, t),
         NEW f \in Seq(Data), Fits(s \o f)
  PROVE  Held(buf, queue, s \o f, n, r, t)
<1>1. /\ s \in Seq(Data) /\ Len(s) \in Nat /\ Len(f) \in Nat
      /\ n \in 0 .. Len(s) /\ r \in 0 .. n /\ t \in 0 .. r /\ r - t <= RcvWnd
      /\ Window(buf, s, n, r) /\ queue = SubSeq(s, t + 1, r)
  BY LenProperties DEF Held
<1>2. s \o f \in Seq(Data) /\ Len(s \o f) = Len(s) + Len(f)
  BY <1>1, ConcatProperties
<1>3. n \in 0 .. Len(s \o f) /\ t \in 0 .. Len(s) /\ r \in t .. Len(s)
  BY <1>1, <1>2
<1>4. queue = SubSeq(s \o f, t + 1, r)
  BY <1>1, <1>3, LongerSub
<1>5. Window(buf, s \o f, n, r)
  <2>1. \A i \in r .. n - 1 : i \in 0 .. Len(s) - 1
    BY <1>1
  <2>2. \A i \in r .. n - 1 : Seg(s \o f, i) = Seg(s, i)
    BY <1>1, <2>1, LongerSeg
  <2> QED BY <1>1, <2>2, Zenon DEF Window
<1> QED BY <1>1, <1>2, <1>3, <1>4, <1>5, Zenon DEF Held

\* Of the rest of a stream, ikcp_send changes the queue of what is to be numbered.
LEMMA SendKeepsStream ==
  ASSUME Types, NEW p \in Peer, NEW n \in Nat, Send(p, n), NEW q, q = Other(p),
         NEW s, NEW e, NEW nx, NEW u, NEW r, NEW t, Stream(p, q, s, e, nx, u, r, t)
  PROVE  (\E x, d, y, v, w, z : Stream(p, q, x, d, y, v, w, z))'
<1> PICK ms, j, f : ms = sent[p] /\ j = Len(read[p]) /\ f = Fragments(Len(ms) + 1, n)
  OBVIOUS
<1>1. /\ n < RcvWnd /\ Len(ms) < Messages[p] /\ Messages[p] \in Nat
      /\ sent'[p] = Append(ms, n) /\ read'[p] = read[p]
      /\ sndNxt'[p] = sndNxt[p] /\ sndUna'[p] = sndUna[p]
      /\ sndQueue'[p] = sndQueue[p] \o f /\ sndBuf'[p] = sndBuf[p]
      /\ rcvNxt'[q] = rcvNxt[q] /\ rcvBuf'[q] = rcvBuf[q] /\ rcvQueue'[q] = rcvQueue[q]
      /\ ackList'[q] = ackList[q] /\ net' = net
  BY BoundsAssumption DEF Send, Types, OfPeers, Peer, receiving
<1>2. /\ Cut(s, e, ms) /\ ms \in Seq(Nat) /\ s \in Seq(Data) /\ Len(ms) \in Nat /\ Len(s) \in Nat
      /\ j \in 0 .. Len(ms) /\ read[p] = SubSeq(ms, 1, j) /\ t = e[j]
  BY LenProperties DEF Stream, ReadSide, Cut
<1>3. j \in 0 .. Len(ms)
  BY <1>2
<1>4. f \in Seq(Data)
  <2>1. PICK k : k = Len(ms) + 1
    OBVIOUS
  <2>2. k \in Nat
    BY <1>2, <2>1
  <2>3. Fragments(k, n) \in Seq(Data)
    BY <1>1, <2>2, FragmentsAre
  <2> QED BY <2>1, <2>3
<1>5. PICK d : /\ Cut(s \o f, d, Append(ms, n))
               /\ \A m \in 0 .. Len(ms) : d[m] = e[m]
  BY <1>1, <1>2, CutMore
<1> PICK z : z = s \o f
  OBVIOUS
<1>6. Len(Append(ms, n)) = Len(ms) + 1 /\ Len(Append(ms, n)) <= Messages[p]
  BY <1>1, <1>2, AppendProperties
<1>7. Fits(z)
  BY <1>5, <1>6, CutFits
<1>8. ReadSide(p, z, d, t)'
  <2>1. SubSeq(Append(ms, n), 1, j) = SubSeq(ms, 1, j)
    BY <1>2, <1>3, LongerPrefix
  <2>2. j \in 0 .. Len(Append(ms, n)) /\ t = d[j]
    BY <1>2, <1>3, <1>5, <1>6
  <2> QED BY <1>1, <1>2, <1>5, <1>6, <1>7, <2>1, <2>2 DEF ReadSide
<1>9. /\ nx \in 0 .. Len(s) /\ u \in 0 .. nx /\ sndQueue[p] = SubSeq(s, nx + 1, Len(s))
      /\ Held(rcvBuf[q], rcvQueue[q], s, nx, r, t) /\ r \in 0 .. nx
  BY DEF Stream, SendSide, RecvSide, Held
<1>10. \A i \in 0 .. nx - 1 : Seg(z, i) = Seg(s, i) /\ z[i + 1] = s[i + 1]
  <2>1. \A i \in 0 .. nx - 1 : i \in 0 .. Len(s) - 1
    BY <1>2, <1>9
  <2> QED BY <1>2, <1>4, <2>1, LongerSeg
<1>11. /\ \A i \in u .. nx - 1 : i \in 0 .. nx - 1
       /\ \A i \in r .. nx - 1 : i \in 0 .. nx - 1
  BY <1>2, <1>9
<1>12. SendSide(p, z, nx, u)'
  <2>1. sndQueue'[p] = SubSeq(z, nx + 1, Len(z))
    <3>1. SubSeq(z, nx + 1, Len(z)) = SubSeq(s, nx + 1, Len(s)) \o f
      BY <1>2, <1>4, <1>9, LongerSub
    <3> QED BY <1>1, <1>9, <3>1, Zenon
  <2>2. nx \in 0 .. Len(z)
    BY <1>2, <1>4, <1>9, ConcatProperties, LenProperties
  <2>3. \A x \in sndBuf[p] : \E i \in u .. nx - 1 : x = Seg(z, i)
    BY <1>10, <1>11, Zenon DEF Stream, SendSide
  <2> QED BY <1>1, <1>9, <2>1, <2>2, <2>3, Zenon DEF Stream, SendSide
<1>13. RecvSide(q, z, nx, r, t)'
  <2>1. Held(rcvBuf[q], rcvQueue[q], z, nx, r, t)
    BY <1>4, <1>7, <1>9, HeldLonger
  <2> QED BY <1>1, <2>1, Zenon DEF Stream, RecvSide
<1>14. Kept(p, q, z, nx, r)'
  BY <1>1, <1>10, <1>11, Zenon DEF Stream, Kept
<1>15. \A sn : Got(q, s, nx, r, sn) => Got(q, z, nx, r, sn)'
  BY <1>1, <1>10, Zenon DEF Got
<1>16. AckSide(q, z, nx, r)'
  BY <1>1, <1>15, Zenon DEF Stream, AckSide
<1>17. NetSide(p, q, z, nx, r)'
  BY <1>1, <1>10, <1>15, Zenon DEF Stream, NetSide, Carries, Confirms
<1>18. Stream(p, q, z, d, nx, u, r, t)'
  BY <1>8, <1>12, <1>13, <1>14, <1>16, <1>17, Zenon DEF Stream
<1> QED BY <1>18, Zenon

LEMMA SendKeeps ==
  ASSUME KcpInv, NEW p \in Peer, NEW n \in Lengths, Send(p, n)
  PROVE  KcpInv'
<1> PICK q : q = Other(p)
  OBVIOUS
<1>1. q \in Peer /\ q # p /\ Other(q) = p /\ n \in Nat
  BY Two, BoundsAssumption
<1>2. Types'
  BY Zenon DEF KcpInv, Types, OfPeers, Send, receiving
<1>3. PICK s, e, nx, u, r, t : Stream(p, q, s, e, nx, u, r, t)
  BY Zenon DEF KcpInv, Streams
<1>4. PICK s2, e2, nx2, u2, r2, t2 : Stream(q, p, s2, e2, nx2, u2, r2, t2)
  BY <1>1, Zenon DEF KcpInv, Streams
<1>5. (\E x, d, y, v, w, z : Stream(p, q, x, d, y, v, w, z))'
  BY <1>1, <1>3, SendKeepsStream DEF KcpInv
<1>6. Stream(q, p, s2, e2, nx2, u2, r2, t2)'
  <2>1. /\ sent'[q] = sent[q] /\ read'[q] = read[q]
        /\ sndNxt'[q] = sndNxt[q] /\ sndUna'[q] = sndUna[q]
        /\ sndQueue'[q] = sndQueue[q] /\ sndBuf'[q] = sndBuf[q]
        /\ rcvNxt'[p] = rcvNxt[p] /\ rcvBuf'[p] = rcvBuf[p] /\ rcvQueue'[p] = rcvQueue[p]
        /\ ackList'[p] = ackList[p] /\ net' \subseteq net
    BY <1>1 DEF Send, KcpInv, Types, OfPeers, receiving
  <2> QED BY <1>4, <2>1, Untouched
<1>7. Streams'
  BY <1>5, <1>6, BothStreams, Zenon
<1> QED BY <1>2, <1>7 DEF KcpInv

----------------------------------------------------------------------------
\* ikcp_recv or ikcp_parse_data moves k segments, and what is there then.
Moving(q, buf, queue, s, n, r, t, k) ==
  /\ rcvNxt[q] = Num(r) /\ k = Movable(buf, queue, Num(r))
  /\ MovedOn(buf, queue, s, n, r, t, k) /\ MoveReceived(q, buf, queue)
MovesTo(q, buf, queue, r, k) ==
  /\ rcvNxt'[q] = Num(r + k) /\ rcvBuf'[q] = Rest(buf, r + k)
  /\ rcvQueue'[q] = queue \o Moved(buf, Num(r), k)
  /\ \A p \in Peer \ {q} :
       rcvNxt'[p] = rcvNxt[p] /\ rcvBuf'[p] = rcvBuf[p] /\ rcvQueue'[p] = rcvQueue[p]
  /\ OfPeers(rcvNxt)' /\ OfPeers(rcvBuf)' /\ OfPeers(rcvQueue)'

LEMMA MoveIs ==
  ASSUME Types, NEW q \in Peer, NEW buf, NEW queue, NEW s, NEW n, NEW r, NEW t, NEW k,
         Moving(q, buf, queue, s, n, r, t, k)
  PROVE  MovesTo(q, buf, queue, r, k)
<1>1. Plus(Num(r), k) = Num(r + k)
  BY Zenon DEF Moving, MovedOn
<1>2. /\ rcvBuf' = [rcvBuf EXCEPT ![q] = Rest(buf, r + k)]
      /\ rcvQueue' = [rcvQueue EXCEPT ![q] = queue \o Moved(buf, Num(r), k)]
      /\ rcvNxt' = [rcvNxt EXCEPT ![q] = Num(r + k)]
  BY <1>1, Zenon DEF Moving, MoveReceived, Rest
<1> QED BY <1>2, Zenon DEF Types, OfPeers, MovesTo

\* When a receiver takes segments out of its buffer, all it got it has.
LEMMA ReceiverMoves ==
  ASSUME NEW p, NEW q, NEW s, NEW e, NEW n, NEW u, NEW r, NEW t,
         Stream(p, q, s, e, n, u, r, t),
         NEW buf, NEW queue, NEW w, NEW k, MovedOn(buf, queue, s, n, r, w, k),
         rcvBuf[q] \subseteq buf,
         rcvNxt'[q] = Num(r + k), rcvBuf'[q] = Rest(buf, r + k),
         rcvQueue'[q] = queue \o Moved(buf, Num(r), k),
         sndNxt'[p] = sndNxt[p], sndUna'[p] = sndUna[p],
         sndQueue'[p] = sndQueue[p], sndBuf'[p] = sndBuf[p], net' \subseteq net
  PROVE  /\ SendSide(p, s, n, u)' /\ RecvSide(q, s, n, r + k, w)'
         /\ Kept(p, q, s, n, r + k)' /\ NetSide(p, q, s, n, r + k)'
         /\ \A sn : Got(q, s, n, r, sn) => Got(q, s, n, r + k, sn)'
<1> PICK z : z = r + k
  OBVIOUS
<1>1. /\ z \in r .. n /\ Settled(rcvBuf'[q], z, w) /\ Held(rcvBuf'[q], rcvQueue'[q], s, n, z, w)
      /\ \A i \in z .. n - 1 : Seg(s, i) \in buf => Seg(s, i) \in rcvBuf'[q]
  BY Zenon DEF MovedOn
<1>2. r \in Nat /\ n \in Nat /\ z \in Nat /\ r <= z /\ z <= n
  <2>1. n \in Nat /\ r \in Nat
    <3>1. s \in Seq(Data) /\ n \in 0 .. Len(s) /\ r \in 0 .. n
      BY DEF Stream, RecvSide, Held
    <3> QED BY <3>1, LenProperties
  <2> QED BY <1>1, <2>1
<1>3. /\ \A i \in z .. n - 1 : i \in r .. n - 1
      /\ \A i \in 0 .. n - 1 : i < z \/ i \in z .. n - 1
      /\ \A i \in 0 .. n - 1 : i < r => i < z
      /\ \A j \in 0 .. r : j \in 0 .. z
  BY <1>2
<1>4. SendSide(p, s, n, u)'
  BY Zenon DEF Stream, SendSide
<1>5. RecvSide(q, s, n, z, w)'
  BY <1>1, Zenon DEF RecvSide
<1>6. Kept(p, q, s, n, z)'
  <2>1. ASSUME NEW i \in z .. n - 1 PROVE Seg(s, i) \in sndBuf'[p] \cup rcvBuf'[q]
    <3>1. Seg(s, i) \in sndBuf[p] \cup rcvBuf[q]
      BY <1>3, <2>1 DEF Stream, Kept
    <3> QED BY <1>1, <2>1, <3>1
  <2> QED BY <2>1, Zenon DEF Kept
<1>7. ASSUME NEW sn, Got(q, s, n, r, sn) PROVE Got(q, s, n, z, sn)'
  <2>1. PICK i \in 0 .. n - 1 : sn = Num(i) /\ (i < r \/ Seg(s, i) \in rcvBuf[q])
    BY <1>7, Zenon DEF Got
  <2>2. i < z \/ Seg(s, i) \in rcvBuf'[q]
    BY <1>1, <1>3, <2>1
  <2> QED BY <2>1, <2>2, Zenon DEF Got
<1>8. NetSide(p, q, s, n, z)'
  BY <1>3, <1>7, Zenon DEF Stream, NetSide, Carries, Confirms
<1> QED BY <1>4, <1>5, <1>6, <1>7, <1>8, Zenon

\* One more of the messages.
LEMMA OneMore ==
  ASSUME NEW ms \in Seq(Nat), NEW j \in Nat, j < Len(ms)
  PROVE  /\ Append(SubSeq(ms, 1, j), ms[j + 1]) = SubSeq(ms, 1, j + 1)
         /\ Len(SubSeq(ms, 1, j + 1)) = j + 1 /\ Len(SubSeq(ms, 1, j)) = j
<1> PICK l, m : l = Len(ms) /\ m = j + 1
  OBVIOUS
<1>1. l \in Nat /\ m \in Nat /\ m <= l /\ j \in 0 .. l /\ m \in 0 .. l /\ 0 <= j /\ 0 <= m
  BY LenProperties
<1>2. m \in 1 .. l /\ 1 \in 1 .. l /\ m \in 1 .. l /\ m - 1 = j /\ 0 + 1 = 1 /\ j - 0 = j /\ m - 0 = m
  BY <1>1
<1>3. /\ SubSeq(ms, 1, j) \in Seq(Nat) /\ Len(SubSeq(ms, 1, j)) = j
      /\ Len(SubSeq(ms, 1, m)) = m /\ ms[m] \in Nat
  <2>1. SubSeq(ms, 0 + 1, j) \in Seq(Nat) /\ Len(SubSeq(ms, 0 + 1, j)) = j - 0
    BY <1>1, PartOfSeq
  <2>2. Len(SubSeq(ms, 0 + 1, m)) = m - 0
    BY <1>1, PartOfSeq
  <2>3. ms[m] \in Nat
    BY <1>2, ElementOfSeq
  <2> QED BY <1>2, <2>1, <2>2, <2>3
<1>4. SubSeq(ms, 1, m) = SubSeq(ms, 1, m - 1) \o <<ms[m]>>
  BY <1>2, SubSeqRecursiveSecond
<1>5. Append(SubSeq(ms, 1, j), ms[m]) = SubSeq(ms, 1, j) \o <<ms[m]>>
  BY <1>3, AppendIsConcat
<1> QED BY <1>2, <1>3, <1>4, <1>5

\* ikcp_merge of a whole message gives the message.
LEMMA MergedIs ==
  ASSUME NEW p, Len(read[p]) \in Nat, NEW n \in Nat, n < RcvWnd,
         NEW segs, segs = Fragments(Len(read[p]) + 1, n)
  PROVE  Merged(p, segs) = n
<1>1. Len(read[p]) + 1 \in Nat
  OBVIOUS
<1>2. /\ Len(segs) = Pieces(n) /\ segs[1].len = IF n = 0 THEN 0 ELSE 1
  BY <1>1, FragmentsAre
<1>3. (IF segs[1].len = 0 THEN 0 ELSE Len(segs)) = n
  BY <1>2 DEF Pieces
<1> QED BY <1>3, Zenon DEF Merged

\* After a message is read the rest of the queue is still a part of the stream.
LEMMA HeldAfterRead ==
  ASSUME NEW buf, NEW queue, NEW s, NEW n, NEW r, NEW t, Held(buf, queue, s, n, r, t),
         NEW c \in Nat, c <= Len(queue)
  PROVE  /\ t + c \in 0 .. r
         /\ Held(buf, SubSeq(queue, c + 1, Len(queue)), s, n, r, t + c)
<1>1. /\ s \in Seq(Data) /\ Len(s) \in Nat /\ RcvWnd \in Nat
      /\ n \in 0 .. Len(s) /\ r \in 0 .. n /\ t \in 0 .. r /\ r - t <= RcvWnd
      /\ queue = SubSeq(s, t + 1, r) /\ Window(buf, s, n, r) /\ Fits(s)
  BY WindowAssumption, LenProperties DEF Held
<1> PICK d, l : d = t + c /\ l = Len(queue)
  OBVIOUS
<1>2. /\ queue \in Seq(Data) /\ l = r - t /\ \A k \in 1 .. l : queue[k] = s[t + k]
  BY <1>1, PartOfSeq
<1>3. d \in 0 .. r /\ r - d <= RcvWnd /\ d \in Nat /\ d <= r /\ l - c = r - d /\ c \in 0 .. l
  BY <1>1, <1>2
<1> PICK v, w : v = SubSeq(queue, c + 1, l) /\ w = SubSeq(s, d + 1, r)
  OBVIOUS
<1>4. v \in Seq(Data) /\ Len(v) = r - d /\ \A k \in 1 .. r - d : v[k] = queue[c + k]
  <2>1. v \in Seq(Data) /\ Len(v) = l - c /\ \A k \in 1 .. l - c : v[k] = queue[c + k]
    <3>1. l \in 0 .. Len(queue) /\ c <= l /\ queue \in Seq(Data)
      BY <1>2, <1>3
    <3> QED BY <3>1, PartOfSeq
  <2> QED BY <1>3, <2>1
<1>5. w \in Seq(Data) /\ Len(w) = r - d /\ \A k \in 1 .. r - d : w[k] = s[d + k]
  BY <1>1, <1>3, PartOfSeq
<1>6. ASSUME NEW k \in 1 .. r - d PROVE v[k] = w[k]
  <2> PICK x : x = c + k
    OBVIOUS
  <2>1. x \in 1 .. l /\ t + x = d + k
    <3>1. r \in Nat /\ t \in Nat /\ l \in Nat /\ c + (r - d) = l /\ c \in Nat
      BY <1>1, <1>2, <1>3
    <3> QED BY <3>1
  <2>2. queue[x] = s[t + x]
    BY <1>2, <2>1
  <2>3. v[k] = queue[x]
    BY <1>4
  <2>4. w[k] = s[d + k]
    BY <1>5
  <2> QED BY <2>1, <2>2, <2>3, <2>4
<1>7. v = w
  <2>1. Len(v) = Len(w) /\ \A k \in 1 .. Len(v) : v[k] = w[k]
    BY <1>4, <1>5, <1>6
  <2> QED BY <1>4, <1>5, <2>1, SeqEqual
<1>8. Held(buf, v, s, n, r, d)
  BY <1>1, <1>3, <1>7, Zenon DEF Held
<1> QED BY <1>3, <1>8

\* What ikcp_recv finds: the next message, whole, and behind it a part of the stream.
Finds(p, x, s, n, r, t, m, c) ==
  /\ c = FirstMessage(rcvQueue[p]) /\ c = Pieces(m) /\ t + c \in 0 .. r
  /\ Held(rcvBuf[p], SubSeq(rcvQueue[p], c + 1, Len(rcvQueue[p])), s, n, r, t + c)
  /\ Merged(x, SubSeq(rcvQueue[p], 1, c)) = m

LEMMA RecvFinds ==
  ASSUME NEW p, NEW x, NEW s, NEW e, NEW n, NEW u, NEW r, NEW t,
         Stream(x, p, s, e, n, u, r, t), CanPeek(p)
  PROVE  LET j == Len(read[x])  m == sent[x][j + 1] IN
         /\ j \in Nat /\ j < Len(sent[x]) /\ e[j + 1] = t + Pieces(m)
         /\ Finds(p, x, s, n, r, t, m, Pieces(m))
<1>0. PICK j, i, ms, m, queue :
        j = Len(read[x]) /\ i = j + 1 /\ ms = sent[x] /\ m = ms[i] /\ queue = rcvQueue[p]
  OBVIOUS
<1>1. /\ Cut(s, e, ms) /\ ms \in Seq(Nat) /\ s \in Seq(Data) /\ Len(ms) \in Nat /\ Len(s) \in Nat
      /\ j \in 0 .. Len(ms) /\ j \in Nat /\ t = e[j]
      /\ Held(rcvBuf[p], queue, s, n, r, t)
  <2>1. Cut(s, e, ms) /\ t = e[j] /\ j \in 0 .. Len(ms) /\ Held(rcvBuf[p], queue, s, n, r, t)
    BY <1>0 DEF Stream, ReadSide, RecvSide
  <2>2. ms \in Seq(Nat) /\ s \in Seq(Data)
    BY <2>1 DEF Cut
  <2>3. Len(ms) \in Nat /\ Len(s) \in Nat
    BY <2>2, LenProperties
  <2> QED BY <2>1, <2>2, <2>3
<1>2. /\ n \in 0 .. Len(s) /\ r \in 0 .. n /\ t \in 0 .. r
      /\ queue = SubSeq(s, t + 1, r) /\ queue # <<>> /\ Len(queue) >= queue[1].frg + 1
  BY <1>0, <1>1 DEF Held, CanPeek
<1>3. r \in 0 .. Len(s) /\ e[j] <= r
  BY <1>1, <1>2
<1>4. /\ j < Len(ms) /\ i \in Nat /\ Starts(queue, i, m) /\ e[i] = e[j] + Pieces(m)
  <2>1. queue = SubSeq(s, e[j] + 1, r) /\ queue # <<>>
    BY <1>1, <1>2
  <2>2. j < Len(ms) /\ i \in Nat /\ Starts(queue, i, ms[i]) /\ e[i] = e[j] + Pieces(ms[i])
    <3>1. Behind(queue, s, e, ms, j, i, r)
      BY <1>0, <1>1, <1>3, <2>1, Zenon DEF Behind
    <3> QED BY <3>1, StartsWith
  <2> QED BY <1>0, <2>2, Zenon
<1>5. /\ m \in Nat /\ m < RcvWnd /\ queue \in Seq(Data) /\ queue[1].frg + 1 = Pieces(m)
      /\ Len(queue) \in Nat /\ Pieces(m) \in Nat /\ Pieces(m) <= Len(queue)
  <2>1. m \in Nat /\ m < RcvWnd /\ queue \in Seq(Data) /\ queue[1].frg + 1 = Pieces(m)
    BY <1>4, Zenon DEF Starts
  <2>2. Len(queue) \in Nat /\ Pieces(m) \in Nat
    BY <2>1, LenProperties DEF Pieces
  <2> QED BY <1>2, <2>1, <2>2
<1>6. FirstMessage(queue) = Pieces(m) /\ SubSeq(queue, 1, Pieces(m)) = Fragments(i, m)
  <2>1. Len(queue) >= Pieces(m)
    BY <1>5
  <2> QED BY <1>4, <2>1, FirstMessageIs
<1>7. Merged(x, SubSeq(queue, 1, Pieces(m))) = m
  <2>1. SubSeq(queue, 1, Pieces(m)) = Fragments(Len(read[x]) + 1, m) /\ Len(read[x]) \in Nat
    BY <1>0, <1>1, <1>6, Zenon
  <2> QED BY <1>5, <2>1, MergedIs, Zenon
<1>9. /\ t + Pieces(m) \in 0 .. r
      /\ Held(rcvBuf[p], SubSeq(queue, Pieces(m) + 1, Len(queue)), s, n, r, t + Pieces(m))
  BY <1>1, <1>5, HeldAfterRead
<1>10. Finds(p, x, s, n, r, t, m, Pieces(m))
  BY <1>0, <1>6, <1>7, <1>9, Zenon DEF Finds
<1> QED BY <1>0, <1>1, <1>4, <1>10, Zenon

\* ikcp_recv takes the next message, whole, and moves on what it made room for.
LEMMA RecvKeepsStream ==
  ASSUME Types, NEW p \in Peer, Recv(p), NEW x \in Peer, x = Other(p),
         NEW s, NEW e, NEW n, NEW u, NEW r, NEW t, Stream(x, p, s, e, n, u, r, t)
  PROVE  /\ (\E y, d, v, w, z, g : Stream(x, p, y, d, v, w, z, g))'
         /\ read' = [read EXCEPT ![x] = Append(@, sent[x][Len(@) + 1])]
         /\ Len(read[x]) < Len(sent[x])
         /\ OfPeers(rcvNxt)' /\ OfPeers(rcvBuf)' /\ OfPeers(rcvQueue)'
         /\ rcvNxt'[x] = rcvNxt[x] /\ rcvBuf'[x] = rcvBuf[x] /\ rcvQueue'[x] = rcvQueue[x]
<1>0. PICK j, i, ms, m, c, queue :
        /\ j = Len(read[x]) /\ i = j + 1 /\ ms = sent[x] /\ m = ms[i] /\ c = Pieces(m)
        /\ queue = SubSeq(rcvQueue[p], c + 1, Len(rcvQueue[p]))
  OBVIOUS
<1>1. CanPeek(p)
  BY DEF Recv
<1>2. j \in Nat /\ j < Len(ms) /\ e[i] = t + c /\ Finds(p, x, s, n, r, t, m, c)
  BY <1>0, <1>1, RecvFinds
<1>3. PICK k, w : k = Movable(rcvBuf[p], queue, Num(r)) /\ w = t + c
  OBVIOUS
<1>4. MovedOn(rcvBuf[p], queue, s, n, r, w, k)
  <2>1. Held(rcvBuf[p], queue, s, n, r, w)
    BY <1>0, <1>2, <1>3, Zenon DEF Finds
  <2> QED BY <1>3, <2>1, MovingOn
<1>5. rcvNxt[p] = Num(r)
  BY Zenon DEF Stream, RecvSide
<1>6. /\ MoveReceived(p, rcvBuf[p], queue)
      /\ read' = [read EXCEPT ![x] = Append(@, m)]
  <2>1. c = FirstMessage(rcvQueue[p]) /\ Merged(x, SubSeq(rcvQueue[p], 1, c)) = m
    BY <1>2, Zenon DEF Finds
  <2> QED BY <1>0, <2>1, Zenon DEF Recv
<1>7. /\ rcvNxt'[p] = Num(r + k) /\ rcvBuf'[p] = Rest(rcvBuf[p], r + k)
      /\ rcvQueue'[p] = queue \o Moved(rcvBuf[p], Num(r), k)
      /\ \A y \in Peer \ {p} :
           rcvNxt'[y] = rcvNxt[y] /\ rcvBuf'[y] = rcvBuf[y] /\ rcvQueue'[y] = rcvQueue[y]
      /\ OfPeers(rcvNxt)' /\ OfPeers(rcvBuf)' /\ OfPeers(rcvQueue)'
  <2>1. Moving(p, rcvBuf[p], queue, s, n, r, w, k)
    BY <1>3, <1>4, <1>5, <1>6, Zenon DEF Moving
  <2>2. MovesTo(p, rcvBuf[p], queue, r, k)
    BY <2>1, MoveIs
  <2> QED BY <2>2, Zenon DEF MovesTo
<1>8. /\ sndNxt' = sndNxt /\ sndUna' = sndUna /\ sndQueue' = sndQueue /\ sndBuf' = sndBuf
      /\ net' \subseteq net /\ ackList' = ackList /\ sent' = sent
  BY DEF Recv, sending
<1>9. /\ SendSide(x, s, n, u)' /\ RecvSide(p, s, n, r + k, w)'
      /\ Kept(x, p, s, n, r + k)' /\ NetSide(x, p, s, n, r + k)'
      /\ \A sn : Got(p, s, n, r, sn) => Got(p, s, n, r + k, sn)'
  <2>1. /\ sndNxt'[x] = sndNxt[x] /\ sndUna'[x] = sndUna[x] /\ sndQueue'[x] = sndQueue[x]
        /\ sndBuf'[x] = sndBuf[x]
    BY <1>8, Zenon
  <2>2. rcvBuf[p] \subseteq rcvBuf[p]
    OBVIOUS
  <2> QED BY <1>4, <1>7, <1>8, <2>1, <2>2, ReceiverMoves
<1>10. AckSide(p, s, n, r + k)'
  BY <1>8, <1>9, Zenon DEF Stream, AckSide
<1>11. ReadSide(x, s, e, w)'
  <2>1. /\ Cut(s, e, ms) /\ ms \in Seq(Nat) /\ Fits(s) /\ Len(ms) <= Messages[x]
        /\ read[x] = SubSeq(ms, 1, j)
    BY <1>0, Zenon DEF Stream, ReadSide, Cut
  <2>2. read'[x] = Append(read[x], m)
    BY <1>6, Zenon DEF Types, OfPeers
  <2>3. /\ Append(SubSeq(ms, 1, j), ms[j + 1]) = SubSeq(ms, 1, j + 1)
        /\ Len(SubSeq(ms, 1, j + 1)) = j + 1
    BY <1>2, <2>1, OneMore
  <2>4. read'[x] = SubSeq(ms, 1, i) /\ Len(read'[x]) = i
    BY <1>0, <2>1, <2>2, <2>3, Zenon
  <2>5. i \in 0 .. Len(ms)
    <3>1. Len(ms) \in Nat /\ i = j + 1
      BY <1>0, <2>1, LenProperties
    <3> QED BY <1>2, <3>1
  <2>6. sent'[x] = ms /\ w = e[i]
    BY <1>0, <1>2, <1>3, <1>8, Zenon
  <2> QED BY <2>1, <2>4, <2>5, <2>6, Zenon DEF ReadSide
<1>12. Stream(x, p, s, e, n, u, r + k, w)'
  BY <1>9, <1>10, <1>11, Zenon DEF Stream
<1>13. x \in Peer \ {p}
  BY Two
<1> QED BY <1>0, <1>2, <1>6, <1>7, <1>12, <1>13, Zenon

LEMMA RecvKeeps ==
  ASSUME KcpInv, NEW p \in Peer, Recv(p)
  PROVE  KcpInv'
<1>0. PICK x : x = Other(p)
  OBVIOUS
<1>1. x \in Peer /\ x # p /\ Other(x) = p
  BY <1>0, Two
<1>2. PICK s, e, n, u, r, t : Stream(x, p, s, e, n, u, r, t)
  BY <1>1, Zenon DEF KcpInv, Streams
<1>3. PICK s2, e2, n2, u2, r2, t2 : Stream(p, x, s2, e2, n2, u2, r2, t2)
  BY <1>0, Zenon DEF KcpInv, Streams
<1>4. /\ (\E y, d, v, w, z, g : Stream(x, p, y, d, v, w, z, g))'
      /\ read' = [read EXCEPT ![x] = Append(@, sent[x][Len(@) + 1])]
      /\ OfPeers(rcvNxt)' /\ OfPeers(rcvBuf)' /\ OfPeers(rcvQueue)'
      /\ rcvNxt'[x] = rcvNxt[x] /\ rcvBuf'[x] = rcvBuf[x] /\ rcvQueue'[x] = rcvQueue[x]
  <2>1. Types
    BY DEF KcpInv
  <2> QED BY <1>0, <1>1, <1>2, <2>1, RecvKeepsStream
<1>5. /\ sndNxt' = sndNxt /\ sndUna' = sndUna /\ sndQueue' = sndQueue /\ sndBuf' = sndBuf
      /\ rmtWnd' = rmtWnd /\ probing' = probing
      /\ net' = net /\ ackList' = ackList /\ sent' = sent
      /\ \E f : tell' = [tell EXCEPT ![p] = tell[p] \/ f] /\ f \in BOOLEAN
  BY DEF Recv, sending
<1>6. Types'
  <2>1. OfPeers(read)' /\ tell' \in [Peer -> BOOLEAN]
    BY <1>4, <1>5 DEF KcpInv, Types, OfPeers
  <2> QED BY <1>4, <1>5, <2>1, Zenon DEF KcpInv, Types, OfPeers
<1>7. Stream(p, x, s2, e2, n2, u2, r2, t2)'
  <2>1. /\ sent'[p] = sent[p] /\ read'[p] = read[p]
        /\ sndNxt'[p] = sndNxt[p] /\ sndUna'[p] = sndUna[p]
        /\ sndQueue'[p] = sndQueue[p] /\ sndBuf'[p] = sndBuf[p]
        /\ rcvNxt'[x] = rcvNxt[x] /\ rcvBuf'[x] = rcvBuf[x] /\ rcvQueue'[x] = rcvQueue[x]
        /\ ackList'[x] = ackList[x] /\ net' \subseteq net
    BY <1>1, <1>4, <1>5 DEF KcpInv, Types, OfPeers
  <2> QED BY <1>3, <2>1, Untouched
<1>8. Streams'
  BY <1>0, <1>4, <1>7, BothStreams, Zenon
<1> QED BY <1>6, <1>8 DEF KcpInv

----------------------------------------------------------------------------
\* What ikcp_flush hands out tells what the peer has, and carries what it numbered.
LEMMA PacketsAre ==
  ASSUME NEW p, NEW due, NEW probe, NEW m \in Packets(p, due, probe)
  PROVE  /\ m.dst = Other(p) /\ m.una = rcvNxt[p] /\ m.wnd = WndUnused(p)
         /\ m.cmd = "ACK" => \E k \in DOMAIN ackList[p] : m.sn = ackList[p][k]
         /\ m.cmd = "PUSH" => \E x \in due \cup Numbered(p, Sendable(p)) : m.sn = x.sn /\ m.data = x.data
<1>1. \/ \E k \in DOMAIN ackList[p] : m = Packet(p, "ACK", ackList[p][k], NoData)
      \/ m = Packet(p, "WASK", 0, NoData)
      \/ m = Packet(p, "WINS", 0, NoData)
      \/ \E x \in due \cup Numbered(p, Sendable(p)) : m = Packet(p, "PUSH", x.sn, x.data)
  BY DEF Packets
<1>2. CASE \E k \in DOMAIN ackList[p] : m = Packet(p, "ACK", ackList[p][k], NoData)
  BY <1>2 DEF Packet
<1>3. CASE m = Packet(p, "WASK", 0, NoData)
  BY <1>3 DEF Packet
<1>4. CASE m = Packet(p, "WINS", 0, NoData)
  BY <1>4 DEF Packet
<1>5. CASE \E x \in due \cup Numbered(p, Sendable(p)) : m = Packet(p, "PUSH", x.sn, x.data)
  BY <1>5 DEF Packet
<1> QED BY <1>1, <1>2, <1>3, <1>4, <1>5

\* A queue holds all segments from m on.
Suffix(queue, s, m) == s \in Seq(Data) /\ m \in 0 .. Len(s) /\ queue = SubSeq(s, m + 1, Len(s))

Taken(queue, s, m, c, d) == Suffix(queue, s, m) /\ c \in 0 .. Len(queue) /\ d = m + c

LEMMA SuffixOfSuffix ==
  ASSUME NEW s, NEW m, NEW queue, NEW c, NEW d, Taken(queue, s, m, c, d)
  PROVE  /\ Suffix(SubSeq(queue, c + 1, Len(queue)), s, d)
         /\ \A k \in 1 .. c : queue[k] = s[m + k]
         /\ d \in m .. Len(s)
<1>0. PICK l, r : l = Len(queue) /\ r = Len(s)
  OBVIOUS
<1>11. /\ s \in Seq(Data) /\ m \in 0 .. r /\ queue = SubSeq(s, m + 1, r)
       /\ c \in 0 .. l /\ d = m + c
  BY <1>0, Zenon DEF Taken, Suffix
<1>1. r \in Nat /\ m \in Nat /\ m <= r
  BY <1>0, <1>11, LenProperties
<1>2. /\ queue \in Seq(Data) /\ l = r - m /\ \A k \in 1 .. l : queue[k] = s[m + k]
  <2>1. m \in Nat /\ Len(s) \in 0 .. Len(s) /\ m <= Len(s)
    BY <1>0, <1>1
  <2> QED BY <1>0, <1>11, <2>1, PartOfSeq
<1>3. d \in 0 .. r /\ d \in m .. r /\ d \in Nat /\ d <= r /\ l - c = r - d /\ c \in 0 .. l /\ c \in Nat /\ c <= l
  BY <1>1, <1>2, <1>11
<1>4. PICK v, w : v = SubSeq(queue, c + 1, l) /\ w = SubSeq(s, d + 1, r)
  OBVIOUS
<1>5. v \in Seq(Data) /\ Len(v) = r - d /\ \A k \in 1 .. r - d : v[k] = queue[c + k]
  <2>1. v \in Seq(Data) /\ Len(v) = l - c /\ \A k \in 1 .. l - c : v[k] = queue[c + k]
    <3>1. l \in 0 .. Len(queue) /\ c <= l /\ queue \in Seq(Data)
      BY <1>0, <1>2, <1>3
    <3> QED BY <1>3, <1>4, <3>1, PartOfSeq
  <2> QED BY <1>3, <2>1
<1>6. w \in Seq(Data) /\ Len(w) = r - d /\ \A k \in 1 .. r - d : w[k] = s[d + k]
  <2>1. r \in 0 .. Len(s)
    BY <1>0, <1>1
  <2> QED BY <1>3, <1>4, <1>11, <2>1, PartOfSeq
<1>7. ASSUME NEW k \in 1 .. r - d PROVE v[k] = w[k]
  <2>1. PICK x : x = c + k
    OBVIOUS
  <2>2. x \in 1 .. l /\ m + x = d + k
    BY <1>1, <1>2, <1>3, <1>11, <2>1
  <2>3. queue[x] = s[m + x]
    BY <1>2, <2>2
  <2>4. v[k] = queue[x]
    BY <1>5, <2>1
  <2>5. w[k] = s[d + k]
    BY <1>6
  <2> QED BY <2>2, <2>3, <2>4, <2>5
<1>8. v = w
  <2>1. Len(v) = Len(w) /\ \A k \in 1 .. Len(v) : v[k] = w[k]
    BY <1>5, <1>6, <1>7
  <2> QED BY <1>5, <1>6, <2>1, SeqEqual
<1>9. \A k \in 1 .. c : k \in 1 .. l
  BY <1>1, <1>2, <1>3
<1>10. Suffix(SubSeq(queue, c + 1, Len(queue)), s, d)
  BY <1>0, <1>3, <1>4, <1>8, <1>11, Zenon DEF Suffix
<1> QED BY <1>0, <1>2, <1>3, <1>9, <1>10

\* ikcp_flush numbers as many segments as there are and as the window allows.
LEMMA SendableIs ==
  ASSUME Types, NEW p \in Peer, NEW s \in Seq(Data), Fits(s), NEW n, NEW u, SendSide(p, s, n, u)
  PROVE  Sendable(p) \in 0 .. Len(sndQueue[p]) /\ Len(sndQueue[p]) \in Nat
<1>0. PICK w, l, room :
        /\ w = Smaller(SndWnd, rmtWnd[p]) /\ l = Len(sndQueue[p])
        /\ room = Diff(Plus(sndUna[p], w), sndNxt[p])
  OBVIOUS
<1>1. /\ n \in 0 .. Len(s) /\ u \in 0 .. n /\ Len(s) \in Nat /\ SndWnd \in Nat /\ RcvWnd \in Nat
      /\ sndNxt[p] = Num(n) /\ sndUna[p] = Num(u) /\ sndQueue[p] = SubSeq(s, n + 1, Len(s))
  BY WindowAssumption, LenProperties DEF SendSide
<1>2. w \in 0 .. SndWnd
  <2>1. rmtWnd[p] \in 0 .. RcvWnd
    BY DEF Types
  <2> QED BY <1>0, <1>1, <2>1 DEF Smaller
<1>3. u + w \in Near /\ n \in Near /\ u \in Nat /\ w \in Nat
  <2>1. u + w \in Nat /\ u + w <= Len(s) + RcvWnd + SndWnd /\ n \in Nat /\ n <= Len(s) + RcvWnd + SndWnd
    BY <1>1, <1>2
  <2>2. u + w \in Near /\ n \in Near
    BY <2>1, FitsNear
  <2> QED BY <1>1, <1>2, <2>2
<1>4. Plus(Num(u), w) = Num(u + w)
  BY <1>3, NumPlus
<1>5. room = u + w - n
  BY <1>0, <1>1, <1>3, <1>4, NumDiff
<1>6. l \in Nat
  <2>1. n \in Nat /\ Len(s) \in 0 .. Len(s) /\ n <= Len(s)
    BY <1>1
  <2>2. Len(SubSeq(s, n + 1, Len(s))) = Len(s) - n
    BY <2>1, PartOfSeq
  <2> QED BY <1>0, <1>1, <2>1, <2>2
<1>7. Sendable(p) = IF room <= 0 THEN 0 ELSE Smaller(room, l)
  BY <1>0, Zenon DEF Sendable
<1>8. (IF room <= 0 THEN 0 ELSE Smaller(room, l)) \in 0 .. l
  <2>1. room \in Int
    BY <1>1, <1>3, <1>5
  <2> QED BY <1>6, <2>1 DEF Smaller
<1> QED BY <1>0, <1>6, <1>7, <1>8

\* What ikcp_flush changes at its own end and in the network.
LEMMA FlushDoes ==
  ASSUME Types, NEW p \in Peer, NEW q, q = Other(p), NEW due, NEW probe, NEW lost,
         Flush(p, due, probe, lost), NEW k, k = Sendable(p)
  PROVE  /\ net' \subseteq net \cup Packets(p, due, probe)
         /\ ackList'[p] = <<>> /\ ackList'[q] = ackList[q]
         /\ sndQueue'[p] = SubSeq(sndQueue[p], k + 1, Len(sndQueue[p]))
         /\ sndBuf'[p] = sndBuf[p] \cup Numbered(p, k)
         /\ sndNxt'[p] = Plus(sndNxt[p], k)
         /\ sndQueue'[q] = sndQueue[q] /\ sndBuf'[q] = sndBuf[q] /\ sndNxt'[q] = sndNxt[q]
         /\ sndUna' = sndUna /\ rcvNxt' = rcvNxt /\ rcvBuf' = rcvBuf /\ rcvQueue' = rcvQueue
         /\ rmtWnd' = rmtWnd /\ sent' = sent /\ read' = read
         /\ OfPeers(sndQueue)' /\ OfPeers(sndBuf)' /\ OfPeers(sndNxt)'
         /\ ackList' \in [Peer -> Seq(0 .. SeqMod - 1)]
         /\ probing' \in [Peer -> BOOLEAN] /\ tell' \in [Peer -> BOOLEAN]
<1>1. q \in Peer /\ q # p
  BY Two
<1>2. /\ net' \subseteq net \cup Packets(p, due, probe)
      /\ ackList' = [ackList EXCEPT ![p] = <<>>]
      /\ probing' = [probing EXCEPT ![p] = rmtWnd[p] = 0]
      /\ tell' = [tell EXCEPT ![p] = FALSE]
      /\ sndQueue' = [sndQueue EXCEPT ![p] = SubSeq(sndQueue[p], k + 1, Len(sndQueue[p]))]
      /\ sndBuf' = [sndBuf EXCEPT ![p] = sndBuf[p] \cup Numbered(p, k)]
      /\ sndNxt' = [sndNxt EXCEPT ![p] = Plus(sndNxt[p], k)]
      /\ sndUna' = sndUna /\ rcvNxt' = rcvNxt /\ rcvBuf' = rcvBuf /\ rcvQueue' = rcvQueue
      /\ rmtWnd' = rmtWnd /\ sent' = sent /\ read' = read
  BY DEF Flush, receiving
<1>3. (rmtWnd[p] = 0) \in BOOLEAN /\ <<>> \in Seq(0 .. SeqMod - 1)
  BY EmptySeq
<1>4. OfPeers(sndQueue)' /\ OfPeers(sndBuf)' /\ OfPeers(sndNxt)'
  BY <1>2 DEF Types, OfPeers
<1>5. ackList' \in [Peer -> Seq(0 .. SeqMod - 1)]
  BY <1>2, <1>3 DEF Types
<1>6. probing' \in [Peer -> BOOLEAN] /\ tell' \in [Peer -> BOOLEAN]
  BY <1>2, <1>3, Zenon DEF Types
<1>7. /\ ackList'[p] = <<>> /\ ackList'[q] = ackList[q]
      /\ sndQueue'[p] = SubSeq(sndQueue[p], k + 1, Len(sndQueue[p]))
      /\ sndBuf'[p] = sndBuf[p] \cup Numbered(p, k)
      /\ sndNxt'[p] = Plus(sndNxt[p], k)
      /\ sndQueue'[q] = sndQueue[q] /\ sndBuf'[q] = sndBuf[q] /\ sndNxt'[q] = sndNxt[q]
  BY <1>1, <1>2 DEF Types, OfPeers
<1> QED BY <1>2, <1>4, <1>5, <1>6, <1>7, Zenon

NumbersNext(p, s, n, k, m) ==
  /\ m \in n .. Len(s) /\ n \in Nat /\ Plus(sndNxt[p], k) = Num(m)
  /\ \A i \in n .. m - 1 : Seg(s, i) \in Numbered(p, k)
  /\ \A x \in Numbered(p, k) : \E i \in n .. m - 1 : x = Seg(s, i)
  /\ SubSeq(sndQueue[p], k + 1, Len(sndQueue[p])) = SubSeq(s, m + 1, Len(s))

\* What is numbered is the next part of the stream.
\* Segments n to m - 1 are about to be numbered.
Numbering(p, s, n, u, k, m) ==
  s \in Seq(Data) /\ Fits(s) /\ SendSide(p, s, n, u) /\ k = Sendable(p) /\ m = n + k

LEMMA NumberedAre ==
  ASSUME Types, NEW p \in Peer, NEW s, NEW n, NEW u, NEW k, NEW m, Numbering(p, s, n, u, k, m)
  PROVE  NumbersNext(p, s, n, k, m)
<1>0. s \in Seq(Data) /\ Fits(s) /\ SendSide(p, s, n, u) /\ k = Sendable(p) /\ m = n + k
  BY Zenon DEF Numbering
<1>1. /\ n \in 0 .. Len(s) /\ Len(s) \in Nat /\ n \in Nat /\ SndWnd \in Nat /\ RcvWnd \in Nat
      /\ sndNxt[p] = Num(n) /\ sndQueue[p] = SubSeq(s, n + 1, Len(s))
  BY <1>0, WindowAssumption, LenProperties DEF SendSide
<1>2. k \in 0 .. Len(sndQueue[p]) /\ Len(sndQueue[p]) \in Nat
  BY <1>0, SendableIs
<1>3. /\ SubSeq(sndQueue[p], k + 1, Len(sndQueue[p])) = SubSeq(s, m + 1, Len(s))
      /\ \A j \in 1 .. k : sndQueue[p][j] = s[n + j]
      /\ m \in n .. Len(s)
  <2>1. Taken(sndQueue[p], s, n, k, m)
    BY <1>0, <1>1, <1>2, Zenon DEF Suffix, Taken
  <2>2. /\ Suffix(SubSeq(sndQueue[p], k + 1, Len(sndQueue[p])), s, m)
        /\ \A j \in 1 .. k : sndQueue[p][j] = s[n + j]
        /\ m \in n .. Len(s)
    BY <2>1, SuffixOfSuffix, Zenon
  <2> QED BY <2>2, Zenon DEF Suffix
<1>4. k \in Nat
  BY <1>2
<1>5. ASSUME NEW j \in 0 .. k PROVE Plus(sndNxt[p], j) = Num(n + j)
  <2>1. j \in Nat /\ n + j \in Nat /\ n + j <= Len(s) + RcvWnd + SndWnd
    <3>1. j \in Nat /\ j <= k /\ m \in Nat /\ m <= Len(s) /\ m = n + k
      BY <1>0, <1>1, <1>3, <1>4
    <3> QED BY <1>1, <1>4, <3>1
  <2>2. n + j \in Near
    BY <1>0, <2>1, FitsNear
  <2> QED BY <1>1, <2>1, <2>2, NumPlus
<1>6. ASSUME NEW j \in 1 .. k, NEW i, i = n + j - 1
      PROVE  [sn |-> Plus(sndNxt[p], j - 1), data |-> sndQueue[p][j]] = Seg(s, i)
  <2>1. j - 1 \in 0 .. k /\ n + (j - 1) = i /\ i + 1 = n + j
    BY <1>1, <1>4, <1>6
  <2>2. Plus(sndNxt[p], j - 1) = Num(i)
    BY <1>5, <2>1
  <2>3. sndQueue[p][j] = s[i + 1]
    BY <1>3, <2>1
  <2> QED BY <2>2, <2>3, Zenon DEF Seg
<1>7. ASSUME NEW i \in n .. m - 1 PROVE Seg(s, i) \in Numbered(p, k)
  <2>1. PICK j : j = i - n + 1
    OBVIOUS
  <2>2. j \in 1 .. k /\ i = n + j - 1
    BY <1>0, <1>1, <1>4, <2>1
  <2>3. Seg(s, i) = [sn |-> Plus(sndNxt[p], j - 1), data |-> sndQueue[p][j]]
    BY <1>6, <2>2
  <2> QED BY <2>2, <2>3, Zenon DEF Numbered
<1>8. ASSUME NEW x \in Numbered(p, k) PROVE \E i \in n .. m - 1 : x = Seg(s, i)
  <2>1. PICK j \in 1 .. k : x = [sn |-> Plus(sndNxt[p], j - 1), data |-> sndQueue[p][j]]
    BY DEF Numbered
  <2>2. PICK i : i = n + j - 1
    OBVIOUS
  <2>3. i \in n .. m - 1
    BY <1>0, <1>1, <1>4, <2>2
  <2> QED BY <1>6, <2>1, <2>2, <2>3
<1>9. Plus(sndNxt[p], k) = Num(m)
  <2>1. k \in 0 .. k
    BY <1>4
  <2> QED BY <1>0, <1>5, <2>1
<1> QED BY <1>1, <1>3, <1>7, <1>8, <1>9, Zenon DEF NumbersNext

\* The stream that the peer sends: some of its segments are numbered and handed out.
LEMMA FlushKeepsSending ==
  ASSUME Types, NEW p \in Peer, NEW q, q = Other(p),
         NEW due, due \subseteq sndBuf[p], NEW probe, NEW lost, Flush(p, due, probe, lost),
         NEW s, NEW e, NEW n, NEW u, NEW r, NEW t, Stream(p, q, s, e, n, u, r, t)
  PROVE  (\E x, d, y, v, w, z : Stream(p, q, x, d, y, v, w, z))'
<1>0. PICK k, m : k = Sendable(p) /\ m = n + k
  OBVIOUS
<1>1. /\ s \in Seq(Data) /\ Fits(s) /\ SendSide(p, s, n, u)
      /\ Held(rcvBuf[q], rcvQueue[q], s, n, r, t)
  BY Zenon DEF Stream, RecvSide, Held
<1>2. /\ m \in n .. Len(s) /\ n \in Nat /\ Plus(sndNxt[p], k) = Num(m)
      /\ \A i \in n .. m - 1 : Seg(s, i) \in Numbered(p, k)
      /\ \A x \in Numbered(p, k) : \E i \in n .. m - 1 : x = Seg(s, i)
      /\ SubSeq(sndQueue[p], k + 1, Len(sndQueue[p])) = SubSeq(s, m + 1, Len(s))
  <2>1. Numbering(p, s, n, u, k, m)
    BY <1>0, <1>1, Zenon DEF Numbering
  <2>2. NumbersNext(p, s, n, k, m)
    BY <2>1, NumberedAre
  <2> QED BY <2>2, Zenon DEF NumbersNext
<1>3. /\ Len(s) \in Nat /\ n \in 0 .. Len(s) /\ u \in 0 .. n /\ r \in 0 .. n
      /\ t \in 0 .. r /\ r - t <= RcvWnd /\ m \in Nat /\ n <= m /\ m <= Len(s)
      /\ u \in Nat /\ r \in Nat
  <2>1. /\ Len(s) \in Nat /\ n \in 0 .. Len(s) /\ u \in 0 .. n /\ r \in 0 .. n
        /\ t \in 0 .. r /\ r - t <= RcvWnd
    BY <1>1, LenProperties DEF Held, SendSide
  <2> QED BY <1>2, <2>1
<1>4. /\ m \in 0 .. Len(s) /\ u \in 0 .. m /\ r \in 0 .. m
      /\ \A i \in u .. n - 1 : i \in u .. m - 1
      /\ \A i \in n .. m - 1 : i \in u .. m - 1
      /\ \A i \in r .. n - 1 : i \in r .. m - 1
      /\ \A i \in r .. m - 1 : i \in r .. n - 1 \/ i \in n .. m - 1
      /\ \A i \in 0 .. n - 1 : i \in 0 .. m - 1
      /\ \A i \in u .. m - 1 : i \in 0 .. m - 1
  BY <1>3
<1>5. /\ net' \subseteq net \cup Packets(p, due, probe)
      /\ ackList'[q] = ackList[q]
      /\ sndQueue'[p] = SubSeq(s, m + 1, Len(s))
      /\ sndBuf'[p] = sndBuf[p] \cup Numbered(p, k)
      /\ sndNxt'[p] = Num(m)
      /\ sndUna' = sndUna /\ rcvNxt' = rcvNxt /\ rcvBuf' = rcvBuf /\ rcvQueue' = rcvQueue
      /\ sent' = sent /\ read' = read
  BY <1>0, <1>2, FlushDoes
<1>6. ReadSide(p, s, e, t)'
  BY <1>5, Zenon DEF Stream, ReadSide
<1>7. \A x \in sndBuf[p] \cup Numbered(p, k) : \E i \in u .. m - 1 : x = Seg(s, i)
  BY <1>1, <1>2, <1>4, Zenon DEF SendSide
<1>8. SendSide(p, s, m, u)'
  BY <1>1, <1>4, <1>5, <1>7, Zenon DEF SendSide
<1>9. RecvSide(q, s, m, r, t)'
  <2>1. Window(rcvBuf[q], s, m, r)
    BY <1>1, <1>4, Zenon DEF Held, Window
  <2>2. Held(rcvBuf[q], rcvQueue[q], s, m, r, t)
    BY <1>1, <1>4, <2>1, Zenon DEF Held
  <2> QED BY <1>5, <2>2, Zenon DEF Stream, RecvSide
<1>10. Kept(p, q, s, m, r)'
  <2>1. ASSUME NEW i \in r .. m - 1 PROVE Seg(s, i) \in sndBuf'[p] \cup rcvBuf'[q]
    <3>1. CASE i \in r .. n - 1
      BY <1>5, <3>1 DEF Stream, Kept
    <3>2. CASE i \in n .. m - 1
      BY <1>2, <1>5, <3>2
    <3> QED BY <1>4, <3>1, <3>2
  <2> QED BY <2>1, Zenon DEF Kept
<1>11. \A sn : Got(q, s, n, r, sn) => Got(q, s, m, r, sn)'
  BY <1>4, <1>5, Zenon DEF Got
<1>12. AckSide(q, s, m, r)'
  BY <1>5, <1>11, Zenon DEF Stream, AckSide
<1>13. NetSide(p, q, s, m, r)'
  <2>1. ASSUME NEW x \in net
        PROVE  /\ x.dst = q => Carries(x, s, m)'
               /\ x.dst = p => Confirms(x, q, s, m, r)'
    BY <1>4, <1>5, <1>11, Zenon DEF Stream, NetSide, Carries, Confirms
  <2>2. ASSUME NEW x \in Packets(p, due, probe)
        PROVE  x.dst = q /\ Carries(x, s, m)'
    <3>1. /\ x.dst = q
          /\ x.cmd = "PUSH" => \E y \in due \cup Numbered(p, k) : x.sn = y.sn /\ x.data = y.data
      BY <1>0, PacketsAre
    <3>2. ASSUME x.cmd = "PUSH" PROVE \E i \in 0 .. m - 1 : x.sn = Num(i) /\ x.data = s[i + 1]
      <4>1. PICK y \in sndBuf[p] \cup Numbered(p, k) : x.sn = y.sn /\ x.data = y.data
        BY <3>1, <3>2
      <4>2. PICK i \in u .. m - 1 : y = Seg(s, i)
        BY <1>7
      <4>3. x.sn = Num(i) /\ x.data = s[i + 1]
        BY <4>1, <4>2 DEF Seg
      <4> QED BY <1>4, <4>3
    <3> QED BY <3>1, <3>2, Zenon DEF Carries
  <2>3. p # q
    BY Two
  <2>4. \A x \in net' : x \in net \/ x \in Packets(p, due, probe)
    BY <1>5
  <2> QED BY <2>1, <2>2, <2>3, <2>4, Zenon DEF NetSide
<1>14. Stream(p, q, s, e, m, u, r, t)'
  BY <1>6, <1>8, <1>9, <1>10, <1>12, <1>13, Zenon DEF Stream
<1> QED BY <1>14, Zenon

\* The stream that the peer receives: what it handed out tells what it got.
LEMMA FlushKeepsReceiving ==
  ASSUME Types, NEW p \in Peer, NEW q, q = Other(p),
         NEW due, NEW probe, NEW lost, Flush(p, due, probe, lost),
         NEW s, NEW e, NEW n, NEW u, NEW r, NEW t, Stream(q, p, s, e, n, u, r, t)
  PROVE  Stream(q, p, s, e, n, u, r, t)'
<1>1. /\ net' \subseteq net \cup Packets(p, due, probe)
      /\ ackList'[p] = <<>>
      /\ sndQueue'[q] = sndQueue[q] /\ sndBuf'[q] = sndBuf[q] /\ sndNxt'[q] = sndNxt[q]
      /\ sndUna' = sndUna /\ rcvNxt' = rcvNxt /\ rcvBuf' = rcvBuf /\ rcvQueue' = rcvQueue
      /\ sent' = sent /\ read' = read
  <2>1. PICK k : k = Sendable(p)
    OBVIOUS
  <2> QED BY <2>1, FlushDoes
<1>2. /\ ReadSide(q, s, e, t)' /\ SendSide(q, s, n, u)' /\ RecvSide(p, s, n, r, t)' /\ Kept(q, p, s, n, r)'
      /\ \A sn : Got(p, s, n, r, sn) => Got(p, s, n, r, sn)'
  BY <1>1, Zenon DEF Stream, ReadSide, SendSide, RecvSide, Kept, Got
<1>3. AckSide(p, s, n, r)'
  <2>1. DOMAIN <<>> = {}
    OBVIOUS
  <2> QED BY <1>1, <2>1, Zenon DEF AckSide
<1>4. NetSide(q, p, s, n, r)'
  <2>1. ASSUME NEW x \in net
        PROVE  /\ x.dst = p => Carries(x, s, n)'
               /\ x.dst = q => Confirms(x, p, s, n, r)'
    BY <1>1, <1>2, Zenon DEF Stream, NetSide, Carries, Confirms
  <2>2. ASSUME NEW x \in Packets(p, due, probe)
        PROVE  x.dst = q /\ Confirms(x, p, s, n, r)'
    <3>1. /\ x.dst = q /\ x.una = rcvNxt[p]
          /\ x.cmd = "ACK" => \E k \in DOMAIN ackList[p] : x.sn = ackList[p][k]
      BY PacketsAre
    <3>2. x.una = Num(r) /\ r \in 0 .. r
      <4>1. s \in Seq(Data) /\ n \in 0 .. Len(s) /\ r \in 0 .. n /\ rcvNxt[p] = Num(r)
        BY DEF Stream, RecvSide, Held
      <4>2. Len(s) \in Nat
        BY <4>1, LenProperties
      <4> QED BY <3>1, <4>1, <4>2
    <3>3. x.cmd = "ACK" => Got(p, s, n, r, x.sn)'
      BY <1>2, <3>1, Zenon DEF Stream, AckSide
    <3> QED BY <3>1, <3>2, <3>3, Zenon DEF Confirms
  <2>3. p # q
    BY Two
  <2>4. \A x \in net' : x \in net \/ x \in Packets(p, due, probe)
    BY <1>1
  <2>5. ASSUME NEW x \in net'
        PROVE  /\ x.dst = p => Carries(x, s, n)'
               /\ x.dst = q => Confirms(x, p, s, n, r)'
    <3>1. CASE x \in net
      BY <2>1, <3>1
    <3>2. CASE x \in Packets(p, due, probe)
      BY <2>2, <2>3, <3>2
    <3> QED BY <2>4, <3>1, <3>2
  <2> QED BY <2>5, Zenon DEF NetSide
<1> QED BY <1>2, <1>3, <1>4, Zenon DEF Stream

\* The window that is told is one.
LEMMA WndUnusedIs ==
  ASSUME NEW p, Len(rcvQueue[p]) \in Nat
  PROVE  WndUnused(p) \in 0 .. RcvWnd
BY WindowAssumption DEF WndUnused

LEMMA HeldLen ==
  ASSUME NEW buf, NEW queue, NEW s, NEW n, NEW r, NEW t, Held(buf, queue, s, n, r, t)
  PROVE  /\ queue \in Seq(Data) /\ Len(queue) = r - t /\ Len(queue) \in 0 .. RcvWnd
         /\ Len(queue) \in Nat
         /\ n \in Nat /\ r \in Nat /\ t \in Nat /\ r <= n /\ n <= Len(s) /\ Len(s) \in Nat
<1>1. /\ s \in Seq(Data) /\ Len(s) \in Nat /\ RcvWnd \in Nat
      /\ n \in 0 .. Len(s) /\ r \in 0 .. n /\ t \in 0 .. r /\ r - t <= RcvWnd
      /\ queue = SubSeq(s, t + 1, r)
  BY WindowAssumption, LenProperties DEF Held
<1>2. t \in Nat /\ r \in 0 .. Len(s) /\ t <= r
  BY <1>1
<1>3. queue \in Seq(Data) /\ Len(queue) = r - t
  BY <1>1, <1>2, PartOfSeq
<1> QED BY <1>1, <1>2, <1>3

LEMMA FlushKeeps ==
  ASSUME KcpInv, NEW p \in Peer, NEW due, due \subseteq sndBuf[p], NEW probe, NEW lost,
         Flush(p, due, probe, lost)
  PROVE  KcpInv'
<1>0. PICK q : q = Other(p)
  OBVIOUS
<1>1. q \in Peer /\ q # p /\ Other(q) = p
  BY <1>0, Two
<1>2. PICK s, e, n, u, r, t : Stream(p, q, s, e, n, u, r, t)
  BY <1>0, Zenon DEF KcpInv, Streams
<1>3. PICK s2, e2, n2, u2, r2, t2 : Stream(q, p, s2, e2, n2, u2, r2, t2)
  BY <1>1, Zenon DEF KcpInv, Streams
<1>4. Types
  BY DEF KcpInv
<1>5. (\E x, d, y, v, w, z : Stream(p, q, x, d, y, v, w, z))'
  BY <1>0, <1>2, <1>4, FlushKeepsSending
<1>6. Stream(q, p, s2, e2, n2, u2, r2, t2)'
  BY <1>0, <1>3, <1>4, FlushKeepsReceiving
<1>7. Streams'
  BY <1>0, <1>5, <1>6, BothStreams, Zenon
<1>8. Types'
  <2>1. /\ net' \subseteq net \cup Packets(p, due, probe)
        /\ sndUna' = sndUna /\ rcvNxt' = rcvNxt /\ rcvBuf' = rcvBuf /\ rcvQueue' = rcvQueue
        /\ rmtWnd' = rmtWnd /\ sent' = sent /\ read' = read
        /\ OfPeers(sndQueue)' /\ OfPeers(sndBuf)' /\ OfPeers(sndNxt)'
        /\ ackList' \in [Peer -> Seq(0 .. SeqMod - 1)]
        /\ probing' \in [Peer -> BOOLEAN] /\ tell' \in [Peer -> BOOLEAN]
    <3>1. PICK k : k = Sendable(p)
      OBVIOUS
    <3> QED BY <1>0, <1>4, <3>1, FlushDoes
  <2>2. ASSUME NEW x \in Packets(p, due, probe) PROVE x.dst \in Peer /\ x.wnd \in 0 .. RcvWnd
    <3>1. x.dst = q /\ x.wnd = WndUnused(p)
      BY <1>0, PacketsAre
    <3>2. Len(rcvQueue[p]) \in Nat
      <4>1. Held(rcvBuf[p], rcvQueue[p], s2, n2, r2, t2)
        BY <1>3, Zenon DEF Stream, RecvSide
      <4> QED BY <4>1, HeldLen
    <3> QED BY <1>1, <3>1, <3>2, WndUnusedIs
  <2>3. \A x \in net' : x.dst \in Peer /\ x.wnd \in 0 .. RcvWnd
    BY <1>4, <2>1, <2>2 DEF Types
  <2> QED BY <1>4, <2>1, <2>3, Zenon DEF Types, OfPeers
<1> QED BY <1>7, <1>8 DEF KcpInv

----------------------------------------------------------------------------
\* What is left of segments u to n - 1 when some are acknowledged.
Left(buf, p, s, n, u) ==
  /\ s \in Seq(Data) /\ Fits(s) /\ n \in 0 .. Len(s) /\ u \in 0 .. n /\ sndNxt[p] = Num(n)
  /\ \A x \in buf : \E i \in u .. n - 1 : x = Seg(s, i)

\* ikcp_shrink_buf: the first segment that is left.
LEMMA FirstLeft ==
  ASSUME NEW p, NEW s, NEW n, NEW u, NEW buf, Left(buf, p, s, n, u)
  PROVE  \E l \in 0 .. n : /\ FirstUnacknowledged(p, buf) = Num(l)
                           /\ \A x \in buf : \E i \in l .. n - 1 : x = Seg(s, i)
<1>0. /\ s \in Seq(Data) /\ Fits(s) /\ n \in 0 .. Len(s) /\ u \in 0 .. n /\ sndNxt[p] = Num(n)
      /\ \A x \in buf : \E i \in u .. n - 1 : x = Seg(s, i)
  BY Zenon DEF Left
<1>1. Len(s) \in Nat /\ n \in Nat /\ u \in Nat /\ RcvWnd \in Nat /\ SndWnd \in Nat /\ n <= Len(s)
  BY <1>0, WindowAssumption, LenProperties
<1>2. \A i \in u .. n - 1 : i \in Near
  <2>1. ASSUME NEW i \in u .. n - 1 PROVE i \in Near
    <3>1. i \in Nat /\ i <= Len(s) + RcvWnd + SndWnd
      BY <1>1
    <3> QED BY <1>0, <3>1, FitsNear
  <2> QED BY <2>1
<1>3. CASE buf = {}
  <2>1. FirstUnacknowledged(p, buf) = Num(n) /\ n \in 0 .. n
    BY <1>0, <1>1, <1>3 DEF FirstUnacknowledged
  <2> QED BY <1>3, <2>1
<1>4. CASE buf # {}
  <2>1. PICK X : X = {i \in u .. n - 1 : Seg(s, i) \in buf}
    OBVIOUS
  <2>2. X \subseteq Nat /\ X # {}
    <3>1. PICK x \in buf : TRUE
      BY <1>4
    <3>2. PICK i \in u .. n - 1 : x = Seg(s, i)
      BY <1>0, <3>1
    <3>3. i \in X
      BY <2>1, <3>1, <3>2
    <3> QED BY <1>1, <2>1, <3>3
  <2>3. PICK l \in X : \A i \in X : l <= i
    BY <2>2, LeastNatural
  <2>4. l \in u .. n - 1 /\ Seg(s, l) \in buf /\ l \in Nat
    BY <1>0, <1>1, <2>1, <2>3
  <2>5. ASSUME NEW x \in buf PROVE \E i \in l .. n - 1 : x = Seg(s, i) /\ i \in u .. n - 1
    <3>1. PICK i \in u .. n - 1 : x = Seg(s, i)
      BY <1>0, <2>5
    <3>2. i \in X
      BY <2>1, <3>1
    <3>3. i \in l .. n - 1
      BY <1>1, <2>3, <2>4, <3>2
    <3> QED BY <3>1, <3>3
  <2>6. ASSUME NEW i \in u .. n - 1, NEW j \in u .. n - 1
        PROVE  Diff(Seg(s, i).sn, Seg(s, j).sn) = i - j
    <3>1. i \in Near /\ j \in Near
      BY <1>2
    <3>2. Seg(s, i).sn = Num(i) /\ Seg(s, j).sn = Num(j)
      BY DEF Seg
    <3> QED BY <3>1, <3>2, NumDiff
  <2> DEFINE First(x) == \A y \in buf : Diff(x.sn, y.sn) <= 0
  <2>7. First(Seg(s, l))
    <3>1. ASSUME NEW y \in buf PROVE Diff(Seg(s, l).sn, y.sn) <= 0
      <4>1. PICK i \in l .. n - 1 : y = Seg(s, i) /\ i \in u .. n - 1
        BY <2>5
      <4>2. Diff(Seg(s, l).sn, Seg(s, i).sn) = l - i
        BY <2>4, <2>6, <4>1
      <4>3. l - i <= 0
        BY <1>1, <2>4, <4>1
      <4> QED BY <4>1, <4>2, <4>3
    <3> QED BY <3>1
  <2>8. PICK x : x = CHOOSE y \in buf : First(y)
    OBVIOUS
  <2>9. x \in buf /\ First(x)
    <3> HIDE DEF First
    <3> QED BY <2>4, <2>7, <2>8
  <2>10. x = Seg(s, l)
    <3>1. PICK i \in l .. n - 1 : x = Seg(s, i) /\ i \in u .. n - 1
      BY <2>5, <2>9
    <3>2. Diff(Seg(s, i).sn, Seg(s, l).sn) <= 0
      BY <2>4, <2>9, <3>1
    <3>3. i - l <= 0
      BY <2>4, <2>6, <3>1, <3>2
    <3>4. i = l
      BY <1>1, <2>4, <3>1, <3>3
    <3> QED BY <3>1, <3>4
  <2>11. FirstUnacknowledged(p, buf) = Num(l)
    <3>1. FirstUnacknowledged(p, buf) = x.sn
      BY <1>4, <2>8, Zenon DEF FirstUnacknowledged
    <3> QED BY <2>10, <3>1 DEF Seg
  <2>12. l \in 0 .. n
    BY <1>1, <2>4
  <2> QED BY <2>5, <2>11, <2>12
<1> QED BY <1>3, <1>4

\* The end that sends forgets only what the other end has.
LEMMA AcknowledgeKeeps ==
  ASSUME Types, NEW p \in Peer, NEW q \in Peer, p # q, NEW m \in net, m.dst = p,
         InputAcknowledges(p, m), net' \subseteq net,
         rcvNxt'[q] = rcvNxt[q], rcvBuf'[q] = rcvBuf[q], rcvQueue'[q] = rcvQueue[q],
         ackList'[q] = ackList[q],
         NEW s, NEW e, NEW n, NEW u, NEW r, NEW t, Stream(p, q, s, e, n, u, r, t)
  PROVE  (\E x, d, y, v, w, z : Stream(p, q, x, d, y, v, w, z))'
<1>1. /\ s \in Seq(Data) /\ Fits(s) /\ n \in 0 .. Len(s) /\ u \in 0 .. n /\ r \in 0 .. n
      /\ sndNxt[p] = Num(n) /\ Len(s) \in Nat /\ RcvWnd \in Nat /\ SndWnd \in Nat
      /\ \A x \in sndBuf[p] : \E i \in u .. n - 1 : x = Seg(s, i)
      /\ n \in Nat /\ r \in Nat /\ r <= n /\ n <= Len(s)
  <2>1. /\ s \in Seq(Data) /\ Fits(s) /\ n \in 0 .. Len(s) /\ u \in 0 .. n /\ r \in 0 .. n
        /\ sndNxt[p] = Num(n)
        /\ \A x \in sndBuf[p] : \E i \in u .. n - 1 : x = Seg(s, i)
    BY Zenon DEF Stream, SendSide, RecvSide, Held
  <2>2. Len(s) \in Nat /\ RcvWnd \in Nat /\ SndWnd \in Nat
    BY <2>1, WindowAssumption, LenProperties
  <2>3. n \in Nat /\ r \in Nat /\ r <= n /\ n <= Len(s)
    BY <2>1, <2>2
  <2> QED BY <2>1, <2>2, <2>3, Zenon
<1>2. PICK buf : buf = Unacknowledged(p, m)
  OBVIOUS
<1>3. /\ sndBuf' = [sndBuf EXCEPT ![p] = buf]
      /\ sndUna' = [sndUna EXCEPT ![p] = FirstUnacknowledged(p, buf)]
      /\ sndQueue' = sndQueue /\ sndNxt' = sndNxt /\ sent' = sent /\ read' = read
  <2>1. sndBuf' = [sndBuf EXCEPT ![p] = buf] /\ sndBuf'[p] = buf
    BY <1>2, Zenon DEF InputAcknowledges, Types, OfPeers
  <2> QED BY <2>1 DEF InputAcknowledges
<1>4. sndBuf'[p] = buf /\ sndUna'[p] = FirstUnacknowledged(p, buf)
  BY <1>3 DEF Types, OfPeers
<1>5. buf \subseteq sndBuf[p]
  BY <1>2 DEF Unacknowledged
<1>6. PICK l \in 0 .. n : /\ FirstUnacknowledged(p, buf) = Num(l)
                          /\ \A x \in buf : \E i \in l .. n - 1 : x = Seg(s, i)
  <2>1. \A x \in buf : \E i \in u .. n - 1 : x = Seg(s, i)
    BY <1>1, <1>5
  <2>2. Left(buf, p, s, n, u)
    BY <1>1, <2>1, Zenon DEF Left
  <2> QED BY <2>2, FirstLeft
<1>7. SendSide(p, s, n, l)'
  <2>1. sndQueue[p] = SubSeq(s, n + 1, Len(s))
    BY DEF Stream, SendSide
  <2> QED BY <1>1, <1>3, <1>4, <1>6, <2>1, Zenon DEF SendSide
<1>8. Confirms(m, q, s, n, r)
  BY Zenon DEF Stream, NetSide
<1>9. Kept(p, q, s, n, r)'
  <2>1. ASSUME NEW i \in r .. n - 1 PROVE Seg(s, i) \in buf \cup rcvBuf[q]
    <3>1. Seg(s, i) \in sndBuf[p] \cup rcvBuf[q] /\ Seg(s, i).sn = Num(i)
      BY Zenon DEF Stream, Kept, Seg
    <3>2. i \in Near /\ i \in Nat
      <4>1. i \in Nat /\ i <= Len(s) + RcvWnd + SndWnd
        BY <1>1
      <4> QED BY <1>1, <4>1, FitsNear
    <3>3. Diff(m.una, Num(i)) <= 0
      <4>1. PICK j \in 0 .. r : m.una = Num(j)
        BY <1>8, Zenon DEF Confirms
      <4>2. j \in Nat /\ j <= Len(s) + RcvWnd + SndWnd /\ j <= i
        BY <1>1, <3>2
      <4>3. j \in Near
        BY <1>1, <4>2, FitsNear
      <4>4. Diff(m.una, Num(i)) = j - i
        BY <3>2, <4>1, <4>3, NumDiff
      <4> QED BY <3>2, <4>2, <4>4
    <3>4. CASE m.cmd = "ACK" /\ m.sn = Num(i)
      <4>1. PICK j \in 0 .. n - 1 : m.sn = Num(j) /\ (j < r \/ Seg(s, j) \in rcvBuf[q])
        BY <1>8, <3>4, Zenon DEF Confirms, Got
      <4>2. j \in Nat /\ j <= Len(s) + RcvWnd + SndWnd
        BY <1>1
      <4>3. j \in Near
        BY <1>1, <4>2, FitsNear
      <4>4. j = i
        BY <3>2, <3>4, <4>1, <4>3, NumDiffers
      <4>5. ~(i < r)
        BY <1>1, <2>1, <3>2
      <4> QED BY <4>1, <4>4, <4>5
    <3>5. CASE ~(m.cmd = "ACK" /\ m.sn = Num(i))
      <4>1. CASE Seg(s, i) \in sndBuf[p]
        BY <1>2, <3>1, <3>3, <3>5, <4>1 DEF Unacknowledged
      <4>2. CASE Seg(s, i) \in rcvBuf[q]
        BY <4>2
      <4> QED BY <3>1, <4>1, <4>2
    <3> QED BY <3>4, <3>5
  <2> QED BY <1>4, <2>1 DEF Kept
<1>10. ReadSide(p, s, e, t)' /\ RecvSide(q, s, n, r, t)' /\ AckSide(q, s, n, r)' /\ NetSide(p, q, s, n, r)'
  <2>1. ReadSide(p, s, e, t)'
    BY <1>3, Zenon DEF Stream, ReadSide
  <2>2. RecvSide(q, s, n, r, t)'
    BY Zenon DEF Stream, RecvSide
  <2>3. AckSide(q, s, n, r)'
    BY Zenon DEF Stream, AckSide, Got
  <2>4. NetSide(p, q, s, n, r)'
    BY Zenon DEF Stream, NetSide, Carries, Confirms, Got
  <2> QED BY <2>1, <2>2, <2>3, <2>4
<1>11. Stream(p, q, s, e, n, l, r, t)'
  BY <1>7, <1>9, <1>10, Zenon DEF Stream
<1> QED BY <1>11, Zenon

\* A pushed segment that comes into the buffer leaves it a window.
LEMMA HeldAndNew ==
  ASSUME NEW buf, NEW queue, NEW s, NEW n, NEW r, NEW t, Held(buf, queue, s, n, r, t),
         NEW i \in r .. n - 1, i < r + RcvWnd,
         NEW new, new = IF \E x \in buf : x.sn = Num(i) THEN {} ELSE {Seg(s, i)}
  PROVE  Held(buf \cup new, queue, s, n, r, t) /\ Seg(s, i) \in buf \cup new
<1>1. Seg(s, i).sn = Num(i)
  BY DEF Seg
<1>2. Window(buf \cup new, s, n, r)
  BY Zenon DEF Held, Window
<1>3. Seg(s, i) \in buf \cup new
  <2>1. CASE \E x \in buf : x.sn = Num(i)
    <3>1. PICK x \in buf : x.sn = Num(i)
      BY <2>1
    <3>2. i \in Nat /\ i <= Len(s) + RcvWnd + SndWnd
      <4>1. n \in Nat /\ r \in Nat /\ n <= Len(s) /\ Len(s) \in Nat
        BY HeldLen
      <4> QED BY <4>1, WindowAssumption
    <3>3. x = Seg(s, i)
      <4>1. /\ s \in Seq(Data) /\ Fits(s) /\ n \in 0 .. Len(s) /\ r \in 0 .. n
            /\ Window(buf, s, n, r)
        BY Zenon DEF Held
      <4> QED BY <3>1, <3>2, <4>1, OneSegment
    <3> QED BY <3>1, <3>3
  <2>2. CASE ~\E x \in buf : x.sn = Num(i)
    BY <2>2
  <2> QED BY <2>1, <2>2
<1>4. Held(buf \cup new, queue, s, n, r, t)
  BY <1>2, Zenon DEF Held
<1> QED BY <1>3, <1>4

\* Another number to acknowledge.
LEMMA OneMoreAck ==
  ASSUME NEW x, ackList[x] \in Seq(0 .. SeqMod - 1), NEW sn \in 0 .. SeqMod - 1,
         ackList'[x] = Append(ackList[x], sn),
         NEW s, NEW n, NEW r, NEW z, AckSide(x, s, n, r),
         \A y : Got(x, s, n, r, y) => Got(x, s, n, z, y)',
         Got(x, s, n, z, sn)'
  PROVE  AckSide(x, s, n, z)'
<1>0. PICK l, old, new : old = ackList[x] /\ new = Append(old, sn) /\ l = Len(old)
  OBVIOUS
<1>1. l \in Nat /\ DOMAIN old = 1 .. l /\ old \in Seq(0 .. SeqMod - 1) /\ ackList'[x] = new
  BY <1>0, LenProperties
<1>2. /\ DOMAIN new = 1 .. l + 1 /\ new[l + 1] = sn
      /\ \A k \in 1 .. l : new[k] = old[k]
  <2>1. /\ new \in Seq(0 .. SeqMod - 1) /\ Len(new) = l + 1
        /\ \A k \in 1 .. l : new[k] = old[k]
        /\ new[l + 1] = sn
    BY <1>0, <1>1, AppendProperties
  <2>2. DOMAIN new = 1 .. l + 1
    BY <2>1, LenProperties
  <2> QED BY <2>1, <2>2
<1>3. ASSUME NEW k \in 1 .. l + 1 PROVE Got(x, s, n, z, new[k])'
  <2>1. CASE k \in 1 .. l
    <3>1. Got(x, s, n, r, old[k])
      BY <1>0, <1>1, <2>1, Zenon DEF AckSide
    <3>2. Got(x, s, n, z, old[k])'
      BY <3>1
    <3> QED BY <1>2, <2>1, <3>2
  <2>2. CASE k = l + 1
    BY <1>2, <2>2
  <2>3. k \in 1 .. l \/ k = l + 1
    BY <1>1
  <2> QED BY <2>1, <2>2, <2>3
<1> QED BY <1>1, <1>2, <1>3, Zenon DEF AckSide

\* What InputAcknowledges of one end leaves alone of the stream it receives.
LEMMA AcknowledgeLeaves ==
  ASSUME Types, NEW p \in Peer, NEW x \in Peer, x # p, NEW m, InputAcknowledges(p, m)
  PROVE  /\ sent' = sent /\ read' = read /\ sndNxt'[x] = sndNxt[x] /\ sndUna'[x] = sndUna[x]
         /\ sndQueue'[x] = sndQueue[x] /\ sndBuf'[x] = sndBuf[x]
<1>1. /\ \E f : sndBuf' = [sndBuf EXCEPT ![p] = f]
      /\ \E f : sndUna' = [sndUna EXCEPT ![p] = f]
      /\ sndQueue' = sndQueue /\ sndNxt' = sndNxt /\ sent' = sent /\ read' = read
  BY Zenon DEF InputAcknowledges
<1> QED BY <1>1 DEF Types, OfPeers

\* The number of a pushed segment, seen from the receiver.
LEMMA PushedNumber ==
  ASSUME NEW buf, NEW queue, NEW s, NEW n, NEW r, NEW t, Held(buf, queue, s, n, r, t),
         NEW i \in 0 .. n - 1
  PROVE  /\ Diff(Num(i), Plus(Num(r), RcvWnd)) = i - (r + RcvWnd)
         /\ Diff(Num(i), Num(r)) = i - r
         /\ i \in Nat /\ r \in Nat /\ n \in Nat /\ RcvWnd \in Nat /\ Num(i) \in 0 .. SeqMod - 1
<1>1. /\ s \in Seq(Data) /\ Fits(s) /\ Len(s) \in Nat /\ n \in Nat /\ r \in Nat
      /\ r <= n /\ n <= Len(s) /\ RcvWnd \in Nat /\ SndWnd \in Nat
  BY WindowAssumption, HeldLen DEF Held
<1>2. PICK w : w = r + RcvWnd
  OBVIOUS
<1>3. /\ i \in Nat /\ i <= Len(s) + RcvWnd + SndWnd /\ r <= Len(s) + RcvWnd + SndWnd
      /\ w \in Nat /\ w <= Len(s) + RcvWnd + SndWnd
  BY <1>1, <1>2
<1>4. i \in Near /\ r \in Near /\ w \in Near
  BY <1>1, <1>3, FitsNear
<1>5. Plus(Num(r), RcvWnd) = Num(w)
  <2>1. r + RcvWnd \in Near
    BY <1>2, <1>4
  <2>2. Plus(Num(r), RcvWnd) = Num(r + RcvWnd)
    BY <1>1, <2>1, NumPlus
  <2> QED BY <1>2, <2>2
<1>6. Diff(Num(i), Num(w)) = i - w /\ Diff(Num(i), Num(r)) = i - r
  BY <1>4, NumDiff
<1>7. Num(i) \in 0 .. SeqMod - 1
  BY <1>4, NumIs
<1>8. i - w = i - (r + RcvWnd)
  BY <1>2
<1> QED BY <1>1, <1>3, <1>5, <1>6, <1>7, <1>8

\* ikcp_parse_data, and the acknowledgement of what it was given: segment i.
Parsing(p, m, s, n, r, i) ==
  /\ i \in r .. n - 1 /\ i < r + RcvWnd /\ m.sn = Num(i) /\ m.data = s[i + 1]
  /\ ParseData(p, m) /\ InputAcknowledges(p, m)
  /\ ackList' = [ackList EXCEPT ![p] = Append(@, m.sn)]

LEMMA ParseKeeps ==
  ASSUME Types, NEW p \in Peer, NEW x \in Peer, x # p, NEW m, net' \subseteq net,
         NEW s, NEW e, NEW n, NEW u, NEW r, NEW t, Stream(x, p, s, e, n, u, r, t),
         NEW i, Parsing(p, m, s, n, r, i)
  PROVE  /\ (\E y, d, v, w, z, g : Stream(x, p, y, d, v, w, z, g))'
         /\ \A y \in Peer \ {p} :
              rcvNxt'[y] = rcvNxt[y] /\ rcvBuf'[y] = rcvBuf[y] /\ rcvQueue'[y] = rcvQueue[y]
         /\ OfPeers(rcvNxt)' /\ OfPeers(rcvBuf)' /\ OfPeers(rcvQueue)'
<1>0. /\ i \in r .. n - 1 /\ i < r + RcvWnd /\ m.sn = Num(i) /\ m.data = s[i + 1]
      /\ ParseData(p, m) /\ InputAcknowledges(p, m)
      /\ ackList' = [ackList EXCEPT ![p] = Append(@, m.sn)]
  BY Zenon DEF Parsing
<1>1. Held(rcvBuf[p], rcvQueue[p], s, n, r, t) /\ rcvNxt[p] = Num(r)
  BY Zenon DEF Stream, RecvSide
<1>2. n \in Nat /\ r \in Nat /\ i \in 0 .. n - 1
  BY <1>0, <1>1, HeldLen
<1>3. m.sn \in 0 .. SeqMod - 1
  BY <1>0, <1>1, <1>2, PushedNumber
<1>4. PICK new : new = IF \E y \in rcvBuf[p] : y.sn = Num(i) THEN {} ELSE {Seg(s, i)}
  OBVIOUS
<1>5. PICK buf, queue, k : buf = rcvBuf[p] \cup new /\ queue = rcvQueue[p] /\ k = Movable(buf, queue, Num(r))
  OBVIOUS
<1>6. Held(buf, queue, s, n, r, t) /\ Seg(s, i) \in buf
  BY <1>0, <1>1, <1>4, <1>5, HeldAndNew
<1>7. MovedOn(buf, queue, s, n, r, t, k)
  BY <1>5, <1>6, MovingOn
<1>8. MoveReceived(p, buf, queue)
  <2>1. Seg(s, i) = [sn |-> m.sn, data |-> m.data]
    BY <1>0, Zenon DEF Seg
  <2>2. new = IF \E y \in rcvBuf[p] : y.sn = m.sn THEN {} ELSE {[sn |-> m.sn, data |-> m.data]}
    BY <1>0, <1>4, <2>1, Zenon
  <2> QED BY <1>0, <1>5, <2>2, Zenon DEF ParseData
<1>9. /\ rcvNxt'[p] = Num(r + k) /\ rcvBuf'[p] = Rest(buf, r + k)
      /\ rcvQueue'[p] = queue \o Moved(buf, Num(r), k)
      /\ \A y \in Peer \ {p} :
           rcvNxt'[y] = rcvNxt[y] /\ rcvBuf'[y] = rcvBuf[y] /\ rcvQueue'[y] = rcvQueue[y]
      /\ OfPeers(rcvNxt)' /\ OfPeers(rcvBuf)' /\ OfPeers(rcvQueue)'
  <2>1. Moving(p, buf, queue, s, n, r, t, k)
    BY <1>1, <1>5, <1>7, <1>8, Zenon DEF Moving
  <2>2. MovesTo(p, buf, queue, r, k)
    BY <2>1, MoveIs
  <2> QED BY <2>2, Zenon DEF MovesTo
<1>10. /\ sent' = sent /\ read' = read /\ sndNxt'[x] = sndNxt[x] /\ sndUna'[x] = sndUna[x]
       /\ sndQueue'[x] = sndQueue[x] /\ sndBuf'[x] = sndBuf[x]
  BY <1>0, AcknowledgeLeaves
<1>11. /\ SendSide(x, s, n, u)' /\ RecvSide(p, s, n, r + k, t)'
       /\ Kept(x, p, s, n, r + k)' /\ NetSide(x, p, s, n, r + k)'
       /\ \A sn : Got(p, s, n, r, sn) => Got(p, s, n, r + k, sn)'
  <2>1. rcvBuf[p] \subseteq buf
    BY <1>5
  <2> QED BY <1>7, <1>9, <1>10, <2>1, ReceiverMoves
<1>12. ReadSide(x, s, e, t)'
  BY <1>10, Zenon DEF Stream, ReadSide
<1>13. Got(p, s, n, r + k, m.sn)'
  <2>1. PICK z : z = r + k
    OBVIOUS
  <2>2. \A j \in z .. n - 1 : Seg(s, j) \in buf => Seg(s, j) \in rcvBuf'[p]
    BY <1>7, <1>9, <2>1, Zenon DEF MovedOn
  <2>3. z \in Nat
    BY <1>2, <1>7, <2>1 DEF MovedOn
  <2>4. i < z \/ i \in z .. n - 1
    BY <1>0, <1>2, <2>3
  <2>5. i < z \/ Seg(s, i) \in rcvBuf'[p]
    BY <1>6, <2>2, <2>4
  <2>6. PICK sn : sn = m.sn
    OBVIOUS
  <2>7. Got(p, s, n, z, sn)'
    BY <1>0, <1>2, <2>5, <2>6, Zenon DEF Got
  <2> QED BY <2>1, <2>6, <2>7
<1>14. AckSide(p, s, n, r + k)'
  <2>1. ackList'[p] = Append(ackList[p], m.sn) /\ ackList[p] \in Seq(0 .. SeqMod - 1)
    BY <1>0 DEF Types
  <2>2. AckSide(p, s, n, r)
    BY Zenon DEF Stream
  <2> QED BY <1>3, <1>11, <1>13, <2>1, <2>2, OneMoreAck
<1>15. Stream(x, p, s, e, n, u, r + k, t)'
  BY <1>11, <1>12, <1>14, Zenon DEF Stream
<1> QED BY <1>9, <1>15, Zenon

\* What is received, and not: the receiving half of ikcp_input.
LEMMA InputReceives ==
  ASSUME Types, NEW p \in Peer, NEW x \in Peer, x # p, NEW m \in net, m.dst = p, net' \subseteq net,
         InputPush(p, m) \/ InputAck(p, m) \/ InputProbe(p, m),
         NEW s, NEW e, NEW n, NEW u, NEW r, NEW t, Stream(x, p, s, e, n, u, r, t)
  PROVE  /\ (\E y, d, v, w, z, g : Stream(x, p, y, d, v, w, z, g))'
         /\ rcvNxt'[x] = rcvNxt[x] /\ rcvBuf'[x] = rcvBuf[x] /\ rcvQueue'[x] = rcvQueue[x]
         /\ OfPeers(rcvNxt)' /\ OfPeers(rcvBuf)' /\ OfPeers(rcvQueue)'
         /\ ackList'[x] = ackList[x] /\ ackList' \in [Peer -> Seq(0 .. SeqMod - 1)]
         /\ InputAcknowledges(p, m)
<1>1. InputAcknowledges(p, m)
  BY DEF InputPush, InputAck, InputProbe
<1>2. /\ sent' = sent /\ read' = read /\ sndNxt'[x] = sndNxt[x] /\ sndUna'[x] = sndUna[x]
      /\ sndQueue'[x] = sndQueue[x] /\ sndBuf'[x] = sndBuf[x]
  BY <1>1, AcknowledgeLeaves
<1>3. CASE rcvNxt' = rcvNxt /\ rcvBuf' = rcvBuf /\ rcvQueue' = rcvQueue /\ ackList' = ackList
  <2>1. Stream(x, p, s, e, n, u, r, t)'
    BY <1>2, <1>3, Untouched
  <2>2. OfPeers(rcvNxt)' /\ OfPeers(rcvBuf)' /\ OfPeers(rcvQueue)'
    BY <1>3, Zenon DEF Types, OfPeers
  <2>3. ackList' \in [Peer -> Seq(0 .. SeqMod - 1)]
    BY <1>3 DEF Types
  <2> QED BY <1>1, <1>3, <2>1, <2>2, <2>3, Zenon
<1>4. ASSUME m.cmd = "PUSH", Diff(m.sn, Plus(rcvNxt[p], RcvWnd)) < 0,
             ackList' = [ackList EXCEPT ![p] = Append(@, m.sn)],
             IF Diff(m.sn, rcvNxt[p]) >= 0 THEN ParseData(p, m) ELSE UNCHANGED receiving
      PROVE  /\ (\E y, d, v, w, z, g : Stream(x, p, y, d, v, w, z, g))'
             /\ rcvNxt'[x] = rcvNxt[x] /\ rcvBuf'[x] = rcvBuf[x] /\ rcvQueue'[x] = rcvQueue[x]
             /\ OfPeers(rcvNxt)' /\ OfPeers(rcvBuf)' /\ OfPeers(rcvQueue)'
             /\ ackList'[x] = ackList[x] /\ ackList' \in [Peer -> Seq(0 .. SeqMod - 1)]
  <2>1. PICK i \in 0 .. n - 1 : m.sn = Num(i) /\ m.data = s[i + 1]
    BY <1>4, Zenon DEF Stream, NetSide, Carries
  <2>2. Held(rcvBuf[p], rcvQueue[p], s, n, r, t) /\ rcvNxt[p] = Num(r)
    BY Zenon DEF Stream, RecvSide
  <2>3. /\ Diff(Num(i), Plus(Num(r), RcvWnd)) = i - (r + RcvWnd)
        /\ Diff(Num(i), Num(r)) = i - r
        /\ i \in Nat /\ r \in Nat /\ n \in Nat /\ RcvWnd \in Nat /\ Num(i) \in 0 .. SeqMod - 1
    BY <2>2, PushedNumber
  <2>4. i < r + RcvWnd
    <3>1. i - (r + RcvWnd) < 0
      BY <1>4, <2>1, <2>2, <2>3
    <3> QED BY <2>3, <3>1
  <2>5. ackList'[x] = ackList[x] /\ ackList' \in [Peer -> Seq(0 .. SeqMod - 1)]
    <3>1. m.sn \in 0 .. SeqMod - 1
      BY <2>1, <2>3
    <3> QED BY <1>4, <3>1 DEF Types
  <2>6. CASE Diff(m.sn, rcvNxt[p]) >= 0
    <3>1. i \in r .. n - 1
      <4>1. i - r >= 0
        BY <2>1, <2>2, <2>3, <2>6
      <4> QED BY <2>3, <4>1
    <3>2. ParseData(p, m)
      BY <1>4, <2>6
    <3>3. /\ (\E y, d, v, w, z, g : Stream(x, p, y, d, v, w, z, g))'
          /\ \A y \in Peer \ {p} :
               rcvNxt'[y] = rcvNxt[y] /\ rcvBuf'[y] = rcvBuf[y] /\ rcvQueue'[y] = rcvQueue[y]
          /\ OfPeers(rcvNxt)' /\ OfPeers(rcvBuf)' /\ OfPeers(rcvQueue)'
      <4>1. Parsing(p, m, s, n, r, i)
        BY <1>1, <1>4, <2>1, <2>4, <3>1, <3>2, Zenon DEF Parsing
      <4> QED BY <4>1, ParseKeeps
    <3> QED BY <2>5, <3>3, Zenon
  <2>7. CASE ~(Diff(m.sn, rcvNxt[p]) >= 0)
    <3>1. i < r
      <4>1. ~(i - r >= 0)
        BY <2>1, <2>2, <2>3, <2>7
      <4> QED BY <2>3, <4>1
    <3>2. rcvNxt' = rcvNxt /\ rcvBuf' = rcvBuf /\ rcvQueue' = rcvQueue
      BY <1>4, <2>7 DEF receiving
    <3>3. /\ ReadSide(x, s, e, t)' /\ SendSide(x, s, n, u)' /\ RecvSide(p, s, n, r, t)'
          /\ Kept(x, p, s, n, r)'
          /\ \A sn : Got(p, s, n, r, sn) => Got(p, s, n, r, sn)'
      BY <1>2, <3>2, Zenon DEF Stream, ReadSide, SendSide, RecvSide, Kept, Got
    <3>4. NetSide(x, p, s, n, r)'
      BY <3>3, Zenon DEF Stream, NetSide, Carries, Confirms
    <3>5. PICK sn : sn = m.sn
      OBVIOUS
    <3>6. Got(p, s, n, r, sn)'
      BY <2>1, <3>1, <3>5, Zenon DEF Got
    <3>7. AckSide(p, s, n, r)'
      <4>1. ackList'[p] = Append(ackList[p], sn) /\ ackList[p] \in Seq(0 .. SeqMod - 1)
        BY <1>4, <3>5 DEF Types
      <4>2. AckSide(p, s, n, r) /\ sn \in 0 .. SeqMod - 1
        BY <2>1, <2>3, <3>5, Zenon DEF Stream
      <4> QED BY <3>3, <3>6, <4>1, <4>2, OneMoreAck
    <3>8. Stream(x, p, s, e, n, u, r, t)'
      BY <3>3, <3>4, <3>7, Zenon DEF Stream
    <3>9. OfPeers(rcvNxt)' /\ OfPeers(rcvBuf)' /\ OfPeers(rcvQueue)'
      BY <3>2, Zenon DEF Types, OfPeers
    <3> QED BY <2>5, <3>2, <3>8, <3>9, Zenon
  <2> QED BY <2>6, <2>7
<1>5. CASE InputPush(p, m)
  <2>1. \/ UNCHANGED <<receiving, ackList>>
        \/ /\ m.cmd = "PUSH" /\ Diff(m.sn, Plus(rcvNxt[p], RcvWnd)) < 0
           /\ ackList' = [ackList EXCEPT ![p] = Append(@, m.sn)]
           /\ IF Diff(m.sn, rcvNxt[p]) >= 0 THEN ParseData(p, m) ELSE UNCHANGED receiving
    BY <1>5, Zenon DEF InputPush
  <2>2. CASE UNCHANGED <<receiving, ackList>>
    BY <1>3, <2>2 DEF receiving
  <2> QED BY <1>1, <1>4, <2>1, <2>2, Zenon
<1>6. CASE InputAck(p, m)
  BY <1>3, <1>6 DEF InputAck, receiving
<1>7. CASE InputProbe(p, m)
  BY <1>3, <1>7 DEF InputProbe, receiving
<1> QED BY <1>5, <1>6, <1>7

LEMMA InputKeeps ==
  ASSUME KcpInv, NEW p \in Peer, NEW m \in net, Input(p, m), net' \subseteq net
  PROVE  KcpInv'
<1>0. PICK q : q = Other(p)
  OBVIOUS
<1>1. q \in Peer /\ q # p /\ Other(q) = p /\ Types /\ m.dst = p
  BY <1>0, Two DEF KcpInv, Input
<1>2. PICK s, e, n, u, r, t : Stream(p, q, s, e, n, u, r, t)
  BY <1>0, Zenon DEF KcpInv, Streams
<1>3. PICK s2, e2, n2, u2, r2, t2 : Stream(q, p, s2, e2, n2, u2, r2, t2)
  BY <1>1, Zenon DEF KcpInv, Streams
<1>4. InputPush(p, m) \/ InputAck(p, m) \/ InputProbe(p, m)
  BY DEF Input
<1>5. /\ (\E y, d, v, w, z, g : Stream(q, p, y, d, v, w, z, g))'
      /\ rcvNxt'[q] = rcvNxt[q] /\ rcvBuf'[q] = rcvBuf[q] /\ rcvQueue'[q] = rcvQueue[q]
      /\ OfPeers(rcvNxt)' /\ OfPeers(rcvBuf)' /\ OfPeers(rcvQueue)'
      /\ ackList'[q] = ackList[q] /\ ackList' \in [Peer -> Seq(0 .. SeqMod - 1)]
      /\ InputAcknowledges(p, m)
  BY <1>1, <1>3, <1>4, InputReceives
<1>6. (\E y, d, v, w, z, g : Stream(p, q, y, d, v, w, z, g))'
  BY <1>1, <1>2, <1>5, AcknowledgeKeeps
<1>7. Streams'
  BY <1>0, <1>5, <1>6, BothStreams, Zenon
<1>8. Types'
  <2>1. /\ rmtWnd' = [rmtWnd EXCEPT ![p] = m.wnd] /\ m.wnd \in 0 .. RcvWnd
        /\ sndQueue' = sndQueue /\ sndNxt' = sndNxt /\ probing' = probing
        /\ sent' = sent /\ read' = read
        /\ \E f : sndBuf' = [sndBuf EXCEPT ![p] = f]
        /\ \E f : sndUna' = [sndUna EXCEPT ![p] = f]
    BY <1>1, <1>5, Zenon DEF InputAcknowledges, Types
  <2>2. tell' = tell \/ \E f \in BOOLEAN : tell' = [tell EXCEPT ![p] = f]
    <3>1. CASE InputPush(p, m) \/ InputAck(p, m)
      BY <3>1 DEF InputPush, InputAck
    <3>2. CASE InputProbe(p, m)
      <4>1. tell' = [tell EXCEPT ![p] = tell[p] \/ m.cmd = "WASK"]
        BY <3>2, Zenon DEF InputProbe
      <4>2. (tell[p] \/ m.cmd = "WASK") \in BOOLEAN
        BY Zenon
      <4> QED BY <4>1, <4>2, Zenon
    <3> QED BY <1>4, <3>1, <3>2
  <2>3. tell' \in [Peer -> BOOLEAN] /\ rmtWnd' \in [Peer -> 0 .. RcvWnd]
    BY <1>1, <2>1, <2>2 DEF Types
  <2>4. OfPeers(sndBuf)' /\ OfPeers(sndUna)'
    BY <1>1, <2>1 DEF Types, OfPeers
  <2>5. \A y \in net' : y.dst \in Peer /\ y.wnd \in 0 .. RcvWnd
    BY <1>1 DEF Types
  <2> QED BY <1>1, <1>5, <2>1, <2>3, <2>4, <2>5, Zenon DEF Types, OfPeers
<1> QED BY <1>7, <1>8 DEF KcpInv

----------------------------------------------------------------------------
LEMMA KcpStutters ==
  ASSUME KcpInv, UNCHANGED vars
  PROVE  KcpInv'
<1>1. /\ sndQueue' = sndQueue /\ sndBuf' = sndBuf /\ sndUna' = sndUna /\ sndNxt' = sndNxt
      /\ rmtWnd' = rmtWnd /\ probing' = probing /\ rcvBuf' = rcvBuf /\ rcvQueue' = rcvQueue
      /\ rcvNxt' = rcvNxt /\ ackList' = ackList /\ tell' = tell /\ net' = net /\ sent' = sent
      /\ read' = read
  BY DEF vars, sending, receiving
<1>2. Types'
  BY <1>1, Zenon DEF KcpInv, Types, OfPeers
<1>3. ASSUME NEW p \in Peer PROVE (\E s, e, n, u, r, t : Stream(p, Other(p), s, e, n, u, r, t))'
  <2>1. PICK s, e, n, u, r, t : Stream(p, Other(p), s, e, n, u, r, t)
    BY Zenon DEF KcpInv, Streams
  <2>2. Stream(p, Other(p), s, e, n, u, r, t)'
    <3>1. net' \subseteq net
      BY <1>1
    <3> QED BY <1>1, <2>1, <3>1, Untouched
  <2> QED BY <2>2, Zenon
<1>4. Streams'
  BY <1>3, Zenon DEF Streams
<1> QED BY <1>2, <1>4 DEF KcpInv

LEMMA LoseKeeps ==
  ASSUME KcpInv, NEW m \in net, Lose(m)
  PROVE  KcpInv'
<1>1. /\ sndQueue' = sndQueue /\ sndBuf' = sndBuf /\ sndUna' = sndUna /\ sndNxt' = sndNxt
      /\ rmtWnd' = rmtWnd /\ probing' = probing /\ rcvBuf' = rcvBuf /\ rcvQueue' = rcvQueue
      /\ rcvNxt' = rcvNxt /\ ackList' = ackList /\ tell' = tell /\ net' \subseteq net /\ sent' = sent
      /\ read' = read
  BY DEF Lose, sending, receiving
<1>2. Types'
  <2>1. \A x \in net' : x.dst \in Peer /\ x.wnd \in 0 .. RcvWnd
    BY <1>1 DEF KcpInv, Types
  <2> QED BY <1>1, <2>1, Zenon DEF KcpInv, Types, OfPeers
<1>3. ASSUME NEW p \in Peer PROVE (\E s, e, n, u, r, t : Stream(p, Other(p), s, e, n, u, r, t))'
  <2>1. PICK s, e, n, u, r, t : Stream(p, Other(p), s, e, n, u, r, t)
    BY Zenon DEF KcpInv, Streams
  <2>2. Stream(p, Other(p), s, e, n, u, r, t)'
    BY <1>1, <2>1, Untouched
  <2> QED BY <2>2, Zenon
<1>4. Streams'
  BY <1>3, Zenon DEF Streams
<1> QED BY <1>2, <1>4 DEF KcpInv

LEMMA KcpSteps ==
  ASSUME KcpInv, [Next]_vars
  PROVE  KcpInv'
<1>1. ASSUME NEW p \in Peer, NEW n \in Lengths, Send(p, n) PROVE KcpInv'
  BY <1>1, SendKeeps
<1>2. ASSUME NEW p \in Peer, Recv(p) PROVE KcpInv'
  BY <1>2, RecvKeeps
<1>3. ASSUME NEW p \in Peer, NEW due \in SUBSET sndBuf[p], NEW probe \in BOOLEAN,
             NEW lost \in SUBSET Packets(p, due, probe), Flush(p, due, probe, lost)
      PROVE  KcpInv'
  <2>1. due \subseteq sndBuf[p]
    OBVIOUS
  <2> QED BY <1>3, <2>1, FlushKeeps
<1>4. ASSUME NEW m \in net, Receive(m) PROVE KcpInv'
  <2>1. Input(m.dst, m) /\ net' \subseteq net
    BY <1>4 DEF Receive
  <2>2. m.dst \in Peer
    BY DEF KcpInv, Types
  <2> QED BY <2>1, <2>2, InputKeeps
<1>5. ASSUME NEW m \in net, Lose(m) PROVE KcpInv'
  BY <1>5, LoseKeeps
<1>6. CASE UNCHANGED vars
  BY <1>6, KcpStutters
<1> QED BY <1>1, <1>2, <1>3, <1>4, <1>5, <1>6, Zenon DEF Next

\* The segments of each peer are a sequence that its queues and buffers, and those of
\* the other end, are parts of (snd_queue, snd_buf, rcv_buf and rcv_queue of ikcp.c).
THEOREM StreamsAreKept == Spec => []KcpInv
<1>1. Init => KcpInv
  BY KcpStarts
<1>2. KcpInv /\ [Next]_vars => KcpInv'
  BY KcpSteps
<1> QED BY <1>1, <1>2, PTL DEF Spec

----------------------------------------------------------------------------
LEMMA SegIs ==
  ASSUME NEW s \in Seq(Data), Fits(s), NEW i \in Nat, i < Len(s)
  PROVE  Seg(s, i) \in Segment /\ Num(i) \in 0 .. SeqMod - 1 /\ i \in Near /\ Seg(s, i).sn = Num(i)
<1>1. i + 1 \in 1 .. Len(s) /\ i <= Len(s) + RcvWnd + SndWnd
  BY WindowAssumption, LenProperties
<1>2. s[i + 1] \in Data
  BY <1>1, ElementOfSeq
<1>3. i \in Near
  BY <1>1, FitsNear
<1>4. Num(i) \in 0 .. SeqMod - 1
  BY <1>3, NumIs
<1>5. Seg(s, i) = [sn |-> Num(i), data |-> s[i + 1]]
  BY Zenon DEF Seg
<1> QED BY <1>2, <1>3, <1>4, <1>5 DEF Segment

\* The types of what a peer has of the stream it sends, and of the one it receives.
LEMMA SenderTypes ==
  ASSUME NEW p, NEW q, NEW s, NEW e, NEW n, NEW u, NEW r, NEW t, Stream(p, q, s, e, n, u, r, t)
  PROVE  /\ sndQueue[p] \in Seq(Data) /\ sndBuf[p] \subseteq Segment
         /\ sndUna[p] \in 0 .. SeqMod - 1 /\ sndNxt[p] \in 0 .. SeqMod - 1
         /\ sent[p] \in Seq(Nat) /\ read[p] \in Seq(Nat)
<1>1. /\ Held(rcvBuf[q], rcvQueue[q], s, n, r, t) /\ s \in Seq(Data) /\ Fits(s)
      /\ SendSide(p, s, n, u) /\ ReadSide(p, s, e, t)
  BY Zenon DEF Stream, RecvSide, Held
<1>2. /\ n \in 0 .. Len(s) /\ u \in 0 .. n /\ sndNxt[p] = Num(n) /\ sndUna[p] = Num(u)
      /\ sndQueue[p] = SubSeq(s, n + 1, Len(s)) /\ Len(s) \in Nat /\ n \in Nat /\ u \in Nat
      /\ RcvWnd \in Nat /\ SndWnd \in Nat
  BY <1>1, HeldLen, WindowAssumption DEF SendSide
<1>3. sndQueue[p] \in Seq(Data)
  <2>1. Len(s) \in 0 .. Len(s) /\ n <= Len(s)
    BY <1>2
  <2> QED BY <1>1, <1>2, <2>1, PartOfSeq
<1>4. sndBuf[p] \subseteq Segment
  <2>1. ASSUME NEW x \in sndBuf[p] PROVE x \in Segment
    <3>1. PICK i \in u .. n - 1 : x = Seg(s, i)
      BY <1>1, Zenon DEF SendSide
    <3>2. i \in Nat /\ i < Len(s)
      BY <1>2
    <3> QED BY <1>1, <3>1, <3>2, SegIs
  <2> QED BY <2>1
<1>5. sndUna[p] \in 0 .. SeqMod - 1 /\ sndNxt[p] \in 0 .. SeqMod - 1
  <2>1. n <= Len(s) + RcvWnd + SndWnd /\ u <= Len(s) + RcvWnd + SndWnd
    BY <1>2
  <2>2. n \in Near /\ u \in Near
    BY <1>1, <1>2, <2>1, FitsNear
  <2> QED BY <1>2, <2>2, NumIs
<1>6. sent[p] \in Seq(Nat) /\ read[p] \in Seq(Nat)
  <2>1. PICK j, ms : j = Len(read[p]) /\ ms = sent[p]
    OBVIOUS
  <2>2. ms \in Seq(Nat) /\ j \in 0 .. Len(ms) /\ read[p] = SubSeq(ms, 1, j)
    BY <1>1, <2>1, Zenon DEF ReadSide, Cut
  <2>3. 0 \in Nat /\ 0 <= j /\ 0 + 1 = 1
    BY <2>2
  <2>4. SubSeq(ms, 0 + 1, j) \in Seq(Nat)
    BY <2>2, <2>3, PartOfSeq
  <2> QED BY <2>1, <2>2, <2>3, <2>4
<1> QED BY <1>3, <1>4, <1>5, <1>6

LEMMA ReceiverWindow ==
  ASSUME NEW p, NEW q, NEW s, NEW e, NEW n, NEW u, NEW r, NEW t, Stream(p, q, s, e, n, u, r, t)
  PROVE  /\ rcvQueue[q] \in Seq(Data) /\ rcvBuf[q] \subseteq Segment /\ rcvNxt[q] \in 0 .. SeqMod - 1
         /\ Len(rcvQueue[q]) <= RcvWnd
         /\ \A x \in rcvBuf[q] : Diff(x.sn, rcvNxt[q]) \in 0 .. RcvWnd - 1
         /\ \A x, y \in rcvBuf[q] : x.sn = y.sn => x = y
         /\ IF Len(rcvQueue[q]) = RcvWnd THEN CanPeek(q)
            ELSE \A x \in rcvBuf[q] : x.sn # rcvNxt[q]
<1>0. PICK buf, queue : buf = rcvBuf[q] /\ queue = rcvQueue[q]
  OBVIOUS
<1>1. /\ Held(buf, queue, s, n, r, t) /\ s \in Seq(Data) /\ Fits(s) /\ Window(buf, s, n, r)
      /\ rcvNxt[q] = Num(r) /\ Settled(buf, r, t) /\ queue = SubSeq(s, t + 1, r)
      /\ n \in 0 .. Len(s) /\ r \in 0 .. n /\ t \in 0 .. r
  BY <1>0, Zenon DEF Stream, RecvSide, Held
<1>2. /\ queue \in Seq(Data) /\ Len(queue) = r - t /\ Len(queue) \in 0 .. RcvWnd
      /\ n \in Nat /\ r \in Nat /\ t \in Nat /\ r <= n /\ n <= Len(s) /\ Len(s) \in Nat
      /\ RcvWnd \in Nat \ {0} /\ SndWnd \in Nat
  BY <1>1, HeldLen, WindowAssumption
<1>3. r \in Near /\ rcvNxt[q] \in 0 .. SeqMod - 1
  <2>1. r <= Len(s) + RcvWnd + SndWnd
    BY <1>2
  <2>2. r \in Near
    BY <1>1, <1>2, <2>1, FitsNear
  <2> QED BY <1>1, <2>2, NumIs
<1>4. ASSUME NEW x \in buf
      PROVE  \E i \in r .. n - 1 : /\ i < r + RcvWnd /\ x = Seg(s, i) /\ i \in Nat /\ i \in Near
                                   /\ x \in Segment /\ x.sn = Num(i)
  <2>1. PICK i \in r .. n - 1 : i < r + RcvWnd /\ x = Seg(s, i)
    BY <1>1, Zenon DEF Window
  <2>2. i \in Nat /\ i < Len(s)
    BY <1>2
  <2>3. Seg(s, i) \in Segment /\ i \in Near /\ Seg(s, i).sn = Num(i)
    BY <1>1, <2>2, SegIs
  <2> QED BY <2>1, <2>2, <2>3
<1>5. ASSUME NEW x \in buf PROVE Diff(x.sn, rcvNxt[q]) \in 0 .. RcvWnd - 1
  <2>1. PICK i \in r .. n - 1 : i < r + RcvWnd /\ i \in Nat /\ i \in Near /\ x.sn = Num(i)
    BY <1>4
  <2>2. Diff(x.sn, rcvNxt[q]) = i - r
    BY <1>1, <1>3, <2>1, NumDiff
  <2>3. i - r \in 0 .. RcvWnd - 1
    BY <1>2, <2>1
  <2> QED BY <2>2, <2>3
<1>6. ASSUME NEW x \in buf, NEW y \in buf, x.sn = y.sn PROVE x = y
  <2>1. PICK i \in r .. n - 1 : x = Seg(s, i) /\ i \in Near /\ x.sn = Num(i)
    BY <1>4
  <2>2. PICK j \in r .. n - 1 : y = Seg(s, j) /\ j \in Near /\ y.sn = Num(j)
    BY <1>4
  <2>3. i = j
    BY <1>6, <2>1, <2>2, NumDiffers
  <2> QED BY <2>1, <2>2, <2>3
<1>7. ASSUME Len(queue) = RcvWnd PROVE CanPeek(q)
  <2>1. PICK j, i, ms : j = Len(read[p]) /\ i = j + 1 /\ ms = sent[p]
    OBVIOUS
  <2>2. Cut(s, e, ms) /\ j \in 0 .. Len(ms) /\ t = e[j]
    BY <2>1, Zenon DEF Stream, ReadSide
  <2>3. queue # <<>>
    BY <1>2, <1>7
  <2>4. Behind(queue, s, e, ms, j, i, r)
    <3>1. r \in 0 .. Len(s) /\ e[j] <= r
      BY <1>2, <2>2
    <3> QED BY <1>1, <2>1, <2>2, <2>3, <3>1, Zenon DEF Behind
  <2>5. Starts(queue, i, ms[i]) /\ i \in Nat
    BY <2>4, StartsWith
  <2>6. PICK m : m = ms[i]
    OBVIOUS
  <2>7. m \in Nat /\ m < RcvWnd /\ queue[1].frg + 1 = Pieces(m)
    BY <2>5, <2>6, Zenon DEF Starts
  <2>8. Pieces(m) <= RcvWnd
    BY <2>5, <2>7, FragmentsAre
  <2>9. Len(queue) >= queue[1].frg + 1
    <3>1. Pieces(m) \in Nat
      BY <2>7 DEF Pieces
    <3> QED BY <1>2, <1>7, <2>7, <2>8, <3>1
  <2> QED BY <1>0, <2>3, <2>9, Zenon DEF CanPeek
<1>8. ASSUME Len(queue) # RcvWnd PROVE \A x \in buf : x.sn # rcvNxt[q]
  <2>1. r - t # RcvWnd
    BY <1>2, <1>8
  <2> QED BY <1>1, <2>1, Zenon DEF Settled
<1>9. buf \subseteq Segment
  BY <1>4
<1>10. IF Len(rcvQueue[q]) = RcvWnd THEN CanPeek(q) ELSE \A x \in rcvBuf[q] : x.sn # rcvNxt[q]
  BY <1>0, <1>7, <1>8, Zenon
<1>11. Len(queue) <= RcvWnd
  BY <1>2
<1> QED BY <1>0, <1>2, <1>3, <1>5, <1>6, <1>9, <1>10, <1>11, Zenon

LEMMA WindowIsKept ==
  ASSUME KcpInv
  PROVE  ReceiveWindow
<1>1. ASSUME NEW p \in Peer
      PROVE  /\ sndQueue[p] \in Seq(Data) /\ sndBuf[p] \subseteq Segment
             /\ sndUna[p] \in 0 .. SeqMod - 1 /\ sndNxt[p] \in 0 .. SeqMod - 1
             /\ sent[p] \in Seq(Nat) /\ read[p] \in Seq(Nat)
  <2>1. PICK s, e, n, u, r, t : Stream(p, Other(p), s, e, n, u, r, t)
    BY Zenon DEF KcpInv, Streams
  <2> QED BY <2>1, SenderTypes
<1>2. ASSUME NEW q \in Peer
      PROVE  /\ rcvQueue[q] \in Seq(Data) /\ rcvBuf[q] \subseteq Segment /\ rcvNxt[q] \in 0 .. SeqMod - 1
             /\ Len(rcvQueue[q]) <= RcvWnd
             /\ \A x \in rcvBuf[q] : Diff(x.sn, rcvNxt[q]) \in 0 .. RcvWnd - 1
             /\ \A x, y \in rcvBuf[q] : x.sn = y.sn => x = y
             /\ IF Len(rcvQueue[q]) = RcvWnd THEN CanPeek(q)
                ELSE \A x \in rcvBuf[q] : x.sn # rcvNxt[q]
  <2>1. PICK p : p = Other(q)
    OBVIOUS
  <2>2. p \in Peer /\ Other(p) = q
    BY <2>1, Two
  <2>3. PICK s, e, n, u, r, t : Stream(p, q, s, e, n, u, r, t)
    BY <2>2, Zenon DEF KcpInv, Streams
  <2> QED BY <2>3, ReceiverWindow
<1>3. TypeOK
  <2>1. /\ sndQueue \in [Peer -> Seq(Data)] /\ rcvQueue \in [Peer -> Seq(Data)]
        /\ sndUna \in [Peer -> 0 .. SeqMod - 1] /\ sndNxt \in [Peer -> 0 .. SeqMod - 1]
        /\ rcvNxt \in [Peer -> 0 .. SeqMod - 1]
        /\ sent \in [Peer -> Seq(Nat)] /\ read \in [Peer -> Seq(Nat)]
    BY <1>1, <1>2, Zenon DEF KcpInv, Types, OfPeers
  <2> QED BY <1>1, <1>2, <2>1, Zenon DEF TypeOK, KcpInv, Types
<1> QED BY <1>2, <1>3, Zenon DEF ReceiveWindow

\* The receiver of a kcp connection holds at most a window in each of its queues, keeps
\* back only what is out of order or finds the queue full, and never waits for the rest
\* of a message it has no room for (ikcp_parse_data and ikcp_recv of ikcp.c).
THEOREM ReceiverIsBounded == Spec => []ReceiveWindow
BY StreamsAreKept, WindowIsKept, PTL

----------------------------------------------------------------------------
LEMMA StreamForgetsNothing ==
  ASSUME NEW p, NEW q, NEW s, NEW e, NEW n, NEW u, NEW r, NEW t, Stream(p, q, s, e, n, u, r, t)
  PROVE  /\ Diff(sndUna[p], rcvNxt[q]) <= RcvWnd /\ Diff(sndNxt[p], rcvNxt[q]) >= 0
         /\ \A k \in 0 .. Diff(sndNxt[p], rcvNxt[q]) - 1 :
              \E x \in sndBuf[p] \cup rcvBuf[q] : x.sn = Plus(rcvNxt[q], k)
<1>1. /\ Held(rcvBuf[q], rcvQueue[q], s, n, r, t) /\ s \in Seq(Data) /\ Fits(s)
      /\ Window(rcvBuf[q], s, n, r) /\ n \in 0 .. Len(s) /\ r \in 0 .. n /\ u \in 0 .. n
      /\ rcvNxt[q] = Num(r) /\ sndNxt[p] = Num(n) /\ sndUna[p] = Num(u)
      /\ \A x \in sndBuf[p] : \E i \in u .. n - 1 : x = Seg(s, i)
      /\ Kept(p, q, s, n, r)
  BY Zenon DEF Stream, RecvSide, SendSide, Held
<1>2. /\ n \in Nat /\ r \in Nat /\ r <= n /\ n <= Len(s) /\ Len(s) \in Nat
      /\ RcvWnd \in Nat \ {0} /\ SndWnd \in Nat
  BY <1>1, HeldLen, WindowAssumption
<1>3. u \in Nat /\ u <= n
  BY <1>1, <1>2
<1>4. n \in Near /\ r \in Near /\ u \in Near
  <2>1. n <= Len(s) + RcvWnd + SndWnd /\ r <= Len(s) + RcvWnd + SndWnd /\ u <= Len(s) + RcvWnd + SndWnd
    BY <1>2, <1>3
  <2> QED BY <1>1, <1>2, <1>3, <2>1, FitsNear
<1>5. Diff(sndNxt[p], rcvNxt[q]) = n - r /\ Diff(sndUna[p], rcvNxt[q]) = u - r
  BY <1>1, <1>4, NumDiff
<1>6. ASSUME NEW k \in 0 .. n - r - 1
      PROVE  \E x \in sndBuf[p] \cup rcvBuf[q] : x.sn = Plus(rcvNxt[q], k)
  <2>1. PICK i : i = r + k
    OBVIOUS
  <2>2. i \in r .. n - 1 /\ i \in Nat /\ i < Len(s) /\ k \in Nat /\ r + k \in Nat
    BY <1>2, <2>1
  <2>3. Seg(s, i) \in sndBuf[p] \cup rcvBuf[q]
    BY <1>1, <2>2, Zenon DEF Kept
  <2>4. Seg(s, i).sn = Num(i) /\ i \in Near
    BY <1>1, <2>2, SegIs
  <2>5. Plus(Num(r), k) = Num(i)
    BY <1>2, <2>1, <2>2, <2>4, NumPlus
  <2> QED BY <1>1, <2>3, <2>4, <2>5, Zenon
<1>7. u - r <= RcvWnd
  <2>1. CASE u <= r
    BY <1>2, <1>3, <2>1
  <2>2. CASE ~(u <= r)
    <3>1. PICK i : i = u - 1
      OBVIOUS
    <3>2. i \in r .. n - 1 /\ i \in Nat /\ i < Len(s) /\ i < u /\ i = u - 1
      BY <1>2, <1>3, <2>2, <3>1
    <3>3. Seg(s, i) \in sndBuf[p] \cup rcvBuf[q]
      BY <1>1, <3>2, Zenon DEF Kept
    <3>4. Seg(s, i).sn = Num(i) /\ i \in Near
      BY <1>1, <3>2, SegIs
    <3>5. Seg(s, i) \notin sndBuf[p]
      <4>1. SUFFICES ASSUME Seg(s, i) \in sndBuf[p] PROVE FALSE
        OBVIOUS
      <4>2. PICK j \in u .. n - 1 : Seg(s, i) = Seg(s, j)
        BY <1>1, <4>1, Zenon
      <4>3. j \in Nat /\ j < Len(s) /\ ~(j < u)
        BY <1>2, <1>3
      <4>4. Seg(s, j).sn = Num(j) /\ j \in Near
        BY <1>1, <4>3, SegIs
      <4>5. i = j
        BY <3>4, <4>2, <4>4, NumDiffers
      <4> QED BY <3>2, <4>3, <4>5
    <3>6. PICK j \in r .. n - 1 : j < r + RcvWnd /\ Seg(s, i) = Seg(s, j)
      BY <1>1, <3>3, <3>5, Zenon DEF Window
    <3>7. j \in Nat /\ j < Len(s)
      BY <1>2
    <3>8. Seg(s, j).sn = Num(j) /\ j \in Near
      BY <1>1, <3>7, SegIs
    <3>9. i = j
      BY <3>4, <3>6, <3>8, NumDiffers
    <3> QED BY <1>2, <1>3, <3>2, <3>6, <3>9
  <2> QED BY <2>1, <2>2
<1>8. n - r >= 0
  BY <1>2
<1> QED BY <1>5, <1>6, <1>7, <1>8, Zenon

\* What a sender gave up is at the other end: a segment that is numbered and not yet in
\* order there is in snd_buf or in rcv_buf, whatever acks are lost, doubled or late
\* (ikcp_parse_una, ikcp_parse_ack and ikcp_shrink_buf of ikcp.c).
THEOREM SegmentsAreNotForgotten == Spec => []NothingForgotten
<1>1. KcpInv => NothingForgotten
  <2>1. SUFFICES ASSUME KcpInv, NEW p \in Peer, NEW q, q = Other(p)
                 PROVE  /\ Diff(sndUna[p], rcvNxt[q]) <= RcvWnd /\ Diff(sndNxt[p], rcvNxt[q]) >= 0
                        /\ \A k \in 0 .. Diff(sndNxt[p], rcvNxt[q]) - 1 :
                             \E x \in sndBuf[p] \cup rcvBuf[q] : x.sn = Plus(rcvNxt[q], k)
    BY Zenon DEF NothingForgotten
  <2>2. PICK s, e, n, u, r, t : Stream(p, q, s, e, n, u, r, t)
    BY <2>1, Zenon DEF KcpInv, Streams
  <2> QED BY <2>2, StreamForgetsNothing
<1> QED BY <1>1, StreamsAreKept, PTL

----------------------------------------------------------------------------
LEMMA StepsOfAChannel ==
  ASSUME KcpInv, [Next]_vars
  PROVE  [Channel!Next]_<<sent, read>>
<1>1. ASSUME NEW p \in Peer, NEW n \in Lengths, Send(p, n) PROVE Channel!Next
  <2>1. Channel!Send(p, n)
    BY <1>1 DEF Send, Channel!Send
  <2> QED BY <2>1 DEF Channel!Next
<1>2. ASSUME NEW p \in Peer, Recv(p) PROVE Channel!Next
  <2>1. PICK x : x = Other(p)
    OBVIOUS
  <2>2. x \in Peer /\ Other(x) = p
    BY <2>1, Two
  <2>3. PICK s, e, n, u, r, t : Stream(x, p, s, e, n, u, r, t)
    BY <2>2, Zenon DEF KcpInv, Streams
  <2>4. /\ read' = [read EXCEPT ![x] = Append(@, sent[x][Len(@) + 1])]
        /\ Len(read[x]) < Len(sent[x])
    <3>1. Types
      BY DEF KcpInv
    <3> QED BY <1>2, <2>1, <2>2, <2>3, <3>1, RecvKeepsStream
  <2>5. sent' = sent
    BY <1>2 DEF Recv
  <2>6. Channel!Read(x)
    BY <2>4, <2>5 DEF Channel!Read
  <2> QED BY <2>2, <2>6 DEF Channel!Next
<1>3. ASSUME NEW p \in Peer, NEW due \in SUBSET sndBuf[p], NEW probe \in BOOLEAN,
             NEW lost \in SUBSET Packets(p, due, probe), Flush(p, due, probe, lost)
      PROVE  UNCHANGED <<sent, read>>
  BY <1>3 DEF Flush
<1>4. ASSUME NEW m \in net, Receive(m) PROVE UNCHANGED <<sent, read>>
  BY <1>4 DEF Receive, Input, InputPush, InputAck, InputProbe, InputAcknowledges
<1>5. ASSUME NEW m \in net, Lose(m) PROVE UNCHANGED <<sent, read>>
  BY <1>5 DEF Lose
<1>6. CASE UNCHANGED vars
  BY <1>6 DEF vars
<1> QED BY <1>1, <1>2, <1>3, <1>4, <1>5, <1>6, Zenon DEF Next

\* Two kcp connections are a channel: what ikcp_recv hands over is, message by message,
\* what was given to ikcp_send, none lost, doubled, cut short or out of order.
THEOREM ConnectionIsAChannel == Spec => ImplementsChannel
<1>1. Init => Channel!Init
  BY DEF Init, Channel!Init
<1>2. KcpInv /\ [Next]_vars => [Channel!Next]_<<sent, read>>
  BY StepsOfAChannel
<1> QED BY <1>1, <1>2, StreamsAreKept, PTL DEF Spec, ImplementsChannel, Channel!Spec
=============================================================================
