------------------------ MODULE StunDiscover_proofs ------------------------
(***************************************************************************)
(* Theorems about StunPacket, for any identity, name and attributes: what  *)
(* is sent is read as it was sent; and about StunDiscover, for any number  *)
(* of retransmissions and of calls of Keepalive: what Discover finds out   *)
(* about the NAT is right.                                                 *)
(***************************************************************************)
EXTENDS MC_StunDiscover, Integers, SequenceTheorems, WellFoundedInduction, TLAPS

(* Part one, StunPacket.  Bytes, words and what is aligned; sequences that *)
(* are joined of pieces; what the loop of newPacketFromBytes reads of a    *)
(* packet that is laid out as a head and pieces (PacketRead); that what    *)
(* the client builds is laid out so (RequestArrives); and what a server    *)
(* writes (ResponseArrives, CutNotMisread).                                *)

\* A set of natural numbers has a least member ...
LEMMA Least == ASSUME NEW T, T \subseteq Nat, T # {} PROVE \E k \in T : \A j \in T : k <= j
<1>1. PICK k \in T : \A j \in T : ~(<<j, k>> \in OpToRel(<, Nat))
  BY NatLessThanWellFounded, WFMin
<1>2. ASSUME NEW j \in T PROVE k <= j
  <2> SUFFICES ASSUME j < k PROVE FALSE
    OBVIOUS
  <2>1. <<j, k>> \in OpToRel(<, Nat)
    BY DEF OpToRel
  <2>2. QED
    BY <1>1, <2>1
<1>3. QED
  BY <1>2

\* ... so that one holding 0 and the successors of its members holds all of them.
LEMMA FromZero == ASSUME NEW T, 0 \in T, \A n \in Nat : n \in T => n + 1 \in T
                  PROVE  Nat \subseteq T
<1> SUFFICES ASSUME Nat \ T # {} PROVE FALSE
  OBVIOUS
<1>1. PICK k \in Nat \ T : \A j \in Nat \ T : k <= j
  <2>1. Nat \ T \subseteq Nat
    OBVIOUS
  <2>2. QED
    BY <2>1, Least
<1>2. k # 0 /\ k - 1 \in Nat
  OBVIOUS
<1>3. k - 1 \in T
  BY <1>1, <1>2
<1>4. (k - 1) + 1 \in T
  BY <1>2, <1>3
<1>5. QED
  BY <1>4
-----------------------------------------------------------------------------
Bytes == 0..255
Words == 0..65535

\* What fits in a word stays as it is.
LEMMA InWord == ASSUME NEW k \in Nat, k < 65536 PROVE k % 65536 = k
OBVIOUS

\* A number in two bytes, or in words of four.
LEMMA ByByte ==
  ASSUME NEW k \in Nat
  PROVE  /\ k \div 256 \in Nat /\ k % 256 \in Nat /\ k % 256 < 256
         /\ k = 256 * (k \div 256) + (k % 256)
OBVIOUS

LEMMA ByFour ==
  ASSUME NEW k \in Nat
  PROVE  /\ k \div 4 \in Nat /\ k % 4 \in Nat /\ k % 4 < 4
         /\ k = 4 * (k \div 4) + (k % 4)
OBVIOUS

LEMMA Fours == ASSUME NEW q \in Nat PROVE (4 * q) % 4 = 0 /\ (4 * q + 3) \div 4 = q
OBVIOUS

\* A word in two bytes.
LEMMA PutWord ==
  ASSUME NEW x \in Words
  PROVE  /\ Put16(x) \in Seq(Bytes) /\ Len(Put16(x)) = 2
         /\ Put16(x)[1] * 256 + Put16(x)[2] = x
<1> DEFINE p == x \div 256
           q == x % 256
<1>1. x \in Nat /\ x < 65536
  BY DEF Words
<1>2. p \in Nat /\ q \in Nat /\ q < 256 /\ x = 256 * p + q
  BY <1>1, ByByte
<1>3. Put16(x) = <<p, q>>
  BY DEF Put16, Byte
<1> HIDE DEF p, q
<1>4. p \in Bytes /\ q \in Bytes /\ p * 256 + q = x
  BY <1>1, <1>2 DEF Bytes
<1>5. QED
  BY <1>3, <1>4

\* What is aligned is a multiple of four, at most three more, and stays as it is.
LEMMA Aligned ==
  ASSUME NEW k \in Nat, k <= 65532
  PROVE  /\ align(k) \in Nat /\ k <= align(k) /\ align(k) <= k + 3 /\ align(k) <= 65532
         /\ align(k) % 4 = 0 /\ align(align(k)) = align(k)
<1> DEFINE q == (k + 3) \div 4
<1>1. q \in Nat /\ 4 * q <= k + 3 /\ k + 3 < 4 * q + 4
  <2>1. k + 3 \in Nat
    OBVIOUS
  <2> HIDE DEF q
  <2>2. QED
    BY <2>1, ByFour DEF q
<1>2. align(k) = 4 * q
  <2>1. (k + 3) % 65536 = k + 3
    BY InWord
  <2>2. QED
    BY <2>1 DEF align, Word16
<1> HIDE DEF q
<1>3. 4 * q <= 65532
  BY <1>1
<1>4. align(4 * q) = 4 * q
  <2>1. (4 * q + 3) % 65536 = 4 * q + 3
    BY <1>1, <1>3, InWord
  <2>2. QED
    BY <1>1, <2>1, Fours DEF align, Word16
<1>5. QED
  BY <1>1, <1>2, <1>3, <1>4, Fours

\* There is room for a value in what its length is aligned to.
LEMMA Space == ASSUME NEW k \in Nat, k <= 65532 PROVE align(k) \in Nat /\ k <= align(k)
BY Aligned
-----------------------------------------------------------------------------
\* Pieces that are joined, one after the other.
Joins(g, s, m) == g = [i \in 1..m |-> IF i = 1 THEN s[i] ELSE g[i - 1] \o s[i]]

\* The function by which FlattenSeq joins pieces is defined.
LEMMA JoinsExist == ASSUME NEW s, NEW n \in Nat PROVE \E g : Joins(g, s, n)
<1> DEFINE T == {m \in Nat : \E g : Joins(g, s, m)}
<1>1. 0 \in T
  <2> DEFINE g == [i \in 1..0 |-> <<>>]
  <2>1. Joins(g, s, 0)
    BY DEF Joins
  <2>2. QED
    BY <2>1
<1>2. ASSUME NEW m \in Nat, m \in T PROVE m + 1 \in T
  <2>1. PICK g : Joins(g, s, m)
    BY <1>2
  <2> DEFINE h == [i \in 1..(m + 1) |-> IF i = 1 THEN s[i] ELSE g[i - 1] \o s[i]]
  <2>2. \A i \in 1..m : h[i] = g[i]
    <3>1. \A i \in 1..m : g[i] = IF i = 1 THEN s[i] ELSE g[i - 1] \o s[i]
      BY <2>1 DEF Joins
    <3>2. \A i \in 1..m : h[i] = IF i = 1 THEN s[i] ELSE g[i - 1] \o s[i]
      OBVIOUS
    <3> HIDE DEF h
    <3>3. QED
      BY <3>1, <3>2
  <2>3. \A i \in 1..(m + 1) : i # 1 => h[i - 1] = g[i - 1]
    <3>1. \A i \in 1..(m + 1) : i # 1 => i - 1 \in 1..m
      OBVIOUS
    <3> HIDE DEF h
    <3>2. QED
      BY <2>2, <3>1
  <2>4. Joins(h, s, m + 1)
    BY <2>3 DEF Joins
  <2> HIDE DEF h
  <2>5. QED
    BY <2>4
<1> HIDE DEF T
<1>3. n \in T
  BY <1>1, <1>2, FromZero
<1>4. QED
  BY <1>3 DEF T

\* FlattenSeq adds one piece after the other.
LEMMA FlattenUnfolds ==
  ASSUME NEW S, NEW s \in Seq(Seq(S)), s # <<>>
  PROVE  \E all : /\ all[0] = <<>> /\ all[Len(s)] = FlattenSeq(s)
                  /\ \A k \in 0..(Len(s) - 1) : all[k + 1] = all[k] \o s[k + 1]
<1>0. Len(s) \in Nat \ {0} /\ s[1] \in Seq(S)
  BY EmptySeq
<1> DEFINE g == CHOOSE g : g = [i \in 1..Len(s) |-> IF i = 1 THEN s[i] ELSE g[i - 1] \o s[i]]
<1>1. Joins(g, s, Len(s))
  <2>1. \E h : Joins(h, s, Len(s))
    BY <1>0, JoinsExist
  <2>2. QED
    BY <2>1 DEF Joins
<1>2. g[Len(s)] = FlattenSeq(s)
  BY <1>0 DEF FlattenSeq
<1> HIDE DEF g
<1>3. /\ g[1] = s[1]
      /\ \A k \in 1..(Len(s) - 1) : g[k + 1] = g[k] \o s[k + 1]
  <2>1. \A i \in 1..Len(s) : g[i] = IF i = 1 THEN s[i] ELSE g[i - 1] \o s[i]
    BY <1>1 DEF Joins
  <2>2. 1 \in 1..Len(s)
    BY <1>0
  <2>3. ASSUME NEW k \in 1..(Len(s) - 1) PROVE g[k + 1] = g[k] \o s[k + 1]
    <3>1. k + 1 \in 1..Len(s) /\ k + 1 # 1 /\ (k + 1) - 1 = k
      BY <1>0
    <3>2. QED
      BY <2>1, <3>1
  <2>4. QED
    BY <2>1, <2>2, <2>3
<1> DEFINE all == [k \in 0..Len(s) |-> IF k = 0 THEN <<>> ELSE g[k]]
<1>4. \A k \in 0..Len(s) : all[k] = IF k = 0 THEN <<>> ELSE g[k]
  OBVIOUS
<1> HIDE DEF all
<1>5. all[0] = <<>> /\ all[Len(s)] = FlattenSeq(s)
  BY <1>0, <1>2, <1>4
<1>6. ASSUME NEW k \in 0..(Len(s) - 1) PROVE all[k + 1] = all[k] \o s[k + 1]
  <2>1. k \in 0..Len(s) /\ k + 1 \in 0..Len(s) /\ k + 1 # 0
    BY <1>0
  <2>2. all[k + 1] = g[k + 1]
    BY <1>4, <2>1
  <2>3. CASE k = 0
    <3>1. <<>> \o s[1] = s[1]
      BY <1>0, ConcatEmptySeq
    <3>2. all[0 + 1] = all[0] \o s[0 + 1]
      BY <1>3, <1>5, <2>2, <2>3, <3>1
    <3>3. QED
      BY <2>3, <3>2
  <2>4. CASE k # 0
    <3>1. k \in 1..(Len(s) - 1) /\ all[k] = g[k]
      BY <1>0, <1>4, <2>1, <2>4
    <3>2. QED
      BY <1>3, <2>2, <3>1
  <2>5. QED
    BY <2>3, <2>4
<1>7. QED
  BY <1>5, <1>6

\* A piece is in a sequence after p elements.
Placed(x, p, piece) == /\ p + Len(piece) <= Len(x)
                       /\ \A i \in 1..Len(piece) : x[p + i] = piece[i]

\* Two sequences are in what joins them.
LEMMA PlacedBoth ==
  ASSUME NEW S, NEW x \in Seq(S), NEW y \in Seq(S)
  PROVE  /\ x \o y \in Seq(S) /\ Len(x \o y) = Len(x) + Len(y)
         /\ Placed(x \o y, 0, x) /\ Placed(x \o y, Len(x), y)
<1>1. Len(x) \in Nat /\ Len(y) \in Nat
  OBVIOUS
<1>2. /\ x \o y \in Seq(S) /\ Len(x \o y) = Len(x) + Len(y)
      /\ \A i \in 1..Len(x) : (x \o y)[i] = x[i]
      /\ \A i \in 1..Len(y) : (x \o y)[Len(x) + i] = y[i]
  BY ConcatProperties
<1>3. QED
  BY <1>1, <1>2 DEF Placed

\* It does not matter which sequences are joined first.
LEMMA Associative ==
  ASSUME NEW S
  PROVE  \A x, y, z \in Seq(S) : (x \o y) \o z = x \o (y \o z)
BY ConcatAssociative

\* What is in a piece is in what has the piece.
LEMMA PlacedWithin ==
  ASSUME NEW z, NEW q \in Nat, NEW x, Placed(z, q, x), NEW p \in Nat, NEW y, Placed(x, p, y),
         Len(x) \in Nat, Len(y) \in Nat, Len(z) \in Nat
  PROVE  Placed(z, q + p, y)
<1>1. q + Len(x) <= Len(z) /\ p + Len(y) <= Len(x)
  BY DEF Placed
<1>2. ASSUME NEW i \in 1..Len(y) PROVE z[(q + p) + i] = y[i]
  <2>1. p + i \in 1..Len(x) /\ q + (p + i) = (q + p) + i
    BY <1>1
  <2>2. z[q + (p + i)] = x[p + i] /\ x[p + i] = y[i]
    BY <2>1 DEF Placed
  <2>3. QED
    BY <2>1, <2>2
<1>3. QED
  BY <1>1, <1>2 DEF Placed

\* Where each piece begins, and that it is there.
Joints(s, at) == /\ at[0] = 0 /\ at[Len(s)] = Len(FlattenSeq(s))
                 /\ \A k \in 0..(Len(s) - 1) :
                      /\ at[k] \in Nat /\ at[k + 1] = at[k] + Len(s[k + 1])
                      /\ Placed(FlattenSeq(s), at[k], s[k + 1])

\* Pieces that are joined are there one after the other.
LEMMA Joined ==
  ASSUME NEW S, NEW s \in Seq(Seq(S)), s # <<>>
  PROVE  FlattenSeq(s) \in Seq(S) /\ \E at : Joints(s, at)
<1>0. Len(s) \in Nat /\ \A k \in 0..(Len(s) - 1) : s[k + 1] \in Seq(S)
  <2>1. Len(s) \in Nat /\ \A k \in 1..Len(s) : s[k] \in Seq(S)
    OBVIOUS
  <2>2. \A k \in 0..(Len(s) - 1) : k + 1 \in 1..Len(s)
    BY <2>1
  <2>3. QED
    BY <2>1, <2>2
<1>1. PICK all : /\ all[0] = <<>> /\ all[Len(s)] = FlattenSeq(s)
                 /\ \A k \in 0..(Len(s) - 1) : all[k + 1] = all[k] \o s[k + 1]
  BY FlattenUnfolds
<1> DEFINE Good(m) == /\ \A k \in 0..m : all[k] \in Seq(S)
                      /\ \A k \in 0..(Len(s) - 1) : k < m => Placed(all[m], Len(all[k]), s[k + 1])
           T == {m \in Nat : m <= Len(s) => Good(m)}
<1>2. 0 \in T
  <2>1. \A k \in 0..0 : all[k] \in Seq(S)
    <3>1. all[0] \in Seq(S)
      BY <1>1, EmptySeq
    <3>2. \A k \in 0..0 : k = 0
      OBVIOUS
    <3>3. QED
      BY <3>1, <3>2
  <2>2. \A k \in 0..(Len(s) - 1) : ~(k < 0)
    OBVIOUS
  <2>3. QED
    BY <2>1, <2>2
<1>3. ASSUME NEW m \in Nat, m \in T PROVE m + 1 \in T
  <2> SUFFICES ASSUME m + 1 <= Len(s) PROVE Good(m + 1)
    OBVIOUS
  <2>1. m \in 0..(Len(s) - 1) /\ m <= Len(s) /\ m \in 0..m
    BY <1>0
  <2>2. Good(m)
    BY <1>3, <2>1
  <2>3. all[m] \in Seq(S) /\ s[m + 1] \in Seq(S) /\ all[m + 1] = all[m] \o s[m + 1]
    BY <1>0, <1>1, <2>1, <2>2
  <2>4. /\ all[m + 1] \in Seq(S)
        /\ Placed(all[m + 1], 0, all[m]) /\ Placed(all[m + 1], Len(all[m]), s[m + 1])
    BY <2>3, PlacedBoth
  <2>5. ASSUME NEW k \in 0..(Len(s) - 1), k < m
        PROVE  Placed(all[m + 1], Len(all[k]), s[k + 1])
    <3>1. k \in 0..m /\ Placed(all[m], Len(all[k]), s[k + 1])
      BY <2>2, <2>5
    <3>2. /\ Len(all[m + 1]) \in Nat /\ Len(all[m]) \in Nat /\ Len(s[k + 1]) \in Nat
          /\ Len(all[k]) \in Nat
      BY <1>0, <2>2, <2>3, <2>4, <3>1, LenProperties
    <3>3. Placed(all[m + 1], 0 + Len(all[k]), s[k + 1])
      <4> HIDE DEF Good
      <4>1. QED
        BY <2>4, <3>1, <3>2, PlacedWithin
    <3>4. QED
      BY <3>2, <3>3
  <2>6. \A k \in 0..(m + 1) : k \in 0..m \/ k = m + 1
    OBVIOUS
  <2>7. \A k \in 0..(m + 1) : all[k] \in Seq(S)
    BY <2>2, <2>4, <2>6
  <2>8. ASSUME NEW k \in 0..(Len(s) - 1), k < m + 1
        PROVE  Placed(all[m + 1], Len(all[k]), s[k + 1])
    <3>1. k = m \/ k < m
      BY <2>8
    <3>2. QED
      BY <2>4, <2>5, <3>1
  <2>9. QED
    BY <2>7, <2>8
<1>4. Good(Len(s))
  <2> HIDE DEF Good
  <2>1. \A m \in Nat : m \in T => m + 1 \in T
    BY <1>3
  <2> HIDE DEF T
  <2>2. Len(s) \in T
    BY <1>0, <1>2, <2>1, FromZero
  <2>3. QED
    BY <1>0, <2>2 DEF T
<1>5. ASSUME NEW k \in 0..(Len(s) - 1)
      PROVE  /\ Len(all[k]) \in Nat /\ Len(all[k + 1]) = Len(all[k]) + Len(s[k + 1])
             /\ Placed(FlattenSeq(s), Len(all[k]), s[k + 1])
  <2>1. k \in 0..Len(s) /\ k < Len(s)
    BY <1>0
  <2>2. all[k] \in Seq(S) /\ s[k + 1] \in Seq(S) /\ all[k + 1] = all[k] \o s[k + 1]
    BY <1>0, <1>1, <1>4, <2>1
  <2>3. Len(all[k]) \in Nat /\ Len(all[k + 1]) = Len(all[k]) + Len(s[k + 1])
    BY <2>2, PlacedBoth, LenProperties
  <2>4. QED
    BY <1>1, <1>4, <2>1, <2>3
<1>6. FlattenSeq(s) \in Seq(S)
  <2>1. Len(s) \in 0..Len(s)
    BY <1>0
  <2>2. QED
    BY <1>1, <1>4, <2>1
<1> HIDE DEF Good, T
<1> DEFINE at == [k \in 0..Len(s) |-> Len(all[k])]
<1>7. \A k \in 0..Len(s) : at[k] = Len(all[k])
  OBVIOUS
<1> HIDE DEF at
<1>8. at[0] = 0 /\ at[Len(s)] = Len(FlattenSeq(s))
  <2>1. 0 \in 0..Len(s) /\ Len(s) \in 0..Len(s)
    BY <1>0
  <2>2. QED
    BY <1>1, <1>7, <2>1, EmptySeq
<1>9. ASSUME NEW k \in 0..(Len(s) - 1)
      PROVE  /\ at[k] \in Nat /\ at[k + 1] = at[k] + Len(s[k + 1])
             /\ Placed(FlattenSeq(s), at[k], s[k + 1])
  <2>1. k \in 0..Len(s) /\ k + 1 \in 0..Len(s)
    BY <1>0
  <2>2. at[k] = Len(all[k]) /\ at[k + 1] = Len(all[k + 1])
    BY <1>7, <2>1
  <2>3. QED
    BY <1>5, <2>2
<1>10. Joints(s, at)
  BY <1>8, <1>9 DEF Joints
<1>11. QED
  BY <1>6, <1>10
-----------------------------------------------------------------------------
\* A packet w of n attributes: from at[k] to at[k + 1] the wire carries a type, the
\* length of a value, the value, and what the length lacks to a multiple of four.
Carries(l, k, types, value) ==
  /\ l.at[k] \in Nat /\ l.at[k + 1] = l.at[k] + 4 + align(Len(value))
  /\ Len(value) \in Nat /\ Len(value) <= 65532 /\ value = [i \in 1..Len(value) |-> value[i]]
  /\ Get16(l.w, l.at[k]) = types /\ Get16(l.w, l.at[k] + 2) = Len(value)
  /\ Placed(l.w, l.at[k] + 4, value)
Laid(l) == /\ l.n \in Nat /\ Len(l.w) \in Nat /\ DOMAIN l.w = 1..Len(l.w) /\ Len(l.w) < 65536
           /\ l.at[0] = 20 /\ l.at[l.n] = Len(l.w)
           /\ \A k \in 0..(l.n - 1) : Carries(l, k, l.types[k + 1], l.values[k + 1])

\* Attributes begin at multiples of four, each at least four bytes after the last.
LEMMA Grid ==
  ASSUME NEW l, Laid(l), NEW k \in 0..l.n
  PROVE  /\ l.at[k] \in Nat /\ l.at[k] = 4 * (l.at[k] \div 4)
         /\ 20 + 4 * k <= l.at[k] /\ l.at[k] <= Len(l.w)
<1>0. l.n \in Nat /\ Len(l.w) \in Nat /\ l.at[0] = 20 /\ l.at[l.n] = Len(l.w)
  BY DEF Laid
<1>1. ASSUME NEW m \in 0..(l.n - 1)
      PROVE  /\ l.at[m] \in Nat
             /\ \E q \in Nat : l.at[m + 1] = l.at[m] + 4 * q + 4
  <2> DEFINE size == Len(l.values[m + 1])
  <2>1. /\ l.at[m] \in Nat /\ l.at[m + 1] = l.at[m] + 4 + align(size)
        /\ size \in Nat /\ size <= 65532
    <3>1. Carries(l, m, l.types[m + 1], l.values[m + 1])
      BY DEF Laid
    <3>2. QED
      BY <3>1 DEF Carries
  <2> HIDE DEF size
  <2>2. align(size) \in Nat /\ align(size) % 4 = 0
    BY <2>1, Aligned
  <2>3. align(size) = 4 * (align(size) \div 4) /\ align(size) \div 4 \in Nat
    BY <2>2, ByFour
  <2>4. QED
    BY <2>1, <2>2, <2>3
<1> DEFINE From(m) == /\ l.at[m] \in Nat /\ 20 + 4 * m <= l.at[m]
                      /\ \E q \in Nat : l.at[m] = 4 * q
           T == {m \in Nat : m <= l.n => From(m)}
           To(j) == l.at[l.n - j] <= Len(l.w)
           U == {j \in Nat : j <= l.n => To(j)}
<1>2. 0 \in T
  <2>1. 20 = 4 * 5
    OBVIOUS
  <2>2. QED
    BY <1>0, <2>1
<1>3. ASSUME NEW m \in Nat, m \in T PROVE m + 1 \in T
  <2> SUFFICES ASSUME m + 1 <= l.n PROVE From(m + 1)
    OBVIOUS
  <2>1. m \in 0..(l.n - 1) /\ m <= l.n
    BY <1>0
  <2>2. From(m)
    BY <1>3, <2>1
  <2>3. PICK p \in Nat : l.at[m] = 4 * p
    BY <2>2
  <2>4. PICK q \in Nat : l.at[m + 1] = l.at[m] + 4 * q + 4
    BY <1>1, <2>1
  <2>5. l.at[m + 1] = 4 * (p + q + 1) /\ p + q + 1 \in Nat
    BY <2>3, <2>4
  <2>6. 20 + 4 * (m + 1) <= l.at[m + 1] /\ l.at[m + 1] \in Nat
    BY <2>2, <2>4
  <2>7. QED
    BY <2>5, <2>6
<1>4. From(k)
  <2> HIDE DEF From
  <2>1. \A m \in Nat : m \in T => m + 1 \in T
    BY <1>3
  <2> HIDE DEF T
  <2>2. k \in T
    BY <1>0, <1>2, <2>1, FromZero
  <2>3. QED
    BY <1>0, <2>2 DEF T
<1>5. 0 \in U
  BY <1>0
<1>6. ASSUME NEW j \in Nat, j \in U PROVE j + 1 \in U
  <2> SUFFICES ASSUME j + 1 <= l.n PROVE To(j + 1)
    OBVIOUS
  <2>1. l.n - (j + 1) \in 0..(l.n - 1) /\ (l.n - (j + 1)) + 1 = l.n - j /\ j <= l.n
    BY <1>0
  <2>2. To(j)
    BY <1>6, <2>1
  <2>3. /\ l.at[l.n - (j + 1)] \in Nat
        /\ \E q \in Nat : l.at[(l.n - (j + 1)) + 1] = l.at[l.n - (j + 1)] + 4 * q + 4
    BY <1>1, <2>1
  <2>4. \E q \in Nat : l.at[l.n - j] = l.at[l.n - (j + 1)] + 4 * q + 4
    BY <2>1, <2>3
  <2>5. QED
    BY <1>0, <2>2, <2>3, <2>4
<1>7. l.at[k] <= Len(l.w)
  <2> HIDE DEF To
  <2>1. \A j \in Nat : j \in U => j + 1 \in U
    BY <1>6
  <2> HIDE DEF U
  <2>2. l.n - k \in Nat /\ l.n - k <= l.n
    BY <1>0
  <2>6. l.n - k \in U
    BY <1>5, <2>1, <2>2, FromZero
  <2>3. To(l.n - k)
    BY <2>2, <2>6 DEF U
  <2>4. l.n - (l.n - k) = k
    BY <1>0
  <2>5. QED
    BY <2>3, <2>4 DEF To
<1>8. l.at[k] = 4 * (l.at[k] \div 4)
  <2>1. PICK q \in Nat : l.at[k] = 4 * q
    BY <1>4
  <2>2. (4 * q) % 4 = 0 /\ 4 * q = 4 * ((4 * q) \div 4) + ((4 * q) % 4) /\ (4 * q) \div 4 \in Nat
    BY ByFour, Fours
  <2>3. QED
    BY <2>1, <2>2
<1>9. QED
  BY <1>4, <1>7, <1>8

\* The first attributes of a packet, and what the loop has read of them.
First(l, m) == [k \in 1..m |-> newAttribute(l.types[k], l.values[k])]
Packet(types, length, id, attributes) ==
  [types |-> types, length |-> length, transID |-> id, attributes |-> attributes]
Read(l, m, length) == [v |-> Packet(Get16(l.w, 0), length, Slice(l.w, 4, 20), First(l, m)),
                       pos |-> l.at[m]]
IsRead(l, read, m) == \E length : read = Read(l, m, length)

\* A packet, whole or cut between two words of four bytes.
Cut(b, w) == /\ Len(b) \in Nat /\ Len(b) <= Len(w) /\ Len(b) = 4 * (Len(b) \div 4)
             /\ DOMAIN b = 1..Len(b) /\ \A i \in 1..Len(b) : b[i] = w[i]

\* What the loop has read has an identity, so it is not the error.
LEMMA NotError == ASSUME NEW l, NEW m, NEW length PROVE Read(l, m, length).v # Error
<1>1. DOMAIN Slice(l.w, 4, 20) = 1..16
  BY DEF Slice
<1>2. 1 \in DOMAIN Slice(l.w, 4, 20)
  BY <1>1
<1>3. Slice(l.w, 4, 20) # << >>
  BY <1>2
<1>4. QED
  BY <1>3 DEF Read, Packet, Error

\* An attribute that is added changes the length and is the last one.
LEMMA AddOne ==
  ASSUME NEW types, NEW length, NEW id, NEW attributes, NEW a
  PROVE  \E more : addAttribute(Packet(types, length, id, attributes), a)
                     = Packet(types, more, id, Append(attributes, a))
<1> DEFINE v == Packet(types, length, id, attributes)
           more == (v.length + align(a.length) + 4) % Word16
<1>1. addAttribute(v, a) = [v EXCEPT !.attributes = Append(v.attributes, a), !.length = more]
  BY DEF addAttribute
<1> HIDE DEF more
<1>2. addAttribute(v, a) = Packet(types, more, id, Append(attributes, a))
  BY <1>1 DEF Packet
<1>3. QED
  BY <1>2

\* One attribute more than before.
LEMMA FirstMore ==
  ASSUME NEW l, NEW m \in Nat
  PROVE  First(l, m + 1) = Append(First(l, m), newAttribute(l.types[m + 1], l.values[m + 1]))
<1> DEFINE X == {newAttribute(l.types[k], l.values[k]) : k \in 1..(m + 1)}
<1>1. First(l, m) \in Seq(X) /\ Len(First(l, m)) = m
  <2>1. \A k \in 1..m : newAttribute(l.types[k], l.values[k]) \in X
    OBVIOUS
  <2> HIDE DEF X
  <2>2. QED
    BY <2>1, IsASeq DEF First
<1>2. First(l, m + 1) \in Seq(X) /\ Len(First(l, m + 1)) = m + 1
  <2>1. \A k \in 1..(m + 1) : newAttribute(l.types[k], l.values[k]) \in X
    OBVIOUS
  <2> HIDE DEF X
  <2>2. QED
    BY <2>1, IsASeq DEF First
<1> DEFINE a == newAttribute(l.types[m + 1], l.values[m + 1])
<1>3. a \in X
  OBVIOUS
<1>4. \A k \in 1..(m + 1) : First(l, m + 1)[k] = IF k = m + 1 THEN a ELSE First(l, m)[k]
  BY DEF First
<1> HIDE DEF X, a
<1>5. /\ Append(First(l, m), a) \in Seq(X) /\ Len(Append(First(l, m), a)) = m + 1
      /\ \A k \in 1..(m + 1) : Append(First(l, m), a)[k] = IF k = m + 1 THEN a ELSE First(l, m)[k]
  BY <1>1, <1>3, AppendProperties
<1>6. First(l, m + 1) = Append(First(l, m), a)
  BY <1>2, <1>4, <1>5, SeqEqual
<1>7. QED
  BY <1>6 DEF a

\* One step of the loop, when there is another attribute.
LEMMA ReadsOne ==
  ASSUME NEW l, Laid(l), NEW b, Cut(b, l.w), NEW m \in 0..l.n, NEW read, IsRead(l, read, m),
         l.at[m] < Len(b)
  PROVE  \/ NextAttribute(b, read).v = Error /\ Len(b) # Len(l.w)
         \/ m < l.n /\ IsRead(l, NextAttribute(b, read), m + 1)
<1> DEFINE value == l.values[m + 1]
           types == l.types[m + 1]
           pos == l.at[m]
           end == l.at[m + 1]
           size == Len(value)
           space == align(size)
           cut == Len(b)
           whole == Len(l.w)
<1>0. PICK length : read = Read(l, m, length)
  BY DEF IsRead
<1>1. read.v # Error /\ read.pos = pos
  BY <1>0, NotError DEF Read
<1>2. l.n \in Nat /\ whole \in Nat /\ whole < 65536 /\ l.at[l.n] = whole
  BY DEF Laid
<1>3. cut \in Nat /\ cut <= whole /\ pos \in Nat /\ pos < cut
  BY Grid DEF Cut
<1>4. pos + 4 <= cut
  <2>1. pos = 4 * (pos \div 4) /\ cut = 4 * (cut \div 4)
    BY Grid DEF Cut
  <2>2. pos \div 4 \in Nat /\ cut \div 4 \in Nat
    BY <1>3, ByFour
  <2> HIDE DEF pos, cut
  <2>3. QED
    BY <1>3, <2>1, <2>2
<1>5. m < l.n /\ m \in Nat
  <2>1. m # l.n
    BY <1>2, <1>3
  <2>2. QED
    BY <1>2, <2>1
<1>6. Carries(l, m, types, value)
  BY <1>2, <1>5 DEF Laid
<1>7. size \in Nat /\ size <= 65532 /\ end = pos + 4 + space
  BY <1>6 DEF Carries
<1>8. space \in Nat /\ size <= space
  <2> HIDE DEF size
  <2>1. align(size) \in Nat /\ size <= align(size)
    BY <1>7, Space
  <2>2. QED
    BY <2>1
<1>9. end <= whole
  <2>1. m + 1 \in 0..l.n
    BY <1>2, <1>5
  <2>2. QED
    BY <2>1, Grid
<1>10. \A i \in 1..cut : i \in DOMAIN b /\ b[i] = l.w[i]
  BY DEF Cut
<1>11. \A i \in 1..size : l.w[pos + 4 + i] = value[i]
  <2>1. Placed(l.w, pos + 4, value)
    BY <1>6 DEF Carries
  <2>2. QED
    BY <2>1 DEF Placed
<1>12. Get16(l.w, pos) = types /\ Get16(l.w, pos + 2) = size
  BY <1>6 DEF Carries
<1>13. value = [i \in 1..size |-> value[i]]
  BY <1>6 DEF Carries
<1> DEFINE a == newAttribute(types, value)
<1>15. First(l, m + 1) = Append(First(l, m), a)
  BY <1>5, FirstMore
<1>16. PICK more : addAttribute(Read(l, m, length).v, a) = Read(l, m + 1, more).v
  <2> DEFINE head == Get16(l.w, 0)
             id == Slice(l.w, 4, 20)
             now == First(l, m)
             then == First(l, m + 1)
  <2>1. Read(l, m, length).v = Packet(head, length, id, now)
    BY DEF Read
  <2>2. \A more : Read(l, m + 1, more).v = Packet(head, more, id, then)
    BY DEF Read
  <2>3. then = Append(now, a)
    BY <1>15
  <2> HIDE DEF a, head, id, now, then
  <2>4. PICK more : addAttribute(Packet(head, length, id, now), a) = Packet(head, more, id, Append(now, a))
    BY AddOne
  <2>5. addAttribute(Read(l, m, length).v, a) = Read(l, m + 1, more).v
    BY <2>1, <2>2, <2>3, <2>4
  <2>6. QED
    BY <2>5
<1> HIDE DEF value, types, pos, end, size, space, cut, whole, a
<1>17. Get16(b, pos) = types /\ Get16(b, pos + 2) = size
  <2>1. pos + 1 \in 1..cut /\ pos + 2 \in 1..cut /\ pos + 2 + 1 \in 1..cut /\ pos + 2 + 2 \in 1..cut
    BY <1>3, <1>4
  <2>2. Get16(b, pos) = Get16(l.w, pos) /\ Get16(b, pos + 2) = Get16(l.w, pos + 2)
    BY <1>10, <2>1 DEF Get16
  <2>3. QED
    BY <1>12, <2>2
<1>18. TooLong(b, pos, size) <=> pos + 4 + size > cut
  <2>1. pos + 4 + size \in Nat /\ pos + 4 + size < 65536
    BY <1>2, <1>3, <1>7, <1>8, <1>9
  <2>2. (pos + 4 + size) % 65536 = pos + 4 + size
    BY <2>1, InWord
  <2>3. QED
    BY <2>2 DEF TooLong, Word16, cut
<1>19. ~(pos >= Len(b))
  BY <1>3 DEF cut
<1>20. CASE pos + 4 + size > cut
  <2>1. NextAttribute(b, read) = [read EXCEPT !.v = Error]
    BY <1>1, <1>17, <1>18, <1>19, <1>20 DEF NextAttribute
  <2>2. NextAttribute(b, read).v = Error
    BY <1>0, <2>1 DEF Read
  <2>3. cut # whole
    BY <1>2, <1>3, <1>7, <1>8, <1>9, <1>20
  <2>4. QED
    BY <2>2, <2>3 DEF cut, whole
<1>21. CASE ~(pos + 4 + size > cut)
  <2>1. Slice(b, pos + 4, pos + 4 + size) = value
    <3>1. (pos + 4 + size) - (pos + 4) = size
      BY <1>3, <1>7
    <3>2. ASSUME NEW i \in 1..size
          PROVE  pos + 4 + i \in DOMAIN b /\ b[pos + 4 + i] = value[i]
      <4>1. pos + 4 + i \in 1..cut
        BY <1>3, <1>7, <1>21
      <4>2. QED
        BY <1>10, <1>11, <4>1
    <3>3. Slice(b, pos + 4, pos + 4 + size) = [i \in 1..size |-> value[i]]
      BY <3>1, <3>2 DEF Slice
    <3>4. QED
      BY <1>13, <3>3
  <2>2. (pos + Step(size)) % 65536 = end
    <3>1. pos + Step(size) = end
      BY <1>3, <1>7, <1>8 DEF Step, space
    <3>2. end \in Nat /\ end < 65536
      BY <1>2, <1>3, <1>7, <1>8, <1>9
    <3>3. QED
      BY <3>1, <3>2, InWord
  <2>3. NextAttribute(b, read) = [v |-> addAttribute(read.v, a), pos |-> end]
    BY <1>1, <1>17, <1>18, <1>19, <1>21, <2>1, <2>2 DEF NextAttribute, Word16, a
  <2>4. NextAttribute(b, read) = Read(l, m + 1, more)
    BY <1>0, <1>16, <2>3 DEF Read, end
  <2>5. QED
    BY <1>5, <2>4 DEF IsRead
<1>22. QED
  BY <1>20, <1>21

\* What the loop computes.
LoopStart(b) == [v |-> [types |-> Get16(b, 0), length |-> Get16(b, 2),
                    transID |-> Slice(b, 4, 20), attributes |-> <<>>], pos |-> 20]
Loops(g, b, m) == g = [k \in 0..m |-> IF k = 0 THEN LoopStart(b) ELSE NextAttribute(b, g[k - 1])]

\* The loop of newPacketFromBytes is defined ...
LEMMA LoopsExist == ASSUME NEW b, NEW n \in Nat PROVE \E g : Loops(g, b, n)
<1> DEFINE T == {m \in Nat : \E g : Loops(g, b, m)}
<1>1. 0 \in T
  <2> DEFINE g == [k \in 0..0 |-> LoopStart(b)]
  <2>1. Loops(g, b, 0)
    BY DEF Loops
  <2>2. QED
    BY <2>1
<1>2. ASSUME NEW m \in Nat, m \in T PROVE m + 1 \in T
  <2>1. PICK g : Loops(g, b, m)
    BY <1>2
  <2> DEFINE h == [k \in 0..(m + 1) |-> IF k = 0 THEN LoopStart(b) ELSE NextAttribute(b, g[k - 1])]
  <2>2. \A k \in 0..m : h[k] = g[k]
    <3>1. \A k \in 0..m : g[k] = IF k = 0 THEN LoopStart(b) ELSE NextAttribute(b, g[k - 1])
      BY <2>1 DEF Loops
    <3>2. \A k \in 0..m : h[k] = IF k = 0 THEN LoopStart(b) ELSE NextAttribute(b, g[k - 1])
      OBVIOUS
    <3> HIDE DEF h
    <3>3. QED
      BY <3>1, <3>2
  <2>3. \A k \in 0..(m + 1) : k # 0 => h[k - 1] = g[k - 1]
    <3>1. \A k \in 0..(m + 1) : k # 0 => k - 1 \in 0..m
      OBVIOUS
    <3> HIDE DEF h
    <3>2. QED
      BY <2>2, <3>1
  <2>4. Loops(h, b, m + 1)
    BY <2>3 DEF Loops
  <2> HIDE DEF h
  <2>5. QED
    BY <2>4
<1> HIDE DEF T
<1>3. n \in T
  BY <1>1, <1>2, FromZero
<1>4. QED
  BY <1>3 DEF T

\* ... and takes one attribute after the other.
LEMMA ParseUnfolds ==
  ASSUME NEW b, Len(b) \in Nat, Len(b) >= 24
  PROVE  \E g : /\ g[0] = LoopStart(b) /\ newPacketFromBytes(b) = g[Len(b) \div 4].v
                /\ \A k \in Nat : k < Len(b) => g[k + 1] = NextAttribute(b, g[k])
<1> DEFINE g == CHOOSE g : g = [k \in 0..Len(b) |->
                  IF k = 0
                    THEN [v |-> [types |-> Get16(b, 0), length |-> Get16(b, 2),
                                 transID |-> Slice(b, 4, 20), attributes |-> <<>>], pos |-> 20]
                    ELSE NextAttribute(b, g[k - 1])]
<1>1. Loops(g, b, Len(b))
  <2>1. \E h : Loops(h, b, Len(b))
    BY LoopsExist
  <2>2. QED
    BY <2>1 DEF Loops, LoopStart
<1>2. newPacketFromBytes(b) = g[Len(b) \div 4].v
  <2>1. ~(Len(b) < 24)
    OBVIOUS
  <2>2. QED
    BY <2>1 DEF newPacketFromBytes
<1> HIDE DEF g
<1>3. g[0] = LoopStart(b)
  BY <1>1 DEF Loops
<1>4. ASSUME NEW k \in Nat, k < Len(b) PROVE g[k + 1] = NextAttribute(b, g[k])
  <2>1. k + 1 \in 0..Len(b) /\ k + 1 # 0 /\ (k + 1) - 1 = k
    BY <1>4
  <2>2. QED
    BY <1>1, <2>1 DEF Loops
<1>5. QED
  BY <1>2, <1>3, <1>4

\* A whole packet is read as it was laid out; a cut one as a prefix of that, or not.
LEMMA Parsed ==
  ASSUME NEW l, Laid(l), l.n > 0, NEW b, Cut(b, l.w), NEW c, c = newPacketFromBytes(b)
  PROVE  /\ c = Error \/ \E m \in 0..l.n : \E length : c = Read(l, m, length).v
         /\ Len(b) = Len(l.w) => c # Error /\ \E length : c = Read(l, l.n, length).v
<1>0. /\ Len(b) \in Nat /\ l.n \in Nat /\ Len(l.w) \in Nat /\ Len(b) <= Len(l.w)
      /\ l.at[0] = 20 /\ l.at[l.n] = Len(l.w)
  BY DEF Laid, Cut
<1>1. 20 + 4 * l.n <= Len(l.w)
  <2>1. l.n \in 0..l.n
    BY <1>0
  <2>2. QED
    BY <1>0, <2>1, Grid
<1>2. CASE Len(b) < 24
  <2>1. c = Error
    BY <1>2 DEF newPacketFromBytes
  <2>2. Len(b) # Len(l.w)
    BY <1>0, <1>1, <1>2
  <2>3. QED
    BY <2>1, <2>2
<1>3. CASE ~(Len(b) < 24)
  <2>1. PICK g : /\ g[0] = LoopStart(b) /\ newPacketFromBytes(b) = g[Len(b) \div 4].v
                 /\ \A k \in Nat : k < Len(b) => g[k + 1] = NextAttribute(b, g[k])
    BY <1>0, <1>3, ParseUnfolds
  <2> DEFINE Good(j) == \/ g[j].v = Error /\ Len(b) # Len(l.w)
                        \/ \E m \in 0..l.n : IsRead(l, g[j], m) /\ (m = j \/ l.at[m] >= Len(b))
             T == {j \in Nat : j <= Len(b) => Good(j)}
  <2>2. 0 \in T
    <3>1. \A i \in 1..20 : i \in DOMAIN b /\ i \in DOMAIN b /\ b[i] = l.w[i]
      <4>1. \A i \in 1..20 : i \in 1..Len(b)
        BY <1>0, <1>3
      <4>2. QED
        BY <4>1 DEF Cut
    <3>2. Get16(b, 0) = Get16(l.w, 0)
      BY <3>1 DEF Get16
    <3>3. Slice(b, 4, 20) = Slice(l.w, 4, 20)
      <4>1. \A i \in 1..16 : 4 + i \in 1..20
        OBVIOUS
      <4>2. \A i \in 1..16 : (IF 4 + i \in DOMAIN b THEN b[4 + i] ELSE 0) = l.w[4 + i]
        BY <3>1, <4>1
      <4>3. \A i \in 1..16 : (IF 4 + i \in DOMAIN l.w THEN l.w[4 + i] ELSE 0) = l.w[4 + i]
        BY <1>0, <1>3, <4>1 DEF Laid
      <4>4. QED
        BY <4>2, <4>3 DEF Slice
    <3>4. First(l, 0) = << >>
      BY DEF First
    <3>5. LoopStart(b) = Read(l, 0, Get16(b, 2))
      BY <1>0, <3>2, <3>3, <3>4 DEF LoopStart, Read, Packet
    <3>6. IsRead(l, g[0], 0) /\ 0 \in 0..l.n
      BY <1>0, <2>1, <3>5 DEF IsRead
    <3>7. QED
      BY <3>6
  <2>3. ASSUME NEW j \in Nat, j \in T PROVE j + 1 \in T
    <3> SUFFICES ASSUME j + 1 <= Len(b) PROVE Good(j + 1)
      OBVIOUS
    <3>1. j < Len(b) /\ j <= Len(b)
      BY <1>0
    <3>2. Good(j) /\ g[j + 1] = NextAttribute(b, g[j])
      BY <2>1, <2>3, <3>1
    <3>3. CASE g[j].v = Error /\ Len(b) # Len(l.w)
      BY <3>2, <3>3 DEF NextAttribute
    <3>4. ASSUME NEW m \in 0..l.n, IsRead(l, g[j], m), m = j \/ l.at[m] >= Len(b)
          PROVE  Good(j + 1)
      <4>1. CASE l.at[m] < Len(b)
        <5>0. l.at[m] \in Nat
          BY Grid
        <5>1. m = j
          BY <1>0, <3>4, <4>1, <5>0
        <5>2. \/ NextAttribute(b, g[j]).v = Error /\ Len(b) # Len(l.w)
              \/ m < l.n /\ IsRead(l, NextAttribute(b, g[j]), m + 1)
          BY <3>4, <4>1, ReadsOne
        <5>3. m < l.n => m + 1 \in 0..l.n
          BY <1>0
        <5>4. QED
          BY <3>2, <5>1, <5>2, <5>3
      <4>2. CASE ~(l.at[m] < Len(b))
        <5>1. l.at[m] >= Len(b)
          BY <1>0, <4>2, Grid
        <5>2. g[j].pos = l.at[m]
          BY <3>4 DEF IsRead, Read
        <5>3. NextAttribute(b, g[j]) = g[j]
          BY <5>1, <5>2 DEF NextAttribute
        <5>4. QED
          BY <3>2, <3>4, <5>1, <5>3
      <4>3. QED
        BY <4>1, <4>2
    <3>5. QED
      BY <3>2, <3>3, <3>4
  <2> DEFINE last == Len(b) \div 4
  <2>4. last \in Nat /\ last <= Len(b) /\ 4 * last = Len(b)
    BY <1>0, ByFour DEF Cut
  <2>5. Good(last)
    <3> HIDE DEF Good, last
    <3>1. \A j \in Nat : j \in T => j + 1 \in T
      BY <2>3
    <3> HIDE DEF T
    <3>2. last \in T
      BY <2>2, <2>4, <3>1, FromZero
    <3>3. QED
      BY <2>4, <3>2 DEF T
  <2>6. c = g[last].v
    BY <2>1
  <2> HIDE DEF last
  <2>7. CASE c = Error /\ Len(b) # Len(l.w)
    BY <2>7
  <2>8. ASSUME NEW m \in 0..l.n, IsRead(l, g[last], m), m = last \/ l.at[m] >= Len(b)
        PROVE  /\ \E length : c = Read(l, m, length).v
               /\ Len(b) = Len(l.w) => m = l.n
    <3>1. \E length : c = Read(l, m, length).v
      BY <2>6, <2>8 DEF IsRead
    <3>2. ASSUME Len(b) = Len(l.w) PROVE m = l.n
      <4>1. l.at[m] \in Nat /\ 20 + 4 * m <= l.at[m] /\ l.at[m] <= Len(l.w)
        BY Grid
      <4>2. m # last
        BY <1>0, <2>4, <3>2, <4>1
      <4>3. l.at[m] = l.at[l.n]
        BY <1>0, <2>8, <3>2, <4>1, <4>2
      <4>4. ASSUME m < l.n PROVE FALSE
        <5>1. Carries(l, m, l.types[m + 1], l.values[m + 1])
          BY <1>0, <4>4 DEF Laid
        <5> DEFINE size == Len(l.values[m + 1])
        <5>2. size \in Nat /\ size <= 65532 /\ l.at[m + 1] = l.at[m] + 4 + align(size)
          BY <5>1 DEF Carries
        <5> HIDE DEF size
        <5>6. align(size) \in Nat
          BY <5>2, Aligned
        <5>3. m + 1 \in 0..l.n
          BY <1>0, <4>4
        <5>4. l.at[m + 1] <= Len(l.w)
          BY <5>3, Grid
        <5>5. QED
          BY <1>0, <4>1, <4>3, <5>2, <5>4, <5>6
      <4>5. QED
        BY <1>0, <4>4
    <3>3. QED
      BY <3>1, <3>2
  <2>9. QED
    BY <2>5, <2>6, <2>7, <2>8, NotError
<1>4. QED
  BY <1>2, <1>3

-----------------------------------------------------------------------------
\* A piece that carries a value of a type, with the space after it.
IsPiece(x, types, value) ==
  /\ Len(value) \in Nat /\ Len(value) <= 65532 /\ value = [i \in 1..Len(value) |-> value[i]]
  /\ Len(x) = 4 + align(Len(value)) /\ Placed(x, 4, value)
  /\ Get16(x, 0) = types /\ Get16(x, 2) = Len(value)

\* A word of a piece is a word of what has the piece.
LEMMA GetPlaced ==
  ASSUME NEW z, NEW p \in Nat, NEW x, Placed(z, p, x), Len(x) \in Nat, NEW i \in Nat, i + 2 <= Len(x),
         NEW q, q = p + i
  PROVE  Get16(z, q) = Get16(x, i)
<1>1. i + 1 \in 1..Len(x) /\ i + 2 \in 1..Len(x)
  OBVIOUS
<1>2. z[p + (i + 1)] = x[i + 1] /\ z[p + (i + 2)] = x[i + 2]
  BY <1>1 DEF Placed
<1>3. p + (i + 1) = q + 1 /\ p + (i + 2) = q + 2
  OBVIOUS
<1>4. QED
  BY <1>2, <1>3 DEF Get16

\* What a piece carries is where the piece is.
LEMMA PieceAt ==
  ASSUME NEW w, Len(w) \in Nat, NEW x, Len(x) \in Nat, NEW from \in Nat, Placed(w, from, x),
         NEW types, NEW value, IsPiece(x, types, value)
  PROVE  /\ Get16(w, from) = types /\ Get16(w, from + 2) = Len(value)
         /\ Placed(w, from + 4, value)
<1>1. /\ Len(value) \in Nat /\ Len(value) <= 65532
      /\ Len(x) = 4 + align(Len(value)) /\ Placed(x, 4, value)
      /\ Get16(x, 0) = types /\ Get16(x, 2) = Len(value)
  BY DEF IsPiece
<1>2. align(Len(value)) \in Nat
  BY <1>1, Aligned
<1>3. 0 + 2 <= Len(x) /\ 2 + 2 <= Len(x)
  BY <1>1, <1>2
<1>4. 0 \in Nat /\ 2 \in Nat /\ 4 \in Nat /\ from = from + 0
  OBVIOUS
<1>5. Get16(w, from) = Get16(x, 0)
  <2>1. 1 \in 1..Len(x) /\ 2 \in 1..Len(x)
    BY <1>3
  <2>2. w[from + 1] = x[1] /\ w[from + 2] = x[2]
    BY <2>1 DEF Placed
  <2>3. QED
    BY <2>2 DEF Get16
<1>6. Get16(w, from + 2) = Get16(x, 2)
  BY <1>3, <1>4, GetPlaced
<1>7. Placed(w, from + 4, value)
  BY <1>1, <1>4, PlacedWithin
<1>8. QED
  BY <1>1, <1>5, <1>6, <1>7

Pieces(s, types, values) == \A k \in 1..Len(s) : IsPiece(s[k], types[k], values[k])

\* Where a piece lies once 20 bytes precede them all, and what is there.
LEMMA CarriesPiece ==
  ASSUME NEW w, Len(w) \in Nat, NEW flat, Len(flat) \in Nat, Placed(w, 20, flat),
         NEW x, Len(x) \in Nat, NEW pos \in Nat, Placed(flat, pos, x),
         NEW types, NEW value, IsPiece(x, types, value), NEW from, from = 20 + pos
  PROVE  /\ from \in Nat /\ from + Len(x) = from + 4 + align(Len(value))
         /\ Len(value) \in Nat /\ Len(value) <= 65532 /\ value = [i \in 1..Len(value) |-> value[i]]
         /\ Get16(w, from) = types /\ Get16(w, from + 2) = Len(value)
         /\ Placed(w, from + 4, value)
<1> DEFINE size == Len(value)
<1>1. from \in Nat /\ 20 \in Nat
  OBVIOUS
<1>2. Placed(w, from, x)
  BY <1>1, PlacedWithin
<1>3. size \in Nat /\ size <= 65532 /\ value = [i \in 1..size |-> value[i]] /\ Len(x) = 4 + align(size)
  BY DEF IsPiece
<1> HIDE DEF size
<1>4. align(size) \in Nat
  BY <1>3, Aligned
<1>5. from + Len(x) = from + 4 + align(size)
  BY <1>1, <1>3, <1>4
<1>6. Get16(w, from) = types /\ Get16(w, from + 2) = size /\ Placed(w, from + 4, value)
  BY <1>1, <1>2, PieceAt DEF size
<1>7. QED
  BY <1>1, <1>3, <1>5, <1>6 DEF size

Lays(l, w, n, types, values) == /\ Laid(l) /\ l.w = w /\ l.n = n
                                /\ l.types = types /\ l.values = values

\* A packet w: a head of 20 bytes, and pieces that begin at these distances from it.
Around(w, flat, s, at) ==
  /\ Len(w) \in Nat /\ DOMAIN w = 1..Len(w) /\ Len(w) < 65536
  /\ Len(flat) \in Nat /\ Len(w) = 20 + Len(flat) /\ Placed(w, 20, flat)
  /\ Len(s) \in Nat /\ \A k \in 1..Len(s) : Len(s[k]) \in Nat
  /\ at[0] = 0 /\ at[Len(s)] = Len(flat)
  /\ \A k \in 0..(Len(s) - 1) : /\ at[k] \in Nat /\ at[k + 1] = at[k] + Len(s[k + 1])
                                /\ Placed(flat, at[k], s[k + 1])

\* Each attribute is carried where its piece is ...
LEMMA AroundOne ==
  ASSUME NEW w, NEW flat, NEW s, NEW at, Around(w, flat, s, at),
         NEW types, NEW values, Pieces(s, types, values),
         NEW k \in 0..(Len(s) - 1), NEW l, l.w = w,
         l.at[k] = 20 + at[k], l.at[k + 1] = 20 + at[k + 1]
  PROVE  Carries(l, k, types[k + 1], values[k + 1])
<1> DEFINE x == s[k + 1]
           now == at[k]
           next == at[k + 1]
           here == l.at[k]
           there == l.at[k + 1]
           value == values[k + 1]
           size == Len(value)
<1>1. k + 1 \in 1..Len(s) /\ Len(s) \in Nat
  BY DEF Around
<1>2. IsPiece(x, types[k + 1], value)
  BY <1>1 DEF Pieces
<1>3. /\ Len(w) \in Nat /\ Len(flat) \in Nat /\ Placed(w, 20, flat) /\ Len(x) \in Nat
      /\ now \in Nat /\ next = now + Len(x) /\ Placed(flat, now, x)
  BY <1>1 DEF Around
<1>4. here = 20 + now /\ there = 20 + next
  OBVIOUS
<1> HIDE DEF x, now, next, here, there, value, size
<1>5. there = here + Len(x)
  BY <1>3, <1>4
<1>6. /\ here \in Nat /\ here + Len(x) = here + 4 + align(size)
      /\ size \in Nat /\ size <= 65532 /\ value = [i \in 1..size |-> value[i]]
      /\ Get16(w, here) = types[k + 1] /\ Get16(w, here + 2) = size
      /\ Placed(w, here + 4, value)
  BY <1>2, <1>3, <1>4, CarriesPiece DEF size
<1>7. there = here + 4 + align(size)
  BY <1>5, <1>6
<1>8. QED
  BY <1>6, <1>7 DEF Carries, here, there, value, size

\* ... so that a packet of a head and pieces is laid out.
LEMMA LaidAround ==
  ASSUME NEW w, NEW flat, NEW s, NEW at, Around(w, flat, s, at),
         NEW types, NEW values, Pieces(s, types, values)
  PROVE  \E l : Lays(l, w, Len(s), types, values)
<1> DEFINE n == Len(s)
           from == [k \in 0..n |-> 20 + at[k]]
           l == [w |-> w, n |-> n, at |-> from, types |-> types, values |-> values]
<1>1. l.w = w /\ l.n = n /\ l.at = from /\ l.types = types /\ l.values = values
  OBVIOUS
<1>2. \A k \in 0..n : from[k] = 20 + at[k]
  OBVIOUS
<1>3. /\ Len(w) \in Nat /\ DOMAIN w = 1..Len(w) /\ Len(w) < 65536 /\ Len(w) = 20 + Len(flat)
      /\ n \in Nat /\ at[0] = 0 /\ at[n] = Len(flat)
  BY DEF Around
<1> HIDE DEF l, from, n
<1>4. from[0] = 20 /\ from[n] = Len(w)
  <2>1. 0 \in 0..n /\ n \in 0..n
    BY <1>3
  <2>2. from[0] = 20 + at[0]
    BY <1>2, <2>1
  <2>3. from[n] = 20 + at[n]
    BY <1>2, <2>1
  <2>4. QED
    BY <1>3, <2>2, <2>3
<1>5. ASSUME NEW k \in 0..(n - 1) PROVE Carries(l, k, types[k + 1], values[k + 1])
  <2>1. k \in 0..n /\ k + 1 \in 0..n
    BY <1>3
  <2>2. l.at[k] = 20 + at[k]
    BY <1>1, <1>2, <2>1
  <2>3. l.at[k + 1] = 20 + at[k + 1]
    BY <1>1, <1>2, <2>1
  <2>4. k \in 0..(Len(s) - 1)
    BY DEF n
  <2>5. QED
    BY <1>1, <2>2, <2>3, <2>4, AroundOne
<1>6. Laid(l)
  BY <1>1, <1>3, <1>4, <1>5 DEF Laid
<1>7. Lays(l, w, n, types, values)
  BY <1>1, <1>6 DEF Lays
<1>8. QED
  BY <1>7 DEF n

AfterHead(w, flat) ==
  /\ Len(w) = 20 + Len(flat) /\ Placed(w, 20, flat)
  /\ Len(w) \in Nat /\ DOMAIN w = 1..Len(w) /\ Len(flat) \in Nat

\* What follows a head of 20 bytes begins there.
LEMMA IsAfterHead ==
  ASSUME NEW S, NEW head \in Seq(S), Len(head) = 20, NEW flat \in Seq(S)
  PROVE  AfterHead(head \o flat, flat)
<1>1. /\ head \o flat \in Seq(S) /\ Len(head \o flat) = Len(head) + Len(flat)
      /\ Placed(head \o flat, Len(head), flat)
  BY PlacedBoth
<1>2. QED
  BY <1>1, LenProperties DEF AfterHead

Falls(flat, s, at) ==
  /\ Len(s) \in Nat /\ \A k \in 1..Len(s) : Len(s[k]) \in Nat
  /\ at[0] = 0 /\ at[Len(s)] = Len(flat)
  /\ \A k \in 0..(Len(s) - 1) : /\ at[k] \in Nat /\ at[k + 1] = at[k] + Len(s[k + 1])
                                /\ Placed(flat, at[k], s[k + 1])

\* A head, and what falls into pieces.
LEMMA FallsAround ==
  ASSUME NEW w, NEW flat, AfterHead(w, flat), Len(w) < 65536, NEW s, NEW at, Falls(flat, s, at)
  PROVE  Around(w, flat, s, at)
BY DEF AfterHead, Around, Falls

\* A head that is joined with pieces lays them out as a packet.
LEMMA LaidOut ==
  ASSUME NEW S, NEW s \in Seq(Seq(S)), s # <<>>, NEW head \in Seq(S), Len(head) = 20,
         Len(head \o FlattenSeq(s)) < 65536, NEW types, NEW values, Pieces(s, types, values)
  PROVE  \E l : Lays(l, head \o FlattenSeq(s), Len(s), types, values)
<1>1. FlattenSeq(s) \in Seq(S)
  BY Joined
<1>2. PICK at : Joints(s, at)
  BY Joined
<1>3. Len(s) \in Nat /\ \A k \in 1..Len(s) : Len(s[k]) \in Nat
  OBVIOUS
<1>4. Falls(FlattenSeq(s), s, at)
  BY <1>2, <1>3 DEF Joints, Falls
<1>5. AfterHead(head \o FlattenSeq(s), FlattenSeq(s))
  BY <1>1, IsAfterHead
<1> DEFINE w == head \o FlattenSeq(s)
           flat == FlattenSeq(s)
<1>6. AfterHead(w, flat) /\ Len(w) < 65536 /\ Falls(flat, s, at)
  BY <1>4, <1>5
<1> HIDE DEF w, flat
<1>7. Around(w, flat, s, at)
  BY <1>6, FallsAround
<1>8. \E l : Lays(l, w, Len(s), types, values)
  BY <1>7, LaidAround
<1>9. QED
  BY <1>8 DEF w

\* A slice takes out what is there.
LEMMA SlicePlaced ==
  ASSUME NEW S, NEW z \in Seq(S), NEW y \in Seq(S), NEW p \in Nat, Placed(z, p, y)
  PROVE  Slice(z, p, p + Len(y)) = y
<1>1. Len(y) \in Nat /\ Len(z) \in Nat /\ DOMAIN z = 1..Len(z)
  OBVIOUS
<1>2. (p + Len(y)) - p = Len(y) /\ p + Len(y) <= Len(z)
  BY <1>1 DEF Placed
<1>3. ASSUME NEW i \in 1..Len(y) PROVE p + i \in DOMAIN z /\ z[p + i] = y[i]
  <2>1. p + i \in 1..Len(z)
    BY <1>1, <1>2
  <2>2. QED
    BY <1>1, <2>1 DEF Placed
<1>4. Slice(z, p, p + Len(y)) = [i \in 1..Len(y) |-> y[i]]
  BY <1>2, <1>3 DEF Slice
<1>5. QED
  BY <1>4

\* A sequence with more elements, and none when that is not a number of elements.
More(x, n, e) == x \o [k \in 1..n |-> e]

\* A sequence is at the front of the longer one.
LEMMA Padded ==
  ASSUME NEW S, NEW x \in Seq(S), NEW n \in Int, NEW e \in S
  PROVE  /\ More(x, n, e) \in Seq(S) /\ Len(More(x, n, e)) \in Nat /\ Len(x) \in Nat
         /\ Len(x) <= Len(More(x, n, e)) /\ Placed(More(x, n, e), 0, x)
         /\ n \in Nat => Len(More(x, n, e)) = Len(x) + n
         /\ n = 0 => More(x, n, e) = x
<1> DEFINE z == [k \in 1..n |-> e]
           y == x \o z
<1>0. More(x, n, e) = y
  BY DEF More
<1>1. z \in Seq(S) /\ (n \in Nat => Len(z) = n)
  <2>1. CASE n \in Nat
    <3>1. \A k \in 1..n : e \in S
      OBVIOUS
    <3>2. z \in Seq(S) /\ Len(z) = n
      BY <2>1, IsASeq
    <3>3. QED
      BY <3>2
  <2>2. CASE n \notin Nat
    <3>1. 1..n = {} /\ 1..0 = {}
      BY <2>2
    <3>2. z = [k \in 1..0 |-> e]
      BY <3>1
    <3>3. z \in Seq(S)
      BY <3>2, IsASeq
    <3>4. QED
      BY <2>2, <3>3
  <2>3. QED
    BY <2>1, <2>2
<1> HIDE DEF z
<1>2. y = x \o z
  OBVIOUS
<1>3. y \in Seq(S) /\ Len(y) = Len(x) + Len(z) /\ Placed(y, 0, x) /\ Len(x) \in Nat /\ Len(z) \in Nat
  BY <1>1, <1>2, PlacedBoth, LenProperties
<1>4. n = 0 => y = x
  <2>1. n = 0 => z = << >>
    BY <1>1, EmptySeq
  <2>2. QED
    BY <1>2, <2>1, ConcatEmptySeq
<1>5. n \in Nat => Len(y) = Len(x) + n
  BY <1>1, <1>3
<1>6. Len(x) <= Len(y) /\ Len(y) \in Nat
  <2>1. \A i, j \in Nat : i <= i + j /\ i + j \in Nat
    OBVIOUS
  <2>2. Len(x) <= Len(x) + Len(z) /\ Len(x) + Len(z) \in Nat
    BY <1>3, <2>1
  <2>3. QED
    BY <1>3, <2>2
<1> HIDE DEF y
<1>7. QED
  BY <1>0, <1>3, <1>4, <1>5, <1>6

\* Joining is determined by how it proceeds.
Proceeds(all, s) == /\ all[0] = <<>>
                    /\ \A k \in 0..(Len(s) - 1) : all[k + 1] = all[k] \o s[k + 1]

\* Any function that proceeds so gives what FlattenSeq gives.
LEMMA FlattenIs ==
  ASSUME NEW S, NEW s \in Seq(Seq(S)), s # <<>>, NEW all, Proceeds(all, s)
  PROVE  FlattenSeq(s) = all[Len(s)]
<1>1. PICK g : /\ g[0] = <<>> /\ g[Len(s)] = FlattenSeq(s)
               /\ \A k \in 0..(Len(s) - 1) : g[k + 1] = g[k] \o s[k + 1]
  BY FlattenUnfolds
<1>2. /\ all[0] = <<>>
      /\ \A k \in 0..(Len(s) - 1) : all[k + 1] = all[k] \o s[k + 1]
  BY DEF Proceeds
<1>3. Len(s) \in Nat
  OBVIOUS
<1> DEFINE T == {m \in Nat : m <= Len(s) => g[m] = all[m]}
<1>4. 0 \in T
  BY <1>1, <1>2
<1>5. ASSUME NEW m \in Nat, m \in T PROVE m + 1 \in T
  <2> SUFFICES ASSUME m + 1 <= Len(s) PROVE g[m + 1] = all[m + 1]
    OBVIOUS
  <2>1. m \in 0..(Len(s) - 1) /\ m <= Len(s)
    BY <1>3
  <2>2. g[m] = all[m]
    BY <1>5, <2>1
  <2>3. g[m + 1] = g[m] \o s[m + 1] /\ all[m + 1] = all[m] \o s[m + 1]
    BY <1>1, <1>2, <2>1
  <2>4. QED
    BY <2>2, <2>3
<1> HIDE DEF T
<1>6. Len(s) \in T
  BY <1>3, <1>4, <1>5, FromZero
<1>7. QED
  BY <1>1, <1>3, <1>6 DEF T

\* No pieces, nothing joined.
LEMMA FlattenEmpty == FlattenSeq(<< >>) = << >>
BY DEF FlattenSeq

\* Joining proceeds by the pieces, also when there are none.
LEMMA UnfoldsAny ==
  ASSUME NEW S, NEW s \in Seq(Seq(S))
  PROVE  \E all : Proceeds(all, s) /\ all[Len(s)] = FlattenSeq(s)
<1>1. CASE s = <<>>
  <2> DEFINE all == [k \in {0} |-> <<>>]
  <2>1. all[0] = <<>> /\ Len(s) = 0 /\ FlattenSeq(s) = <<>>
    BY <1>1, FlattenEmpty
  <2>2. 0..(Len(s) - 1) = {}
    BY <2>1
  <2> HIDE DEF all
  <2>3. Proceeds(all, s) /\ all[Len(s)] = FlattenSeq(s)
    BY <2>1, <2>2 DEF Proceeds
  <2>4. QED
    BY <2>3
<1>2. CASE s # <<>>
  <2>1. PICK g : /\ g[0] = <<>> /\ g[Len(s)] = FlattenSeq(s)
                 /\ \A k \in 0..(Len(s) - 1) : g[k + 1] = g[k] \o s[k + 1]
    BY <1>2, FlattenUnfolds
  <2>2. QED
    BY <2>1 DEF Proceeds
<1>3. QED
  BY <1>1, <1>2

\* Joining one more piece adds it at the end.
LEMMA FlattenAppend ==
  ASSUME NEW S, NEW s \in Seq(Seq(S)), NEW p \in Seq(S)
  PROVE  FlattenSeq(Append(s, p)) = FlattenSeq(s) \o p
<1>1. PICK g : Proceeds(g, s) /\ g[Len(s)] = FlattenSeq(s)
  BY UnfoldsAny
<1> DEFINE t == Append(s, p)
           n == Len(s)
           all == [k \in 0..(n + 1) |-> IF k = n + 1 THEN g[n] \o p ELSE g[k]]
<1>2. /\ n \in Nat /\ t \in Seq(Seq(S)) /\ Len(t) = n + 1
      /\ \A k \in 1..n : t[k] = s[k]
      /\ t[n + 1] = p
  OBVIOUS
<1>3. \A k \in 0..(n + 1) : all[k] = IF k = n + 1 THEN g[n] \o p ELSE g[k]
  OBVIOUS
<1>4. g[0] = <<>> /\ \A k \in 0..(n - 1) : g[k + 1] = g[k] \o s[k + 1]
  BY <1>1 DEF Proceeds
<1> HIDE DEF t, n, all
<1>5. all[0] = <<>>
  BY <1>2, <1>3, <1>4
<1>6. ASSUME NEW k \in 0..n PROVE all[k + 1] = all[k] \o t[k + 1]
  <2>1. k \in 0..(n + 1) /\ k # n + 1 /\ k + 1 \in 0..(n + 1)
    BY <1>2
  <2>2. all[k] = g[k]
    BY <1>3, <2>1
  <2>3. CASE k = n
    <3>1. all[n + 1] = g[n] \o p
      BY <1>3, <2>1, <2>3
    <3>2. QED
      BY <1>2, <2>2, <2>3, <3>1
  <2>4. CASE k # n
    <3>1. k \in 0..(n - 1) /\ k + 1 # n + 1 /\ k + 1 \in 1..n
      BY <1>2, <2>4
    <3>2. all[k + 1] = g[k + 1]
      BY <1>3, <2>1, <3>1
    <3>3. QED
      BY <1>2, <1>4, <2>2, <3>1, <3>2
  <2>5. QED
    BY <2>3, <2>4
<1>7. Proceeds(all, t)
  <2>1. Len(t) - 1 = n
    BY <1>2
  <2>2. QED
    BY <1>5, <1>6, <2>1 DEF Proceeds
<1>8. t # <<>>
  BY <1>2
<1>9. FlattenSeq(t) = all[n + 1]
  BY <1>2, <1>7, <1>8, FlattenIs
<1>10. n + 1 \in 0..(n + 1)
  BY <1>2
<1>11. FlattenSeq(t) = FlattenSeq(s) \o p
  BY <1>1, <1>3, <1>9, <1>10 DEF n
<1>12. QED
  BY <1>11 DEF t
-----------------------------------------------------------------------------
Attributes(S) == [types : Words, length : Words, value : Seq(S)]
Piece(a) == Put16(a.types) \o Put16(a.length) \o a.value
Pieced(attributes) == [k \in DOMAIN attributes |-> Piece(attributes[k])]
Body(v) == FlattenSeq(Pieced(v.attributes))
Packets(S) == [types : Words, length : Words, transID : {id \in Seq(S) : Len(id) = 16},
               attributes : Seq(Attributes(S))]

\* An attribute on the wire: its type, its length and its value.
LEMMA PieceIs ==
  ASSUME NEW S, Bytes \subseteq S, NEW a \in Attributes(S)
  PROVE  /\ Piece(a) \in Seq(S) /\ Len(Piece(a)) = 4 + Len(a.value)
         /\ Placed(Piece(a), 4, a.value)
         /\ Get16(Piece(a), 0) = a.types /\ Get16(Piece(a), 2) = a.length
<1> DEFINE x == Put16(a.types)
           y == Put16(a.length)
           z == a.value
<1>1. a.types \in Words /\ a.length \in Words /\ z \in Seq(S)
  BY DEF Attributes
<1>2. /\ x \in Seq(Bytes) /\ Len(x) = 2 /\ x[1] * 256 + x[2] = a.types
      /\ y \in Seq(Bytes) /\ Len(y) = 2 /\ y[1] * 256 + y[2] = a.length
  BY <1>1, PutWord
<1>3. Piece(a) = x \o y \o z
  BY DEF Piece
<1> HIDE DEF x, y, z
<1>4. x \in Seq(S) /\ y \in Seq(S)
  BY <1>2
<1>5. /\ x \o y \in Seq(S) /\ Len(x \o y) = Len(x) + Len(y)
      /\ Placed(x \o y, 0, x) /\ Placed(x \o y, Len(x), y)
  BY <1>4, PlacedBoth
<1> DEFINE h == x \o y
<1>6. /\ h \in Seq(S) /\ Len(h) = 4
      /\ h[1] = x[1] /\ h[2] = x[2] /\ h[3] = y[1] /\ h[4] = y[2]
  <2>1. 0 + 1 = 1 /\ 0 + 2 = 2 /\ 2 + 1 = 3 /\ 2 + 2 = 4 /\ 1 \in 1..2 /\ 2 \in 1..2
    OBVIOUS
  <2>2. QED
    BY <1>2, <1>5, <2>1 DEF Placed
<1>7. Piece(a) = h \o z
  BY <1>3
<1> HIDE DEF h
<1>8. /\ Piece(a) \in Seq(S) /\ Len(Piece(a)) = Len(h) + Len(z)
      /\ Placed(Piece(a), 0, h) /\ Placed(Piece(a), Len(h), z)
  <2>1. /\ h \o z \in Seq(S) /\ Len(h \o z) = Len(h) + Len(z)
        /\ Placed(h \o z, 0, h) /\ Placed(h \o z, Len(h), z)
    BY <1>1, <1>6, PlacedBoth
  <2>2. QED
    BY <1>7, <2>1
<1>9. \A i \in 1..4 : Piece(a)[i] = h[i]
  BY <1>6, <1>8 DEF Placed
<1>10. Get16(Piece(a), 0) = a.types /\ Get16(Piece(a), 2) = a.length
  <2>1. /\ Piece(a)[1] = x[1] /\ Piece(a)[2] = x[2] /\ Piece(a)[3] = y[1] /\ Piece(a)[4] = y[2]
    BY <1>6, <1>9
  <2>2. Get16(Piece(a), 0) = x[1] * 256 + x[2] /\ Get16(Piece(a), 2) = y[1] * 256 + y[2]
    BY <2>1 DEF Get16, Byte
  <2>3. QED
    BY <1>2, <2>2
<1>11. QED
  BY <1>6, <1>8, <1>10 DEF z

\* Words are the numbers of two bytes.
LEMMA AWord ==
  /\ \A x \in Words : x \in Nat /\ x < 65536
  /\ \A i \in Nat : i % 65536 \in Words
<1>1. \A x \in Words : x \in Nat /\ x < 65536
  BY DEF Words
<1>2. ASSUME NEW i \in Nat PROVE i % 65536 \in Words
  <2> DEFINE n == 65535
             k == i % 65536
  <2>1. n \in Int /\ k \in Int /\ 0 <= k /\ k <= n
    OBVIOUS
  <2>2. Words = 0..n
    BY DEF Words
  <2> HIDE DEF k, n
  <2>3. k \in Words
    BY <2>1, <2>2
  <2>4. QED
    BY <2>3 DEF k
<1>3. QED
  BY <1>1, <1>2

\* The fields of a packet with one more attribute.
LEMMA AddFields ==
  ASSUME NEW types, NEW length, NEW id, NEW attrs, NEW a,
         NEW v, v = [types |-> types, length |-> length, transID |-> id, attributes |-> attrs]
  PROVE  addAttribute(v, a) = [types |-> types, transID |-> id,
                               length |-> (length + align(a.length) + 4) % 65536,
                               attributes |-> Append(attrs, a)]
<1> DEFINE more == (v.length + align(a.length) + 4) % 65536
           next == Append(v.attributes, a)
<1>1. addAttribute(v, a) = [v EXCEPT !.attributes = next, !.length = more]
  BY DEF addAttribute, Word16
<1>2. next = Append(attrs, a) /\ more = (length + align(a.length) + 4) % 65536
  OBVIOUS
<1> HIDE DEF more, next
<1>3. addAttribute(v, a) = [types |-> types, transID |-> id, length |-> more, attributes |-> next]
  BY <1>1
<1>4. QED
  BY <1>2, <1>3

\* The pieces of attributes, one for each.
LEMMA PiecesAre ==
  ASSUME NEW S, Bytes \subseteq S, NEW attrs \in Seq(Attributes(S))
  PROVE  /\ Pieced(attrs) \in Seq(Seq(S)) /\ Len(Pieced(attrs)) = Len(attrs)
         /\ \A k \in 1..Len(attrs) : Pieced(attrs)[k] = Piece(attrs[k])
<1>1. /\ DOMAIN attrs = 1..Len(attrs) /\ Len(attrs) \in Nat
      /\ \A k \in 1..Len(attrs) : attrs[k] \in Attributes(S)
  OBVIOUS
<1>2. \A k \in 1..Len(attrs) : Piece(attrs[k]) \in Seq(S)
  BY <1>1, PieceIs
<1>3. Pieced(attrs) = [k \in 1..Len(attrs) |-> Piece(attrs[k])]
  BY <1>1 DEF Pieced
<1>4. Pieced(attrs) \in Seq(Seq(S)) /\ Len(Pieced(attrs)) = Len(attrs)
  BY <1>1, <1>2, <1>3, IsASeq
<1>5. QED
  BY <1>3, <1>4

\* One more attribute is one more piece.
LEMMA PiecedMore ==
  ASSUME NEW S, Bytes \subseteq S, NEW attrs \in Seq(Attributes(S)), NEW a \in Attributes(S)
  PROVE  Pieced(Append(attrs, a)) = Append(Pieced(attrs), Piece(a))
<1> DEFINE n == Len(attrs)
           more == Append(attrs, a)
           p == Pieced(attrs)
<1>1. /\ n \in Nat /\ more \in Seq(Attributes(S)) /\ Len(more) = n + 1
      /\ \A k \in 1..(n + 1) : more[k] = IF k = n + 1 THEN a ELSE attrs[k]
  BY AppendProperties
<1>2. p \in Seq(Seq(S)) /\ Len(p) = n /\ \A k \in 1..n : p[k] = Piece(attrs[k])
  BY PiecesAre
<1>3. Piece(a) \in Seq(S)
  BY PieceIs
<1> HIDE DEF n, more, p
<1>4. /\ Pieced(more) \in Seq(Seq(S)) /\ Len(Pieced(more)) = n + 1
      /\ \A k \in 1..(n + 1) : Pieced(more)[k] = Piece(more[k])
  BY <1>1, PiecesAre
<1>5. /\ Append(p, Piece(a)) \in Seq(Seq(S)) /\ Len(Append(p, Piece(a))) = n + 1
      /\ \A k \in 1..(n + 1) : Append(p, Piece(a))[k] = IF k = n + 1 THEN Piece(a) ELSE p[k]
  BY <1>2, <1>3, AppendProperties
<1>6. ASSUME NEW k \in 1..(n + 1) PROVE Pieced(more)[k] = Append(p, Piece(a))[k]
  <2>1. CASE k = n + 1
    BY <1>1, <1>4, <1>5, <2>1
  <2>2. CASE k # n + 1
    <3>1. k \in 1..n
      BY <1>1, <2>2
    <3>2. QED
      BY <1>1, <1>2, <1>4, <1>5, <2>2, <3>1
  <2>3. QED
    BY <2>1, <2>2
<1>7. Pieced(more) = Append(p, Piece(a))
  BY <1>4, <1>5, <1>6, SeqEqual
<1>8. QED
  BY <1>7 DEF more, p

\* An attribute that is added extends the body of the packet.
Added(v, a) == [types |-> v.types, transID |-> v.transID,
                length |-> (v.length + align(a.length) + 4) % 65536,
                attributes |-> Append(v.attributes, a)]

\* The body grows by the piece of the attribute.
LEMMA BodyMore ==
  ASSUME NEW S, Bytes \subseteq S, NEW v \in Packets(S), NEW a \in Attributes(S)
  PROVE  /\ addAttribute(v, a) \in Packets(S)
         /\ addAttribute(v, a) = Added(v, a)
         /\ Body(v) \in Seq(S) /\ Body(addAttribute(v, a)) = Body(v) \o Piece(a)
<1> DEFINE attrs == v.attributes
           more == (v.length + align(a.length) + 4) % 65536
           w == [types |-> v.types, transID |-> v.transID, length |-> more,
                 attributes |-> Append(attrs, a)]
<1>1. /\ v.types \in Words /\ v.length \in Words /\ v.transID \in Seq(S) /\ Len(v.transID) = 16
      /\ attrs \in Seq(Attributes(S)) /\ a.length \in Words
  BY DEF Packets, Attributes
<1>2. more \in Words
  <2>1. v.length \in Nat /\ a.length \in Nat
    BY <1>1, AWord
  <2>2. align(a.length) \in Nat
    <3>1. \A i \in Nat : i % 65536 \in Nat
      OBVIOUS
    <3>2. (a.length + 3) % 65536 \in Nat
      BY <2>1, <3>1
    <3>3. ((a.length + 3) % 65536) \div 4 \in Nat
      BY <3>2, ByFour
    <3>4. QED
      BY <3>3 DEF align, Word16
  <2>3. \A i \in Nat : i % 65536 \in Words
    BY AWord
  <2>4. v.length + align(a.length) + 4 \in Nat
    BY <2>1, <2>2
  <2>5. QED
    BY <2>3, <2>4
<1>3. addAttribute(v, a) = w
  BY AddFields DEF Packets
<1>4. Append(attrs, a) \in Seq(Attributes(S))
  BY <1>1
<1> HIDE DEF more
<1>5. w \in Packets(S)
  BY <1>1, <1>2, <1>4 DEF Packets
<1>6. Pieced(Append(attrs, a)) = Append(Pieced(attrs), Piece(a))
  BY <1>1, PiecedMore
<1>7. Pieced(attrs) \in Seq(Seq(S)) /\ Piece(a) \in Seq(S)
  BY <1>1, PiecesAre, PieceIs
<1>8. FlattenSeq(Append(Pieced(attrs), Piece(a))) = FlattenSeq(Pieced(attrs)) \o Piece(a)
  BY <1>7, FlattenAppend
<1>9. FlattenSeq(Pieced(attrs)) \in Seq(S)
  <2>1. CASE Pieced(attrs) = <<>>
    BY <2>1, FlattenEmpty, EmptySeq
  <2>2. CASE Pieced(attrs) # <<>>
    BY <1>7, <2>2, Joined
  <2>3. QED
    BY <2>1, <2>2
<1>10. Body(w) = Body(v) \o Piece(a)
  BY <1>6, <1>8 DEF Body
<1>11. Body(v) \in Seq(S)
  BY <1>9 DEF Body
<1>12. addAttribute(v, a) \in Packets(S) /\ Body(addAttribute(v, a)) = Body(v) \o Piece(a)
  BY <1>3, <1>5, <1>10
<1>13. Added(v, a) = w
  BY DEF Added, more
<1>14. QED
  BY <1>3, <1>11, <1>12, <1>13

\* A packet of a type, a length and an identity, before its attributes.
HeadOf(types, length, id) == Put16(types) \o Put16(length) \o id

Headed(w, types, length, id) ==
  Get16(w, 0) = types /\ Get16(w, 2) = length /\ Slice(w, 4, 20) = id

\* The head has 20 bytes and ends with the identity ...
LEMMA HeadIs ==
  ASSUME NEW S, Bytes \subseteq S, NEW types \in Words, NEW length \in Words,
         NEW id \in Seq(S), Len(id) = 16
  PROVE  /\ HeadOf(types, length, id) \in Seq(S) /\ Len(HeadOf(types, length, id)) = 20
         /\ Placed(HeadOf(types, length, id), 4, id)
         /\ Get16(HeadOf(types, length, id), 0) = types /\ Get16(HeadOf(types, length, id), 2) = length
<1> DEFINE a == [types |-> types, length |-> length, value |-> id]
<1>1. a \in Attributes(S)
  BY DEF Attributes
<1>2. Piece(a) = HeadOf(types, length, id)
  BY DEF Piece, HeadOf
<1>3. a.value = id /\ a.types = types /\ a.length = length
  OBVIOUS
<1> HIDE DEF a
<1>4. /\ Piece(a) \in Seq(S) /\ Len(Piece(a)) = 4 + Len(a.value)
      /\ Placed(Piece(a), 4, a.value)
      /\ Get16(Piece(a), 0) = a.types /\ Get16(Piece(a), 2) = a.length
  BY <1>1, PieceIs
<1>5. QED
  BY <1>2, <1>3, <1>4

\* ... which are read from what begins with it.
LEMMA HeadedIs ==
  ASSUME NEW S, Bytes \subseteq S, NEW types \in Words, NEW length \in Words,
         NEW id \in Seq(S), Len(id) = 16, NEW flat \in Seq(S)
  PROVE  Headed(HeadOf(types, length, id) \o flat, types, length, id)
<1> DEFINE h == HeadOf(types, length, id)
           w == h \o flat
<1>1. /\ h \in Seq(S) /\ Len(h) = 20 /\ Placed(h, 4, id)
      /\ Get16(h, 0) = types /\ Get16(h, 2) = length
  BY HeadIs
<1> HIDE DEF h
<1>2. w \in Seq(S) /\ Len(w) = Len(h) + Len(flat) /\ Placed(w, 0, h)
  BY <1>1, PlacedBoth
<1> HIDE DEF w
<1>3. Len(w) \in Nat /\ Len(h) \in Nat /\ Len(id) \in Nat
  BY <1>1, <1>2, LenProperties
<1>4. ASSUME NEW i \in 1..20 PROVE w[i] = h[i]
  <2>1. i \in 1..Len(h) /\ 0 + i = i
    BY <1>1
  <2>2. w[0 + i] = h[i]
    BY <1>2, <2>1 DEF Placed
  <2>3. QED
    BY <2>1, <2>2
<1>5. Get16(w, 0) = Get16(h, 0) /\ Get16(w, 2) = Get16(h, 2)
  <2>1. w[1] = h[1] /\ w[2] = h[2] /\ w[3] = h[3] /\ w[4] = h[4]
    BY <1>4
  <2>2. QED
    BY <2>1 DEF Get16
<1>6. Placed(w, 4, id)
  <2>1. Placed(w, 0 + 4, id)
    BY <1>1, <1>2, <1>3, PlacedWithin
  <2>2. QED
    BY <2>1
<1>7. Slice(w, 4, 4 + Len(id)) = id
  BY <1>2, <1>6, SlicePlaced
<1>8. Headed(w, types, length, id)
  BY <1>1, <1>5, <1>7 DEF Headed
<1>9. QED
  BY <1>8 DEF w, h

\* What is read of a packet that is laid out as a head and pieces.
Understood(c, types, id, attributes) == \E length : c = Packet(types, length, id, attributes)
Taken(types, values, m) == [k \in 1..m |-> newAttribute(types[k], values[k])]

ReadWhole(w, t, id, types, values, n) ==
  /\ Len(w) = 4 * (Len(w) \div 4)
  /\ newPacketFromBytes(w) # Error
  /\ Understood(newPacketFromBytes(w), t, id, Taken(types, values, n))
ReadCut(w, t, id, types, values, n) ==
  \A b : Cut(b, w) =>
    \/ newPacketFromBytes(b) = Error
    \/ \E m \in 0..n : Understood(newPacketFromBytes(b), t, id, Taken(types, values, m))

\* A packet is also one that is cut at its end.
LEMMA CutNone ==
  ASSUME NEW w, Len(w) \in Nat, DOMAIN w = 1..Len(w), Len(w) = 4 * (Len(w) \div 4)
  PROVE  Cut(w, w)
<1> DEFINE n == Len(w)
           q == n \div 4
<1>1. n \in Nat /\ DOMAIN w = 1..n /\ n = 4 * q
  OBVIOUS
<1>2. n <= n
  BY <1>1
<1>3. \A i \in 1..n : w[i] = w[i]
  OBVIOUS
<1> HIDE DEF q
<1>4. QED
  BY <1>1, <1>2, <1>3 DEF Cut, q

\* A packet that is laid out is read as it is, a cut one as a prefix or not at all.
LEMMA LaysRead ==
  ASSUME NEW l, NEW w, NEW n \in Nat, NEW types, NEW values, Lays(l, w, n, types, values), n > 0,
         NEW t, NEW length, NEW id, Headed(w, t, length, id)
  PROVE  ReadWhole(w, t, id, types, values, n) /\ ReadCut(w, t, id, types, values, n)
<1>1. Laid(l) /\ l.w = w /\ l.n = n /\ l.types = types /\ l.values = values
  BY DEF Lays
<1>2. Len(w) \in Nat /\ DOMAIN w = 1..Len(w) /\ l.at[n] = Len(w)
  BY <1>1 DEF Laid
<1>3. Len(w) = 4 * (Len(w) \div 4)
  <2>1. n \in 0..l.n
    BY <1>1
  <2>2. QED
    BY <1>1, <1>2, <2>1, Grid
<1>4. ASSUME NEW m PROVE First(l, m) = Taken(types, values, m)
  BY <1>1 DEF First, Taken
<1>5. ASSUME NEW c, NEW m, NEW some, c = Read(l, m, some).v
      PROVE  Understood(c, t, id, Taken(types, values, m))
  BY <1>1, <1>4, <1>5 DEF Read, Headed, Understood
<1>6. Cut(w, l.w) /\ l.n > 0
  <2>1. Cut(w, w)
    BY <1>2, <1>3, CutNone
  <2>2. QED
    BY <1>1, <2>1
<1>7. ASSUME NEW b, Cut(b, l.w)
      PROVE  LET c == newPacketFromBytes(b) IN
               /\ c = Error \/ \E m \in 0..l.n : \E some : c = Read(l, m, some).v
               /\ Len(b) = Len(l.w) => c # Error /\ \E some : c = Read(l, l.n, some).v
  <2> DEFINE c == newPacketFromBytes(b)
  <2> HIDE DEF c
  <2>1. c = newPacketFromBytes(b)
    BY DEF c
  <2>2. /\ c = Error \/ \E m \in 0..l.n : \E some : c = Read(l, m, some).v
        /\ Len(b) = Len(l.w) => c # Error /\ \E some : c = Read(l, l.n, some).v
    BY <1>1, <1>6, <1>7, <2>1, Parsed
  <2>3. QED
    BY <2>1, <2>2
<1>8. newPacketFromBytes(w) # Error /\ \E some : newPacketFromBytes(w) = Read(l, n, some).v
  BY <1>1, <1>6, <1>7
<1>9. ReadWhole(w, t, id, types, values, n)
  BY <1>3, <1>5, <1>8 DEF ReadWhole
<1>10. ReadCut(w, t, id, types, values, n)
  BY <1>1, <1>5, <1>7 DEF ReadCut
<1>11. QED
  BY <1>9, <1>10

Built(S, head, s, types, values) ==
  /\ s \in Seq(Seq(S)) /\ s # <<>> /\ head \in Seq(S) /\ Len(head) = 20
  /\ Pieces(s, types, values) /\ Len(head \o FlattenSeq(s)) < 65536

\* So is a head that is joined with pieces, whatever they carry.
LEMMA PacketRead ==
  ASSUME NEW S, NEW s, NEW head, NEW types, NEW values, Built(S, head, s, types, values),
         NEW t, NEW length, NEW id, Headed(head \o FlattenSeq(s), t, length, id)
  PROVE  /\ ReadWhole(head \o FlattenSeq(s), t, id, types, values, Len(s))
         /\ ReadCut(head \o FlattenSeq(s), t, id, types, values, Len(s))
<1> DEFINE n == Len(s)
           w == head \o FlattenSeq(s)
<1>1. n \in Nat /\ n > 0
  BY EmptySeq DEF Built
<1>2. \E l : Lays(l, w, n, types, values)
  <2>1. /\ s \in Seq(Seq(S)) /\ s # <<>> /\ head \in Seq(S) /\ Len(head) = 20
        /\ Pieces(s, types, values) /\ Len(head \o FlattenSeq(s)) < 65536
    BY DEF Built
  <2>2. QED
    BY <2>1, LaidOut
<1>3. Headed(w, t, length, id)
  OBVIOUS
<1> HIDE DEF n, w
<1>4. PICK l : Lays(l, w, n, types, values)
  BY <1>2
<1>5. ReadWhole(w, t, id, types, values, n) /\ ReadCut(w, t, id, types, values, n)
  BY <1>1, <1>3, <1>4, LaysRead
<1>6. QED
  BY <1>5 DEF w, n

\* What a length is aligned to is a number, whatever the length.
LEMMA AlignNat == ASSUME NEW k \in Nat PROVE align(k) \in Nat
<1>1. \A i \in Nat : i % 65536 \in Nat
  OBVIOUS
<1>2. (k + 3) % 65536 \in Nat
  BY <1>1
<1>3. ((k + 3) % 65536) \div 4 \in Nat
  BY <1>2, ByFour
<1>4. QED
  BY <1>3 DEF align, Word16

\* Padding keeps the value and adds what lacks to a multiple of four.
LEMMA PaddingIs ==
  ASSUME NEW S, 0 \in S, NEW value \in Seq(S)
  PROVE  /\ padding(value) \in Seq(S) /\ Len(padding(value)) \in Nat /\ Len(value) \in Nat
         /\ Len(value) <= Len(padding(value))
         /\ Len(value) <= 65532 => Len(padding(value)) = align(Len(value))
         /\ align(Len(value)) = Len(value) => padding(value) = value
<1> DEFINE size == Len(value)
           n == align(size) - size
           y == padding(value)
<1>1. size \in Nat
  OBVIOUS
<1>2. align(size) \in Nat
  <2> HIDE DEF size
  <2>1. QED
    BY <1>1, AlignNat
<1>3. n \in Int
  <2> HIDE DEF size
  <2>1. QED
    BY <1>1, <1>2
<1>4. y = More(value, n, 0)
  BY DEF padding, Zeros, More
<1> HIDE DEF n, y
<1>5. /\ y \in Seq(S) /\ Len(y) \in Nat /\ Len(value) \in Nat /\ Len(value) <= Len(y)
      /\ n \in Nat => Len(y) = Len(value) + n
      /\ n = 0 => y = value
  <2>1. /\ More(value, n, 0) \in Seq(S) /\ Len(More(value, n, 0)) \in Nat
        /\ Len(value) \in Nat /\ Len(value) <= Len(More(value, n, 0))
        /\ n \in Nat => Len(More(value, n, 0)) = Len(value) + n
        /\ n = 0 => More(value, n, 0) = value
    BY <1>3, Padded
  <2>2. QED
    BY <1>4, <2>1
<1> HIDE DEF size
<1>6. ASSUME size <= 65532 PROVE Len(y) = align(size)
  <2>1. size <= align(size)
    BY <1>1, <1>6, Space
  <2>2. n \in Nat /\ size + n = align(size)
    BY <1>1, <1>2, <2>1 DEF n
  <2>3. QED
    BY <1>5, <2>2 DEF size
<1>7. ASSUME align(size) = size PROVE y = value
  <2>1. n = 0
    BY <1>1, <1>7 DEF n
  <2>2. QED
    BY <1>5, <2>1
<1>8. QED
  BY <1>5, <1>6, <1>7 DEF size, y

\* An attribute whose length is that of its value, which needs no more padding.
Whole(S, a) == /\ a \in Attributes(S) /\ a.length = Len(a.value) /\ Len(a.value) \in Nat
               /\ Len(a.value) <= 65532 /\ align(Len(a.value)) = Len(a.value)

\* What newAttribute builds.
LEMMA NewIs ==
  ASSUME NEW S, 0 \in S, NEW types \in Words, NEW value \in Seq(S)
  PROVE  /\ newAttribute(types, value) \in Attributes(S)
         /\ newAttribute(types, value).value = padding(value)
         /\ Len(value) <= 65532 => /\ Whole(S, newAttribute(types, value))
                                   /\ newAttribute(types, value).length = align(Len(value))
<1> DEFINE y == padding(value)
           a == newAttribute(types, value)
           size == Len(value)
<1>1. /\ y \in Seq(S) /\ Len(y) \in Nat /\ size \in Nat
      /\ size <= 65532 => Len(y) = align(size)
  BY PaddingIs
<1>2. a = [types |-> types, length |-> Len(y) % 65536, value |-> y]
  BY DEF newAttribute, Word16
<1> HIDE DEF y, a, size
<1>3. Len(y) % 65536 \in Words
  BY <1>1, AWord
<1>4. a \in Attributes(S) /\ a.value = y /\ a.length = Len(y) % 65536
  BY <1>1, <1>2, <1>3 DEF Attributes
<1>5. ASSUME size <= 65532 PROVE Whole(S, a) /\ a.length = align(size)
  <2>1. align(size) \in Nat /\ align(size) <= 65532 /\ align(align(size)) = align(size)
    BY <1>1, <1>5, Aligned
  <2>2. Len(y) = align(size)
    BY <1>1, <1>5
  <2>3. Len(y) % 65536 = Len(y)
    BY <2>1, <2>2, InWord
  <2>4. QED
    BY <1>4, <2>1, <2>2, <2>3 DEF Whole
<1>6. QED
  BY <1>4, <1>5 DEF a, y, size

\* It is the same when it is built again from what is read.
LEMMA Again ==
  ASSUME NEW S, 0 \in S, NEW a, Whole(S, a)
  PROVE  newAttribute(a.types, a.value) = a
<1>1. /\ a \in Attributes(S) /\ a.length = Len(a.value) /\ Len(a.value) \in Nat
      /\ Len(a.value) <= 65532 /\ align(Len(a.value)) = Len(a.value)
  BY DEF Whole
<1> DEFINE value == a.value
           types == a.types
           size == Len(value)
<1>2. a = [types |-> types, length |-> size, value |-> value] /\ value \in Seq(S)
  BY <1>1 DEF Attributes
<1>3. size \in Nat /\ size <= 65532 /\ align(size) = size
  BY <1>1
<1> HIDE DEF value, types
<1>4. padding(value) = value
  BY <1>2, <1>3, PaddingIs
<1> HIDE DEF size
<1>5. size % 65536 = size
  BY <1>3, InWord
<1>6. newAttribute(types, value) = [types |-> types, length |-> size, value |-> value]
  BY <1>4, <1>5 DEF newAttribute, size, Word16
<1>7. newAttribute(types, value) = a
  BY <1>2, <1>6
<1>8. QED
  BY <1>7 DEF types, value

\* A whole attribute is a piece that carries its value.
LEMMA WholePiece ==
  ASSUME NEW S, Bytes \subseteq S, NEW a, Whole(S, a)
  PROVE  /\ IsPiece(Piece(a), a.types, a.value) /\ Piece(a) \in Seq(S)
         /\ Len(Piece(a)) = 4 + a.length
<1>1. /\ a \in Attributes(S) /\ a.length = Len(a.value) /\ Len(a.value) \in Nat
      /\ Len(a.value) <= 65532 /\ align(Len(a.value)) = Len(a.value)
  BY DEF Whole
<1>2. a.value \in Seq(S)
  BY <1>1 DEF Attributes
<1>3. a.value = [i \in 1..Len(a.value) |-> a.value[i]]
  <2> DEFINE value == a.value
  <2>1. value \in Seq(S)
    BY <1>2
  <2> HIDE DEF value
  <2>2. value = [i \in 1..Len(value) |-> value[i]]
    BY <2>1
  <2>3. QED
    BY <2>2 DEF value
<1>4. /\ Piece(a) \in Seq(S) /\ Len(Piece(a)) = 4 + Len(a.value)
      /\ Placed(Piece(a), 4, a.value)
      /\ Get16(Piece(a), 0) = a.types /\ Get16(Piece(a), 2) = a.length
  BY <1>1, PieceIs
<1>5. QED
  BY <1>1, <1>3, <1>4 DEF IsPiece

\* A packet whose length is that of its attributes, which are whole.
Sized(S, v) == /\ v \in Packets(S) /\ v.length = Len(Body(v))
               /\ \A k \in 1..Len(v.attributes) : Whole(S, v.attributes[k])

\* A packet without attributes has a length that is a word.
LEMMA ZeroWord == 0 \in Words
<1>1. 0 \in Nat /\ 0 % 65536 = 0
  OBVIOUS
<1>2. QED
  BY <1>1, AWord

\* A packet without attributes has the length 0.
LEMMA NewSized ==
  ASSUME NEW S, NEW types \in Words, NEW id \in Seq(S), Len(id) = 16, NEW v,
         v = [types |-> types, length |-> 0, transID |-> id, attributes |-> <<>>]
  PROVE  Sized(S, v) /\ Body(v) = <<>>
<1>1. v \in Packets(S)
  <2>1. 0 \in Words
    BY ZeroWord
  <2>2. <<>> \in Seq(Attributes(S))
    BY EmptySeq
  <2>3. QED
    BY <2>1, <2>2 DEF Packets
<1>2. Pieced(<<>>) = <<>>
  BY DEF Pieced
<1>3. Body(v) = <<>>
  BY <1>2, FlattenEmpty DEF Body
<1>4. Len(Body(v)) = 0 /\ Len(v.attributes) = 0
  BY <1>3
<1>5. 1..0 = {}
  OBVIOUS
<1>6. QED
  BY <1>1, <1>3, <1>4, <1>5 DEF Sized

Room(v, a) == v.length + 4 + a.length < 65536

\* One more attribute, for which there is room, keeps the length right.
LEMMA AddSized ==
  ASSUME NEW S, Bytes \subseteq S, NEW v, Sized(S, v), NEW a, Whole(S, a), Room(v, a)
  PROVE  /\ Sized(S, addAttribute(v, a))
         /\ addAttribute(v, a).length = v.length + 4 + a.length
<1> DEFINE w == addAttribute(v, a)
           attrs == v.attributes
           size == a.length
           length == v.length
<1>1. v \in Packets(S) /\ length = Len(Body(v)) /\ \A k \in 1..Len(attrs) : Whole(S, attrs[k])
  BY DEF Sized
<1>2. a \in Attributes(S) /\ size \in Nat /\ align(size) = size /\ size = Len(a.value)
  BY DEF Whole
<1>3. /\ w \in Packets(S) /\ w = Added(v, a)
      /\ Body(v) \in Seq(S) /\ Body(w) = Body(v) \o Piece(a)
  BY <1>1, <1>2, BodyMore
<1>4. Piece(a) \in Seq(S) /\ Len(Piece(a)) = 4 + size
  <2>1. \A e : Whole(S, e) => Piece(e) \in Seq(S) /\ Len(Piece(e)) = 4 + e.length
    BY WholePiece
  <2>2. QED
    BY <2>1
<1>5. length \in Nat /\ length + 4 + size < 65536
  BY <1>1, <1>3, LenProperties DEF Room
<1>6. w.length = (length + align(size) + 4) % 65536 /\ w.attributes = Append(attrs, a)
  BY <1>3 DEF Added
<1> HIDE DEF w, size, length
<1>7. w.length = length + 4 + size
  <2>1. size \in Nat
    BY <1>2
  <2>2. (length + 4 + size) % 65536 = length + 4 + size
    BY <1>5, <2>1, InWord
  <2>3. align(size) = size
    BY <1>2
  <2>4. length + align(size) + 4 = length + 4 + size
    BY <1>5, <2>1, <2>3
  <2>5. QED
    BY <1>6, <2>2, <2>4
<1>8. Len(Body(w)) = w.length
  <2>1. Len(Body(v) \o Piece(a)) = Len(Body(v)) + Len(Piece(a))
    BY <1>3, <1>4, PlacedBoth
  <2>2. Len(Body(w)) = length + (4 + size)
    BY <1>1, <1>3, <1>4, <2>1
  <2>3. size \in Nat
    BY <1>2
  <2>4. QED
    BY <1>5, <1>7, <2>2, <2>3
<1>9. ASSUME NEW k \in 1..Len(w.attributes) PROVE Whole(S, w.attributes[k])
  <2>1. attrs \in Seq(Attributes(S))
    BY <1>1 DEF Packets
  <2> HIDE DEF attrs
  <2>2. /\ Len(Append(attrs, a)) = Len(attrs) + 1 /\ Len(attrs) \in Nat
        /\ \A i \in 1..(Len(attrs) + 1) : Append(attrs, a)[i] = IF i = Len(attrs) + 1 THEN a ELSE attrs[i]
    BY <1>2, <2>1, AppendProperties, LenProperties
  <2>3. k \in 1..(Len(attrs) + 1)
    BY <1>6, <2>2
  <2>4. w.attributes[k] = IF k = Len(attrs) + 1 THEN a ELSE attrs[k]
    BY <1>6, <2>2, <2>3
  <2>5. CASE k = Len(attrs) + 1
    BY <2>4, <2>5
  <2>6. CASE k # Len(attrs) + 1
    <3>1. k \in 1..Len(attrs)
      BY <2>2, <2>3, <2>6
    <3>2. QED
      BY <1>1, <2>4, <2>6, <3>1
  <2>7. QED
    BY <2>5, <2>6
<1>10. Sized(S, w)
  BY <1>3, <1>8, <1>9 DEF Sized
<1>11. QED
  BY <1>7, <1>10 DEF w, length, size

\* The bytes of a packet as a head and pieces.
TypesOf(attrs) == [k \in DOMAIN attrs |-> attrs[k].types]
ValuesOf(attrs) == [k \in DOMAIN attrs |-> attrs[k].value]
HeadsOf(v) == HeadOf(v.types, v.length, v.transID)
FlatOf(v) == FlattenSeq(Pieced(v.attributes))
Ready(S, v) == Bytes \subseteq S /\ Sized(S, v) /\ v.attributes # <<>> /\ 20 + v.length < 65536

\* The bytes of a packet are a head and its joined pieces.
LEMMA BytesFlat == ASSUME NEW v PROVE bytes(v) = HeadsOf(v) \o FlatOf(v)
BY DEF bytes, HeadsOf, HeadOf, FlatOf, Pieced, Piece

\* The pieces of whole attributes carry their types and values.
LEMMA PiecesWhole ==
  ASSUME NEW S, Bytes \subseteq S, NEW attrs \in Seq(Attributes(S)),
         \A k \in 1..Len(attrs) : Whole(S, attrs[k])
  PROVE  Pieces(Pieced(attrs), TypesOf(attrs), ValuesOf(attrs))
<1>1. DOMAIN attrs = 1..Len(attrs)
  OBVIOUS
<1>2. Len(Pieced(attrs)) = Len(attrs) /\ \A k \in 1..Len(attrs) : Pieced(attrs)[k] = Piece(attrs[k])
  BY PiecesAre
<1>3. \A k \in 1..Len(attrs) :
        TypesOf(attrs)[k] = attrs[k].types /\ ValuesOf(attrs)[k] = attrs[k].value
  BY <1>1 DEF TypesOf, ValuesOf
<1>4. \A a : Whole(S, a) => IsPiece(Piece(a), a.types, a.value)
  BY WholePiece
<1>5. \A k \in 1..Len(attrs) : IsPiece(Piece(attrs[k]), attrs[k].types, attrs[k].value)
  BY <1>4
<1>6. QED
  BY <1>2, <1>3, <1>5 DEF Pieces

\* A packet whose length is right is built of a head and pieces.
LEMMA ReadyBuilt ==
  ASSUME NEW S, NEW v, Ready(S, v)
  PROVE  /\ Len(bytes(v)) = 20 + v.length
         /\ Headed(HeadsOf(v) \o FlatOf(v), v.types, v.length, v.transID)
         /\ Built(S, HeadsOf(v), Pieced(v.attributes), TypesOf(v.attributes), ValuesOf(v.attributes))
<1> DEFINE attrs == v.attributes
           p == Pieced(attrs)
           t == v.types
           length == v.length
           id == v.transID
           h == HeadsOf(v)
           flat == FlatOf(v)
<1>1. /\ Bytes \subseteq S /\ v \in Packets(S) /\ length = Len(Body(v))
      /\ \A k \in 1..Len(attrs) : Whole(S, attrs[k])
      /\ attrs # <<>> /\ 20 + length < 65536
  BY DEF Ready, Sized
<1>2. t \in Words /\ length \in Words /\ id \in Seq(S) /\ Len(id) = 16 /\ attrs \in Seq(Attributes(S))
  BY <1>1 DEF Packets
<1>3. flat = Body(v) /\ flat = FlattenSeq(p) /\ h = HeadOf(t, length, id) /\ bytes(v) = h \o flat
  BY BytesFlat DEF Body, HeadsOf, FlatOf
<1> HIDE DEF attrs, t, length, id, h, flat
<1>4. h \in Seq(S) /\ Len(h) = 20
  <2>1. HeadOf(t, length, id) \in Seq(S) /\ Len(HeadOf(t, length, id)) = 20
    BY <1>1, <1>2, HeadIs
  <2>2. QED
    BY <1>3, <2>1
<1>5. p \in Seq(Seq(S)) /\ Len(p) = Len(attrs) /\ Pieces(p, TypesOf(attrs), ValuesOf(attrs))
  BY <1>1, <1>2, PiecesAre, PiecesWhole
<1>6. p # <<>>
  <2>1. Len(attrs) # 0
    BY <1>1, <1>2, EmptySeq
  <2>2. QED
    BY <1>5, <2>1
<1> HIDE DEF p
<1>7. flat \in Seq(S)
  <2>1. FlattenSeq(p) \in Seq(S)
    BY <1>5, <1>6, Joined
  <2>2. QED
    BY <1>3, <2>1
<1>8. Len(h \o flat) = 20 + length
  <2>1. Len(h \o flat) = Len(h) + Len(flat)
    BY <1>4, <1>7, PlacedBoth
  <2>2. Len(flat) = length
    BY <1>1, <1>3
  <2>3. QED
    BY <1>4, <2>1, <2>2
<1>9. Headed(h \o flat, t, length, id)
  <2>1. Headed(HeadOf(t, length, id) \o flat, t, length, id)
    BY <1>1, <1>2, <1>7, HeadedIs
  <2>2. QED
    BY <1>3, <2>1
<1>10. Built(S, h, p, TypesOf(attrs), ValuesOf(attrs))
  <2>1. Len(h \o FlattenSeq(p)) < 65536
    <3>1. h \o FlattenSeq(p) = h \o flat
      BY <1>3
    <3>2. 20 + length < 65536
      BY <1>1
    <3>3. QED
      BY <1>8, <3>1, <3>2
  <2>2. QED
    BY <1>4, <1>5, <1>6, <2>1 DEF Built
<1>11. Len(bytes(v)) = 20 + length
  BY <1>3, <1>8
<1>12. QED
  BY <1>9, <1>10, <1>11 DEF h, flat, p, attrs, t, length, id

\* A packet that is ready is read as it was, apart from the length.
LEMMA TakenWhole ==
  ASSUME NEW S, 0 \in S, NEW attrs \in Seq(Attributes(S)),
         \A k \in 1..Len(attrs) : Whole(S, attrs[k])
  PROVE  Taken(TypesOf(attrs), ValuesOf(attrs), Len(attrs)) = attrs
<1> DEFINE n == Len(attrs)
<1>1. n \in Nat /\ DOMAIN attrs = 1..n
  OBVIOUS
<1>2. \A a : Whole(S, a) => newAttribute(a.types, a.value) = a
  BY Again
<1>3. \A k \in 1..n : newAttribute(attrs[k].types, attrs[k].value) = attrs[k]
  BY <1>2
<1>4. \A k \in 1..n : TypesOf(attrs)[k] = attrs[k].types /\ ValuesOf(attrs)[k] = attrs[k].value
  BY <1>1 DEF TypesOf, ValuesOf
<1> HIDE DEF n
<1>5. Taken(TypesOf(attrs), ValuesOf(attrs), n) = [k \in 1..n |-> attrs[k]]
  BY <1>3, <1>4 DEF Taken
<1>6. [k \in 1..n |-> attrs[k]] = attrs
  BY <1>1 DEF n
<1>7. QED
  BY <1>5, <1>6 DEF n

\* Packets that differ only in their length.
LEMMA Renamed ==
  ASSUME NEW types, NEW length, NEW id, NEW attrs, NEW some, NEW v, NEW c,
         v = Packet(types, length, id, attrs), c = Packet(types, some, id, attrs)
  PROVE  [c EXCEPT !.length = v.length] = v
BY DEF Packet

\* A packet is its fields.
LEMMA PacketIs ==
  ASSUME NEW S, NEW v \in Packets(S)
  PROVE  v = Packet(v.types, v.length, v.transID, v.attributes)
BY DEF Packets, Packet

ArrivesAs(v) ==
  /\ Get16(bytes(v), 2) = v.length /\ Len(bytes(v)) = 20 + v.length
  /\ Len(bytes(v)) = 4 * (Len(bytes(v)) \div 4)
  /\ newPacketFromBytes(bytes(v)) # Error
  /\ [newPacketFromBytes(bytes(v)) EXCEPT !.length = v.length] = v

\* A packet that is ready arrives: it is read as it was, apart from the length.
LEMMA ReadyArrives ==
  ASSUME NEW S, NEW v, Ready(S, v), 0 \in S
  PROVE  ArrivesAs(v)
<1> DEFINE attrs == v.attributes
           p == Pieced(attrs)
           b == HeadsOf(v) \o FlatOf(v)
           c == newPacketFromBytes(b)
<1>1. /\ Bytes \subseteq S /\ v \in Packets(S)
      /\ \A k \in 1..Len(attrs) : Whole(S, attrs[k])
  BY DEF Ready, Sized
<1>2. attrs \in Seq(Attributes(S))
  BY <1>1 DEF Packets
<1>3. Len(bytes(v)) = 20 + v.length /\ bytes(v) = b
  BY ReadyBuilt, BytesFlat
<1>4. Headed(b, v.types, v.length, v.transID)
  BY ReadyBuilt
<1>5. Built(S, HeadsOf(v), p, TypesOf(attrs), ValuesOf(attrs))
  BY ReadyBuilt
<1>6. b = HeadsOf(v) \o FlattenSeq(p)
  BY DEF FlatOf
<1>7. Len(p) = Len(attrs)
  BY <1>1, <1>2, PiecesAre
<1>8. Taken(TypesOf(attrs), ValuesOf(attrs), Len(attrs)) = attrs
  BY <1>1, <1>2, TakenWhole
<1>9. v = Packet(v.types, v.length, v.transID, attrs)
  BY <1>1, PacketIs
<1> HIDE DEF attrs, p, b
<1>10. ReadWhole(b, v.types, v.transID, TypesOf(attrs), ValuesOf(attrs), Len(p))
  <2>1. Headed(HeadsOf(v) \o FlattenSeq(p), v.types, v.length, v.transID)
    BY <1>4, <1>6
  <2>2. ReadWhole(HeadsOf(v) \o FlattenSeq(p), v.types, v.transID, TypesOf(attrs), ValuesOf(attrs), Len(p))
    BY <1>5, <2>1, PacketRead
  <2>3. QED
    BY <1>6, <2>2
<1>11. Len(b) = 4 * (Len(b) \div 4) /\ c # Error /\ Understood(c, v.types, v.transID, attrs)
  BY <1>7, <1>8, <1>10 DEF ReadWhole
<1> HIDE DEF c
<1>12. PICK some : c = Packet(v.types, some, v.transID, attrs)
  BY <1>11 DEF Understood
<1>13. [c EXCEPT !.length = v.length] = v
  BY <1>9, <1>12, Renamed
<1>14. Get16(b, 2) = v.length
  BY <1>4 DEF Headed
<1>15. QED
  BY <1>3, <1>11, <1>13, <1>14 DEF ArrivesAs, c
-----------------------------------------------------------------------------
\* The last attribute is a checksum of all bytes before it, as they are sent.
Longer(u) == [u EXCEPT !.length = LengthThen(u)]
Signed(u) == addAttribute(u, newFingerprintAttribute(Longer(u)))
IsSigned(u, b) == /\ Slice(b, 0, Len(b) - 8) = bytes(Longer(u))
                  /\ Slice(b, Len(b) - 4, Len(b)) = crc(bytes(Longer(u)))

Checked(S, u) == crc(bytes(Longer(u))) \in Seq(S) /\ Len(crc(bytes(Longer(u)))) = 4

Four(S, value) == value \in Seq(S) /\ Len(value) = 4

\* An attribute of four bytes is whole.
LEMMA FourIs ==
  ASSUME NEW S, 0 \in S, NEW value, Four(S, value), NEW types \in Words
  PROVE  /\ Whole(S, newAttribute(types, value)) /\ newAttribute(types, value).length = 4
         /\ newAttribute(types, value).value = value
<1>1. value \in Seq(S)
  BY DEF Four
<1>2. Len(value) <= 65532 => /\ Whole(S, newAttribute(types, value))
                             /\ newAttribute(types, value).length = align(Len(value))
  BY <1>1, NewIs
<1>3. newAttribute(types, value).value = padding(value)
  BY <1>1, NewIs
<1>4. align(Len(value)) = Len(value) => padding(value) = value
  BY <1>1, PaddingIs
<1>5. align(4) = 4 /\ Len(value) = 4
  BY DEF align, Word16, Four
<1>6. QED
  BY <1>2, <1>3, <1>4, <1>5

IsCheck(S, u, a) == Whole(S, a) /\ a.length = 4 /\ a.value = crc(bytes(Longer(u)))

\* The checksum is such an attribute.
LEMMA FingerprintIs ==
  ASSUME NEW S, 0 \in S, NEW u, Checked(S, u)
  PROVE  IsCheck(S, u, newFingerprintAttribute(Longer(u)))
<1> DEFINE value == crc(bytes(Longer(u)))
<1>1. Four(S, value)
  BY DEF Checked, Four
<1>2. newFingerprintAttribute(Longer(u)) = newAttribute(Fingerprint, value)
  BY DEF newFingerprintAttribute
<1>3. Fingerprint \in Words
  BY DEF Words, Fingerprint
<1> HIDE DEF value
<1>4. /\ Whole(S, newAttribute(Fingerprint, value)) /\ newAttribute(Fingerprint, value).length = 4
      /\ newAttribute(Fingerprint, value).value = value
  BY <1>1, <1>3, FourIs
<1>5. QED
  BY <1>2, <1>4 DEF IsCheck, value

\* The length of a packet is that of its body.
LEMMA SizedLength ==
  ASSUME NEW S, NEW v, Sized(S, v)
  PROVE  v \in Packets(S) /\ v.length \in Nat /\ v.length = Len(Body(v))
<1>1. v \in Packets(S) /\ v.length = Len(Body(v))
  BY DEF Sized
<1>2. v.length \in Words
  BY <1>1 DEF Packets
<1>3. QED
  BY <1>1, <1>2, AWord

\* The lengths of what is signed, and where the parts of it are.
LEMMA SignedSized ==
  ASSUME NEW S, Bytes \subseteq S, NEW u, Sized(S, u), NEW a, IsCheck(S, u, a), u.length + 8 < 65536
  PROVE  /\ Sized(S, addAttribute(u, a)) /\ addAttribute(u, a).length = u.length + 8
         /\ addAttribute(u, a).attributes # <<>>
<1>1. Whole(S, a) /\ a.length = 4
  BY DEF IsCheck
<1>2. u.length \in Nat /\ u \in Packets(S)
  BY SizedLength
<1>3. Room(u, a)
  BY <1>1, <1>2 DEF Room
<1>4. Sized(S, addAttribute(u, a)) /\ addAttribute(u, a).length = u.length + 4 + a.length
  BY <1>1, <1>3, AddSized
<1>5. u.length + 4 + a.length = u.length + 8
  BY <1>1, <1>2
<1>6. a \in Attributes(S)
  BY <1>1 DEF Whole
<1>7. addAttribute(u, a) = Added(u, a)
  BY <1>2, <1>6, BodyMore
<1>8. addAttribute(u, a).attributes = Append(u.attributes, a) /\ u.attributes \in Seq(Attributes(S))
  BY <1>2, <1>7 DEF Added, Packets
<1>9. Append(u.attributes, a) # <<>>
  <2>1. \A T : \A s \in Seq(T) : \A e \in T : Append(s, e) # <<>>
    OBVIOUS
  <2>2. QED
    BY <1>6, <1>8, <2>1
<1>10. QED
  BY <1>4, <1>5, <1>8, <1>9

\* The bytes of what is signed: those of the packet with the later length, and the checksum.
LEMMA SignedBytes ==
  ASSUME NEW S, Bytes \subseteq S, NEW u, Sized(S, u), NEW a, IsCheck(S, u, a),
         NEW v, v = addAttribute(u, a), v.length = u.length + 8
  PROVE  /\ bytes(Longer(u)) \in Seq(S) /\ bytes(v) = bytes(Longer(u)) \o Piece(a)
         /\ Piece(a) \in Seq(S) /\ Len(Piece(a)) = 8 /\ Placed(Piece(a), 4, a.value)
<1>1. u \in Packets(S) /\ u.length \in Nat
  BY SizedLength
<1>2. Whole(S, a) /\ a \in Attributes(S) /\ a.length = 4 /\ a.length = Len(a.value)
  BY DEF IsCheck, Whole
<1>3. /\ v \in Packets(S) /\ v = Added(u, a)
      /\ Body(u) \in Seq(S) /\ Body(v) = Body(u) \o Piece(a)
  BY <1>1, <1>2, BodyMore
<1>4. Piece(a) \in Seq(S) /\ Len(Piece(a)) = 4 + Len(a.value) /\ Placed(Piece(a), 4, a.value)
  BY <1>2, PieceIs
<1>5. v.types = u.types /\ v.transID = u.transID
  BY <1>3 DEF Added
<1> DEFINE w == Longer(u)
<1>6. /\ w.types = u.types /\ w.transID = u.transID /\ w.attributes = u.attributes
      /\ w.length = v.length
  BY <1>1 DEF Longer, LengthThen, Packets
<1>7. HeadsOf(w) = HeadsOf(v) /\ FlatOf(w) = Body(u)
  BY <1>5, <1>6 DEF HeadsOf, FlatOf, Body
<1> HIDE DEF w
<1>8. HeadsOf(v) \in Seq(S)
  <2>1. /\ v.types \in Words /\ v.length \in Words /\ v.transID \in Seq(S)
        /\ Len(v.transID) = 16
    BY <1>3 DEF Packets
  <2>2. QED
    BY <2>1, HeadIs DEF HeadsOf
<1>9. bytes(w) = HeadsOf(v) \o Body(u) /\ bytes(v) = HeadsOf(v) \o FlatOf(v) /\ FlatOf(v) = Body(v)
  BY <1>7, BytesFlat DEF FlatOf, Body
<1>10. (HeadsOf(v) \o Body(u)) \o Piece(a) = HeadsOf(v) \o (Body(u) \o Piece(a))
  <2>1. \A x, y, z \in Seq(S) : (x \o y) \o z = x \o (y \o z)
    BY Associative
  <2>2. QED
    BY <1>3, <1>4, <1>8, <2>1
<1>11. HeadsOf(v) \o Body(u) \in Seq(S)
  <2>1. \A x, y \in Seq(S) : x \o y \in Seq(S)
    BY PlacedBoth
  <2>2. QED
    BY <1>3, <1>8, <2>1
<1>12. bytes(v) = bytes(w) \o Piece(a) /\ bytes(w) \in Seq(S)
  BY <1>3, <1>9, <1>10, <1>11
<1>13. QED
  BY <1>2, <1>4, <1>12 DEF w

\* The last eight bytes, and those before.
LEMMA SplitAt ==
  ASSUME NEW S, NEW w \in Seq(S), NEW x \in Seq(S), Len(x) = 8,
         NEW value \in Seq(S), Len(value) = 4, Placed(x, 4, value)
  PROVE  /\ Slice(w \o x, 0, Len(w \o x) - 8) = w
         /\ Slice(w \o x, Len(w \o x) - 4, Len(w \o x)) = value
<1> DEFINE b == w \o x
           n == Len(w)
<1>1. /\ b \in Seq(S) /\ Len(b) = n + 8 /\ Placed(b, 0, w) /\ Placed(b, n, x) /\ n \in Nat
      /\ Len(b) \in Nat
  BY PlacedBoth, LenProperties
<1> HIDE DEF b
<1>2. Slice(b, 0, 0 + Len(w)) = w
  BY <1>1, SlicePlaced
<1> HIDE DEF n
<1>3. 0 + n = Len(b) - 8 /\ n + 4 = Len(b) - 4 /\ (n + 4) + 4 = Len(b) /\ n + 4 \in Nat
  BY <1>1
<1>4. Placed(b, n + 4, value)
  BY <1>1, PlacedWithin
<1>5. Slice(b, n + 4, (n + 4) + Len(value)) = value
  BY <1>1, <1>3, <1>4, SlicePlaced
<1>6. Slice(b, 0, Len(b) - 8) = w
  BY <1>2, <1>3 DEF n
<1>7. Slice(b, Len(b) - 4, Len(b)) = value
  BY <1>3, <1>5
<1>8. QED
  BY <1>6, <1>7 DEF b

\* What is signed is ready to be sent, and carries the checksum of what precedes it.
LEMMA SignedIs ==
  ASSUME NEW S, Bytes \subseteq S, NEW u, Sized(S, u), u.length + 28 < 65536, Checked(S, u)
  PROVE  Ready(S, Signed(u)) /\ IsSigned(u, bytes(Signed(u)))
<1> DEFINE a == newFingerprintAttribute(Longer(u))
           v == addAttribute(u, a)
<1>0. v = Signed(u) /\ u.length \in Nat
  BY SizedLength DEF Signed
<1>1. IsCheck(S, u, a)
  <2>1. 0 \in S
    BY DEF Bytes
  <2>2. QED
    BY <2>1, FingerprintIs
<1> HIDE DEF a
<1>2. Sized(S, v) /\ v.length = u.length + 8 /\ v.attributes # <<>>
  BY <1>0, <1>1, SignedSized
<1>3. /\ bytes(Longer(u)) \in Seq(S) /\ bytes(v) = bytes(Longer(u)) \o Piece(a)
      /\ Piece(a) \in Seq(S) /\ Len(Piece(a)) = 8 /\ Placed(Piece(a), 4, a.value)
  BY <1>1, <1>2, SignedBytes
<1>4. 20 + v.length < 65536
  BY <1>0, <1>2
<1>5. Ready(S, v)
  BY <1>2, <1>4 DEF Ready
<1>6. a.value \in Seq(S) /\ Len(a.value) = 4 /\ a.value = crc(bytes(Longer(u)))
  BY <1>1 DEF IsCheck, Whole, Attributes
<1>7. /\ Slice(bytes(v), 0, Len(bytes(v)) - 8) = bytes(Longer(u))
      /\ Slice(bytes(v), Len(bytes(v)) - 4, Len(bytes(v))) = a.value
  BY <1>3, <1>6, SplitAt
<1>8. IsSigned(u, bytes(v))
  BY <1>6, <1>7 DEF IsSigned
<1>9. QED
  BY <1>0, <1>5, <1>8

\* What sendBindingReq sends, before its checksum.
Named(id, name) == addAttribute(newPacket(1, id), newAttribute(Software, name))
Unsigned(id, name, ip, port) ==
  IF ip \/ port THEN addAttribute(Named(id, name), newChangeReqAttribute(ip, port))
                ELSE Named(id, name)

\* The model's request, in these terms.
LEMMA RequestIs ==
  ASSUME NEW id, NEW name, NEW ip, NEW port
  PROVE  Request(id, name, ip, port) = Signed(Unsigned(id, name, ip, port))
BY DEF Request, Unsigned, Named, Signed, Longer

\* The length of a body grows by that of the attribute, whether or not it is whole.
LEMMA BodyLonger ==
  ASSUME NEW S, Bytes \subseteq S, NEW v \in Packets(S), NEW a \in Attributes(S)
  PROVE  /\ addAttribute(v, a) \in Packets(S)
         /\ Len(Body(v)) \in Nat /\ Len(a.value) \in Nat
         /\ Len(Body(addAttribute(v, a))) = Len(Body(v)) + (4 + Len(a.value))
<1>1. /\ addAttribute(v, a) \in Packets(S)
      /\ Body(v) \in Seq(S) /\ Body(addAttribute(v, a)) = Body(v) \o Piece(a)
  BY BodyMore
<1>2. Piece(a) \in Seq(S) /\ Len(Piece(a)) = 4 + Len(a.value)
  BY PieceIs
<1>3. Len(Body(v) \o Piece(a)) = Len(Body(v)) + Len(Piece(a))
  BY <1>1, <1>2, PlacedBoth
<1>4. a.value \in Seq(S)
  BY DEF Attributes
<1>5. Len(Body(v)) \in Nat /\ Len(a.value) \in Nat
  BY <1>1, <1>4, LenProperties
<1>6. QED
  BY <1>1, <1>2, <1>3, <1>5

Ids(S) == {id \in Seq(S) : Len(id) = 12}

\* A new packet has the cookie and the identity, and the length 0.
LEMMA NewPacketIs ==
  ASSUME NEW S, Bytes \subseteq S, NEW id \in Ids(S), NEW types \in Words
  PROVE  Sized(S, newPacket(types, id)) /\ newPacket(types, id).length = 0
<1> DEFINE whole == Cookie \o id
<1>1. id \in Seq(S) /\ Len(id) = 12
  BY DEF Ids
<1>2. Cookie \in Seq(S) /\ Len(Cookie) = 4
  <2>1. 33 \in S /\ 18 \in S /\ 164 \in S /\ 66 \in S
    BY DEF Bytes
  <2>2. QED
    BY <2>1 DEF Cookie
<1>3. whole \in Seq(S) /\ Len(whole) = 16
  <2>1. whole \in Seq(S) /\ Len(whole) = Len(Cookie) + Len(id)
    BY <1>1, <1>2, PlacedBoth
  <2>2. QED
    BY <1>1, <1>2, <2>1
<1>4. newPacket(types, id) = [types |-> types, length |-> 0, transID |-> whole, attributes |-> <<>>]
  BY DEF newPacket
<1> HIDE DEF whole
<1>5. QED
  BY <1>3, <1>4, NewSized

\* The length has room for an attribute.
LEMMA HasRoom ==
  ASSUME NEW v, NEW a, NEW i \in Nat, NEW j \in Nat, v.length = i, a.length = j, i + (4 + j) < 65536
  PROVE  Room(v, a)
<1>1. i + 4 + j < 65536
  OBVIOUS
<1>2. QED
  BY <1>1 DEF Room

\* The length stays right as long as that of the body fits.
LEMMA SizedBody ==
  ASSUME NEW S, Bytes \subseteq S, NEW v, Sized(S, v), NEW a, Whole(S, a),
         Len(Body(addAttribute(v, a))) < 65536
  PROVE  Sized(S, addAttribute(v, a))
<1>1. v \in Packets(S) /\ v.length \in Nat /\ v.length = Len(Body(v))
  BY SizedLength
<1>2. a \in Attributes(S) /\ a.length = Len(a.value) /\ Len(a.value) \in Nat
  BY DEF Whole
<1>3. Len(Body(addAttribute(v, a))) = Len(Body(v)) + (4 + Len(a.value))
  BY <1>1, <1>2, BodyLonger
<1>4. Len(Body(v)) + (4 + Len(a.value)) < 65536 /\ Len(Body(v)) \in Nat
  BY <1>1, <1>3
<1>5. Room(v, a)
  BY <1>1, <1>2, <1>4, HasRoom
<1>6. QED
  BY <1>5, AddSized

\* A request with the name of the software.
LEMMA NamedIs ==
  ASSUME NEW S, Bytes \subseteq S, NEW id \in Ids(S), NEW name \in Seq(S)
  PROVE  /\ Named(id, name) \in Packets(S)
         /\ Len(name) \in Nat /\ Len(Body(Named(id, name))) \in Nat
         /\ Len(name) + 4 <= Len(Body(Named(id, name)))
         /\ Len(name) <= 65000 => Len(Body(Named(id, name))) <= 65010
         /\ Len(Body(Named(id, name))) < 65508 => Sized(S, Named(id, name))
<1> DEFINE v == newPacket(1, id)
           a == newAttribute(Software, name)
<1>1. 1 \in Words /\ Software \in Words /\ 0 \in S
  BY DEF Words, Software, Bytes
<1>2. Sized(S, v) /\ v.length = 0
  BY <1>1, NewPacketIs
<1>3. v \in Packets(S) /\ Len(Body(v)) = 0
  BY <1>2, SizedLength
<1>4. /\ a \in Attributes(S) /\ a.value = padding(name)
      /\ Len(name) <= 65532 => Whole(S, a)
  BY <1>1, NewIs
<1>5. /\ Len(name) \in Nat /\ Len(padding(name)) \in Nat /\ Len(name) <= Len(padding(name))
      /\ Len(name) <= 65532 => Len(padding(name)) = align(Len(name))
  BY <1>1, PaddingIs
<1> DEFINE w == addAttribute(v, a)
<1>6. w = Named(id, name)
  BY DEF Named
<1> HIDE DEF v, a
<1>7. w \in Packets(S) /\ Len(Body(w)) = Len(Body(v)) + (4 + Len(a.value))
  BY <1>3, <1>4, BodyLonger
<1>8. Len(Body(w)) = 4 + Len(padding(name))
  BY <1>3, <1>4, <1>5, <1>7
<1>9. ASSUME Len(Body(w)) < 65508 PROVE Sized(S, w)
  <2>1. Len(name) <= 65532
    BY <1>5, <1>8, <1>9
  <2>2. Len(Body(w)) < 65536
    BY <1>5, <1>8, <1>9
  <2>3. QED
    BY <1>2, <1>4, <2>1, <2>2, SizedBody
<1> HIDE DEF w
<1>10. Len(Body(w)) \in Nat /\ Len(name) + 4 <= Len(Body(w))
  BY <1>5, <1>8
<1>11. ASSUME Len(name) <= 65000 PROVE Len(Body(w)) <= 65010
  <2>1. Len(name) <= 65532
    BY <1>5, <1>11
  <2>2. align(Len(name)) <= Len(name) + 3 /\ align(Len(name)) \in Nat
    BY <1>5, <2>1, Aligned
  <2>3. Len(padding(name)) <= 65003
    BY <1>5, <1>11, <2>1, <2>2
  <2>4. QED
    BY <1>5, <1>8, <2>3
<1>12. QED
  BY <1>5, <1>6, <1>7, <1>9, <1>10, <1>11

\* The attribute that asks for a change is whole.
LEMMA ChangeIs ==
  ASSUME NEW S, Bytes \subseteq S, NEW ip, NEW port
  PROVE  Whole(S, newChangeReqAttribute(ip, port)) /\ newChangeReqAttribute(ip, port).length = 4
<1> DEFINE flags == (IF ip THEN 4 ELSE 0) + (IF port THEN 2 ELSE 0)
           value == <<0, 0, 0, flags>>
<1>1. flags \in S /\ 0 \in S
  BY DEF Bytes
<1>2. newChangeReqAttribute(ip, port) = newAttribute(ChangeRequest, value)
  BY DEF newChangeReqAttribute
<1> HIDE DEF flags
<1>3. Four(S, value)
  BY <1>1 DEF Four
<1>4. ChangeRequest \in Words
  BY DEF ChangeRequest, Words
<1> HIDE DEF value
<1>5. QED
  BY <1>1, <1>2, <1>3, <1>4, FourIs

\* A request without its checksum, whose length is right if it fits.
LEMMA UnsignedIs ==
  ASSUME NEW S, Bytes \subseteq S, NEW id \in Ids(S), NEW name \in Seq(S), NEW ip, NEW port
  PROVE  /\ Unsigned(id, name, ip, port) \in Packets(S)
         /\ Len(Body(Unsigned(id, name, ip, port))) \in Nat
         /\ Len(Body(Unsigned(id, name, ip, port))) < 65508 => Sized(S, Unsigned(id, name, ip, port))
         /\ Len(name) <= 65000 => Len(Body(Unsigned(id, name, ip, port))) < 65100
<1> DEFINE v == Named(id, name)
           a == newChangeReqAttribute(ip, port)
           u == Unsigned(id, name, ip, port)
<1>1. /\ v \in Packets(S) /\ Len(Body(v)) \in Nat
      /\ Len(Body(v)) < 65508 => Sized(S, v)
      /\ Len(name) <= 65000 => Len(Body(v)) <= 65010
  BY NamedIs
<1>2. Whole(S, a) /\ a.length = 4
  BY ChangeIs
<1>3. u = IF ip \/ port THEN addAttribute(v, a) ELSE v
  BY DEF Unsigned
<1> HIDE DEF v, a, u
<1>4. a \in Attributes(S) /\ a.length = Len(a.value)
  BY <1>2 DEF Whole
<1>5. /\ addAttribute(v, a) \in Packets(S)
      /\ Len(Body(addAttribute(v, a))) = Len(Body(v)) + (4 + Len(a.value))
  BY <1>1, <1>4, BodyLonger
<1>6. Len(Body(addAttribute(v, a))) = Len(Body(v)) + 8
  BY <1>1, <1>2, <1>4, <1>5
<1>7. Len(Body(addAttribute(v, a))) < 65508 => Sized(S, addAttribute(v, a))
  <2>1. SUFFICES ASSUME Len(Body(addAttribute(v, a))) < 65508 PROVE Sized(S, addAttribute(v, a))
    OBVIOUS
  <2>2. Len(Body(v)) < 65508 /\ Len(Body(addAttribute(v, a))) < 65536
    BY <1>1, <1>6, <2>1
  <2>3. Sized(S, v)
    BY <1>1, <2>2
  <2>4. QED
    BY <1>2, <2>2, <2>3, SizedBody
<1>8. Len(Body(addAttribute(v, a))) \in Nat
  BY <1>1, <1>6
<1>9. u \in Packets(S) /\ Len(Body(u)) \in Nat /\ (Len(Body(u)) < 65508 => Sized(S, u))
  BY <1>1, <1>3, <1>5, <1>7, <1>8
<1>10. ASSUME Len(name) <= 65000 PROVE Len(Body(u)) < 65100
  <2>1. Len(Body(v)) <= 65010 /\ Len(Body(v)) \in Nat
    BY <1>1, <1>10
  <2>2. Len(Body(v)) < 65100 /\ Len(Body(addAttribute(v, a))) < 65100
    BY <1>6, <2>1
  <2>3. QED
    BY <1>3, <2>2
<1>11. QED
  BY <1>9, <1>10 DEF u

\* The bytes of what is signed are 28 more than those of the attributes before.
LEMMA SignedLength ==
  ASSUME NEW S, Bytes \subseteq S, NEW u \in Packets(S), Checked(S, u)
  PROVE  Len(bytes(Signed(u))) = Len(Body(u)) + 28 /\ Len(Body(u)) \in Nat
<1> DEFINE a == newFingerprintAttribute(Longer(u))
           v == addAttribute(u, a)
<1>0. v = Signed(u) /\ 0 \in S
  BY DEF Signed, Bytes
<1>1. IsCheck(S, u, a)
  BY <1>0, FingerprintIs
<1> HIDE DEF a
<1>2. a \in Attributes(S) /\ Len(a.value) = 4
  BY <1>1 DEF IsCheck, Whole
<1>3. v \in Packets(S) /\ Len(Body(u)) \in Nat /\ Len(Body(v)) = Len(Body(u)) + (4 + Len(a.value))
  BY <1>2, BodyLonger
<1> HIDE DEF v
<1>4. HeadsOf(v) \in Seq(S) /\ Len(HeadsOf(v)) = 20
  <2>1. /\ v.types \in Words /\ v.length \in Words /\ v.transID \in Seq(S)
        /\ Len(v.transID) = 16
    BY <1>3 DEF Packets
  <2>2. QED
    BY <2>1, HeadIs DEF HeadsOf
<1>5. Body(v) \in Seq(S)
  BY <1>2, <1>3, BodyMore
<1>6. bytes(v) = HeadsOf(v) \o Body(v)
  BY BytesFlat DEF FlatOf, Body
<1>7. Len(bytes(v)) = 20 + Len(Body(v))
  <2>1. Len(HeadsOf(v) \o Body(v)) = Len(HeadsOf(v)) + Len(Body(v))
    BY <1>4, <1>5, PlacedBoth
  <2>2. QED
    BY <1>4, <1>6, <2>1
<1>8. QED
  BY <1>0, <1>2, <1>3, <1>7

\* The elements of a checksum.
LEMMA CrcIs == ASSUME NEW b PROVE \E S : Bytes \subseteq S /\ crc(b) \in Seq(S) /\ Len(crc(b)) = 4
<1> DEFINE sum == FoldLeft(LAMBDA x, y : (3 * x + y) % Word16, 0, b)
           p == sum \div Byte
           q == sum % Byte
           S == Bytes \cup {p, q}
<1>1. crc(b) = <<0, 0>> \o <<p, q>>
  BY DEF crc, Put16
<1> HIDE DEF sum, p, q
<1>2. 0 \in S /\ p \in S /\ q \in S /\ Bytes \subseteq S
  BY DEF Bytes
<1> HIDE DEF S
<1>3. <<0, 0>> \in Seq(S) /\ Len(<<0, 0>>) = 2 /\ <<p, q>> \in Seq(S) /\ Len(<<p, q>>) = 2
  BY <1>2
<1>4. /\ <<0, 0>> \o <<p, q>> \in Seq(S)
      /\ Len(<<0, 0>> \o <<p, q>>) = Len(<<0, 0>>) + Len(<<p, q>>)
  BY <1>3, PlacedBoth
<1>5. Len(crc(b)) = 4
  BY <1>1, <1>3, <1>4
<1>6. QED
  BY <1>1, <1>2, <1>4, <1>5

\* Sequences over a wider set.
LEMMA SeqWider == ASSUME NEW T, NEW S, T \subseteq S, NEW x \in Seq(T) PROVE x \in Seq(S)
OBVIOUS

\* A request with a name of 65000 bytes still fits in a datagram.
LEMMA RequestFits ==
  ASSUME NEW id \in Seq(Bytes), Len(id) = 12, NEW name \in Seq(Bytes), Len(name) <= 65000,
         NEW ip, NEW port
  PROVE  Fits(bytes(Request(id, name, ip, port)))
<1> DEFINE u == Unsigned(id, name, ip, port)
<1>1. PICK S : Bytes \subseteq S /\ Checked(S, u)
  BY CrcIs DEF Checked
<1>2. id \in Ids(S) /\ name \in Seq(S)
  <2>1. id \in Seq(S) /\ name \in Seq(S)
    BY <1>1, SeqWider
  <2>2. QED
    BY <2>1 DEF Ids
<1>3. u \in Packets(S) /\ Len(Body(u)) < 65100
  BY <1>1, <1>2, UnsignedIs
<1> HIDE DEF u
<1>4. Len(bytes(Signed(u))) = Len(Body(u)) + 28 /\ Len(Body(u)) \in Nat
  BY <1>1, <1>3, SignedLength
<1>5. Len(bytes(Signed(u))) < 65536
  BY <1>3, <1>4
<1>6. QED
  BY <1>5, RequestIs DEF Fits, Word16, u

\* Whatever its identity and the name of the software, a request that fits in a datagram
\* arrives as it was built, with the checksum of what precedes it (sendBindingReq,
\* newPacketFromBytes).
THEOREM RequestArrives ==
  ASSUME NEW id \in Seq(0..255), Len(id) = 12, NEW name \in Seq(0..255), NEW ip, NEW port,
         Fits(bytes(Request(id, name, ip, port)))
  PROVE  Carried(id, name, ip, port)
<1> DEFINE u == Unsigned(id, name, ip, port)
           v == Signed(u)
           b == bytes(v)
<1>1. v = Request(id, name, ip, port) /\ Len(b) < 65536
  BY RequestIs DEF Fits, Word16
<1>2. PICK S : Bytes \subseteq S /\ Checked(S, u)
  BY CrcIs DEF Checked
<1>3. id \in Ids(S) /\ name \in Seq(S)
  <2>1. id \in Seq(Bytes) /\ name \in Seq(Bytes) /\ Len(id) = 12
    BY DEF Bytes
  <2>2. id \in Seq(S) /\ name \in Seq(S)
    BY <1>2, <2>1, SeqWider
  <2>3. QED
    BY <2>1, <2>2 DEF Ids
<1>4. /\ u \in Packets(S) /\ Len(Body(u)) \in Nat
      /\ Len(Body(u)) < 65508 => Sized(S, u)
  BY <1>2, <1>3, UnsignedIs
<1> HIDE DEF u
<1>5. Len(b) = Len(Body(u)) + 28
  BY <1>2, <1>4, SignedLength
<1>6. Sized(S, u) /\ u.length + 28 < 65536
  <2>1. Sized(S, u)
    <3> HIDE DEF b
    <3>1. Len(Body(u)) + 28 < 65536
      BY <1>1, <1>5
    <3>2. Len(Body(u)) < 65508 \/ Len(Body(u)) >= 65508
      BY <1>4
    <3>3. QED
      BY <1>4, <3>1
  <2>2. u.length = Len(Body(u))
    BY <2>1, SizedLength
  <2>3. QED
    BY <1>1, <1>5, <2>1, <2>2
<1>7. Ready(S, v) /\ IsSigned(u, b)
  BY <1>2, <1>6, SignedIs
<1>8. ArrivesAs(v)
  <2>1. 0 \in S
    BY <1>2 DEF Bytes
  <2>2. QED
    BY <1>7, <2>1, ReadyArrives
<1>9. /\ Get16(b, 2) = v.length /\ Len(b) = 20 + v.length /\ Len(b) = 4 * (Len(b) \div 4)
      /\ newPacketFromBytes(b) # Error /\ [newPacketFromBytes(b) EXCEPT !.length = v.length] = v
  BY <1>8 DEF ArrivesAs
<1>10. v.length \in Nat
  BY <1>7, SizedLength DEF Ready
<1> HIDE DEF b
<1>11. Get16(b, 2) = Len(b) - 20
  <2> DEFINE length == v.length
             n == Len(b)
  <2>1. length \in Nat /\ Get16(b, 2) = length /\ n = 20 + length
    BY <1>9, <1>10
  <2> HIDE DEF length, n
  <2>2. QED
    BY <2>1 DEF n
<1>12. Len(b) % 4 = 0
  <2> DEFINE n == Len(b)
             k == n \div 4
  <2>1. n \in Nat /\ n = 4 * k
    BY <1>9, <1>10
  <2> HIDE DEF n
  <2>2. k \in Nat
    BY <2>1, ByFour
  <2> HIDE DEF k
  <2>3. (4 * k) % 4 = 0
    BY <2>2, Fours
  <2>4. n % 4 = 0
    BY <2>1, <2>3
  <2>5. QED
    BY <2>4 DEF n
<1>13. Slice(b, Len(b) - 4, Len(b)) = crc(Slice(b, 0, Len(b) - 8))
  BY <1>7 DEF IsSigned
<1>14. v = Request(id, name, ip, port) /\ b = bytes(Request(id, name, ip, port))
  BY <1>1 DEF b
<1>15. QED
  BY <1>9, <1>11, <1>12, <1>13, <1>14 DEF Carried

\* The exclusive or of one more doubling, from that of the halves.
LEMMA XorBits ==
  ASSUME NEW x \in 0..1, NEW y \in 0..1
  PROVE  Xor1(x, y) \in 0..1 /\ Xor1(Xor1(x, y), y) = x /\ Xor1(x, 0) = x
BY DEF Xor1

\* Numbers of twice as many bits are two numbers of as many.
LEMMA Split2 ==
  /\ \A x \in 0..3 : x \div 2 \in 0..1 /\ x % 2 \in 0..1 /\ x = 2 * (x \div 2) + (x % 2)
  /\ \A p \in 0..1, q \in 0..1 :
       2 * p + q \in 0..3 /\ (2 * p + q) \div 2 = p /\ (2 * p + q) % 2 = q
OBVIOUS

LEMMA Split4 ==
  /\ \A x \in 0..15 : x \div 4 \in 0..3 /\ x % 4 \in 0..3 /\ x = 4 * (x \div 4) + (x % 4)
  /\ \A p \in 0..3, q \in 0..3 :
       4 * p + q \in 0..15 /\ (4 * p + q) \div 4 = p /\ (4 * p + q) % 4 = q
OBVIOUS

LEMMA Split8 ==
  /\ \A x \in 0..255 : x \div 16 \in 0..15 /\ x % 16 \in 0..15 /\ x = 16 * (x \div 16) + (x % 16)
  /\ \A p \in 0..15, q \in 0..15 :
       16 * p + q \in 0..255 /\ (16 * p + q) \div 16 = p /\ (16 * p + q) % 16 = q
OBVIOUS

\* A number that is small enough is a word.
LEMMA IsAWord == ASSUME NEW x \in Nat, x < 65536 PROVE x \in Words
BY AWord, InWord

LEMMA Split16 ==
  /\ \A x \in Words : x \div 256 \in Bytes /\ x % 256 \in Bytes /\ x = 256 * (x \div 256) + (x % 256)
  /\ \A p \in Bytes, q \in Bytes :
       256 * p + q \in Words /\ (256 * p + q) \div 256 = p /\ (256 * p + q) % 256 = q
<1>1. ASSUME NEW x \in Words
      PROVE  x \div 256 \in Bytes /\ x % 256 \in Bytes /\ x = 256 * (x \div 256) + (x % 256)
  <2> DEFINE p == x \div 256
             q == x % 256
  <2>1. x \in Nat /\ x < 65536
    BY AWord
  <2>2. p \in Nat /\ q \in Nat /\ q < 256 /\ x = 256 * p + q
    BY <2>1, ByByte
  <2> HIDE DEF p, q
  <2>3. p < 256
    BY <2>1, <2>2
  <2>4. p \in Bytes /\ q \in Bytes
    BY <2>2, <2>3 DEF Bytes
  <2>5. QED
    BY <2>2, <2>4 DEF p, q
<1>2. ASSUME NEW p \in Bytes, NEW q \in Bytes
      PROVE  256 * p + q \in Words /\ (256 * p + q) \div 256 = p /\ (256 * p + q) % 256 = q
  <2>1. p \in Nat /\ p < 256 /\ q \in Nat /\ q < 256
    BY DEF Bytes
  <2> DEFINE x == 256 * p + q
             s == x \div 256
             r == x % 256
  <2>2. x \in Nat /\ x < 65536 /\ x = 256 * p + q
    BY <2>1
  <2> HIDE DEF x
  <2>3. s \in Nat /\ r \in Nat /\ r < 256 /\ x = 256 * s + r
    BY <2>2, ByByte
  <2> HIDE DEF s, r
  <2>4. s = p /\ r = q
    BY <2>1, <2>2, <2>3
  <2>5. x \in Words
    BY <2>2, IsAWord
  <2>6. QED
    BY <2>4, <2>5 DEF x, s, r
<1>3. QED
  BY <1>1, <1>2

\* The exclusive or stays in range, undoes itself, and does nothing with zeros.
LEMMA Xors2 ==
  ASSUME NEW x \in 0..3, NEW y \in 0..3
  PROVE  Xor2(x, y) \in 0..3 /\ Xor2(Xor2(x, y), y) = x /\ Xor2(x, 0) = x
<1> DEFINE xh == x \div 2
           xl == x % 2
           yh == y \div 2
           yl == y % 2
           p == Xor1(xh, yh)
           q == Xor1(xl, yl)
<1>1. xh \in 0..1 /\ xl \in 0..1 /\ x = 2 * xh + xl /\ yh \in 0..1 /\ yl \in 0..1
  BY Split2
<1>2. Xor2(x, y) = 2 * p + q
  BY DEF Xor2
<1>3. 0 \div 2 = 0 /\ 0 % 2 = 0 /\ 0 \in 0..1
  OBVIOUS
<1>4. Xor2(x, 0) = 2 * Xor1(xh, 0) + Xor1(xl, 0)
  BY <1>3 DEF Xor2
<1>5. \A k : Xor2(k, y) = 2 * Xor1(k \div 2, yh) + Xor1(k % 2, yl)
  BY DEF Xor2
<1> HIDE DEF xh, xl, yh, yl
<1>6. p \in 0..1 /\ Xor1(p, yh) = xh /\ q \in 0..1 /\ Xor1(q, yl) = xl
  BY <1>1, XorBits
<1>7. Xor1(xh, 0) = xh /\ Xor1(xl, 0) = xl
  BY <1>1, <1>3, XorBits
<1> HIDE DEF p, q
<1>8. 2 * p + q \in 0..3 /\ (2 * p + q) \div 2 = p /\ (2 * p + q) % 2 = q
  BY <1>6, Split2
<1>9. Xor2(2 * p + q, y) = 2 * xh + xl
  BY <1>5, <1>6, <1>8
<1>10. QED
  BY <1>1, <1>2, <1>4, <1>7, <1>8, <1>9

LEMMA Xors4 ==
  ASSUME NEW x \in 0..15, NEW y \in 0..15
  PROVE  Xor4(x, y) \in 0..15 /\ Xor4(Xor4(x, y), y) = x /\ Xor4(x, 0) = x
<1> DEFINE xh == x \div 4
           xl == x % 4
           yh == y \div 4
           yl == y % 4
           p == Xor2(xh, yh)
           q == Xor2(xl, yl)
<1>1. xh \in 0..3 /\ xl \in 0..3 /\ x = 4 * xh + xl /\ yh \in 0..3 /\ yl \in 0..3
  BY Split4
<1>2. Xor4(x, y) = 4 * p + q
  BY DEF Xor4
<1>3. 0 \div 4 = 0 /\ 0 % 4 = 0 /\ 0 \in 0..3
  OBVIOUS
<1>4. Xor4(x, 0) = 4 * Xor2(xh, 0) + Xor2(xl, 0)
  BY <1>3 DEF Xor4
<1>5. \A k : Xor4(k, y) = 4 * Xor2(k \div 4, yh) + Xor2(k % 4, yl)
  BY DEF Xor4
<1> HIDE DEF xh, xl, yh, yl
<1>6. p \in 0..3 /\ Xor2(p, yh) = xh /\ q \in 0..3 /\ Xor2(q, yl) = xl
  BY <1>1, Xors2
<1>7. Xor2(xh, 0) = xh /\ Xor2(xl, 0) = xl
  BY <1>1, <1>3, Xors2
<1> HIDE DEF p, q
<1>8. 4 * p + q \in 0..15 /\ (4 * p + q) \div 4 = p /\ (4 * p + q) % 4 = q
  BY <1>6, Split4
<1>9. Xor4(4 * p + q, y) = 4 * xh + xl
  BY <1>5, <1>6, <1>8
<1>10. QED
  BY <1>1, <1>2, <1>4, <1>7, <1>8, <1>9

LEMMA Xors8 ==
  ASSUME NEW x \in 0..255, NEW y \in 0..255
  PROVE  Xor8(x, y) \in 0..255 /\ Xor8(Xor8(x, y), y) = x /\ Xor8(x, 0) = x
<1> DEFINE xh == x \div 16
           xl == x % 16
           yh == y \div 16
           yl == y % 16
           p == Xor4(xh, yh)
           q == Xor4(xl, yl)
<1>1. xh \in 0..15 /\ xl \in 0..15 /\ x = 16 * xh + xl /\ yh \in 0..15 /\ yl \in 0..15
  BY Split8
<1>2. Xor8(x, y) = 16 * p + q
  BY DEF Xor8
<1>3. 0 \div 16 = 0 /\ 0 % 16 = 0 /\ 0 \in 0..15
  OBVIOUS
<1>4. Xor8(x, 0) = 16 * Xor4(xh, 0) + Xor4(xl, 0)
  BY <1>3 DEF Xor8
<1>5. \A k : Xor8(k, y) = 16 * Xor4(k \div 16, yh) + Xor4(k % 16, yl)
  BY DEF Xor8
<1> HIDE DEF xh, xl, yh, yl
<1>6. p \in 0..15 /\ Xor4(p, yh) = xh /\ q \in 0..15 /\ Xor4(q, yl) = xl
  BY <1>1, Xors4
<1>7. Xor4(xh, 0) = xh /\ Xor4(xl, 0) = xl
  BY <1>1, <1>3, Xors4
<1> HIDE DEF p, q
<1>8. 16 * p + q \in 0..255 /\ (16 * p + q) \div 16 = p /\ (16 * p + q) % 16 = q
  BY <1>6, Split8
<1>9. Xor8(16 * p + q, y) = 16 * xh + xl
  BY <1>5, <1>6, <1>8
<1>10. QED
  BY <1>1, <1>2, <1>4, <1>7, <1>8, <1>9

LEMMA XorsBytes ==
  \A x, y \in Bytes : Xor8(x, y) \in Bytes /\ Xor8(Xor8(x, y), y) = x /\ Xor8(x, 0) = x
BY Xors8 DEF Bytes

LEMMA Xors16 ==
  ASSUME NEW x \in Words, NEW y \in Words
  PROVE  Xor16(x, y) \in Words /\ Xor16(Xor16(x, y), y) = x /\ Xor16(x, 0) = x
<1> DEFINE xh == x \div 256
           xl == x % 256
           yh == y \div 256
           yl == y % 256
           p == Xor8(xh, yh)
           q == Xor8(xl, yl)
<1>1. xh \in Bytes /\ xl \in Bytes /\ x = 256 * xh + xl /\ yh \in Bytes /\ yl \in Bytes
  BY Split16
<1>2. Xor16(x, y) = 256 * p + q
  BY DEF Xor16, Byte
<1>3. 0 \div 256 = 0 /\ 0 % 256 = 0 /\ 0 \in Bytes
  BY DEF Bytes
<1>4. Xor16(x, 0) = 256 * Xor8(xh, 0) + Xor8(xl, 0)
  BY <1>3 DEF Xor16, Byte
<1>5. \A k : Xor16(k, y) = 256 * Xor8(k \div 256, yh) + Xor8(k % 256, yl)
  BY DEF Xor16, Byte
<1> HIDE DEF xh, xl, yh, yl
<1>6. p \in Bytes /\ Xor8(p, yh) = xh /\ q \in Bytes /\ Xor8(q, yl) = xl
  BY <1>1, XorsBytes
<1>7. Xor8(xh, 0) = xh /\ Xor8(xl, 0) = xl
  BY <1>1, <1>3, XorsBytes
<1> HIDE DEF p, q
<1>8. 256 * p + q \in Words /\ (256 * p + q) \div 256 = p /\ (256 * p + q) % 256 = q
  BY <1>6, Split16
<1>9. Xor16(256 * p + q, y) = 256 * xh + xl
  BY <1>5, <1>6, <1>8
<1>10. QED
  BY <1>1, <1>2, <1>4, <1>7, <1>8, <1>9

\* An attribute that a server may send, and the key its address is hidden with.
Sendable == {a \in [types : Words, data : Seq(Bytes), port : Words] :
               a.types \in AddressTypes => Len(a.data) \in {4, 16}}
Key(id, types) == IF types \in XorTypes THEN Cookie \o id ELSE Zeros(16)
IsKey(key) == key \in Seq(Bytes) /\ Len(key) = 16

\* A key has 16 bytes, of which the first two are a word.
LEMMA KeyIs ==
  ASSUME NEW id \in Ids(Bytes), NEW types
  PROVE  IsKey(Key(id, types)) /\ IsKey(Cookie \o id)
<1>1. IsKey(Cookie \o id)
  <2>1. id \in Seq(Bytes) /\ Len(id) = 12
    BY DEF Ids
  <2>2. Cookie \in Seq(Bytes) /\ Len(Cookie) = 4
    <3>1. 33 \in Bytes /\ 18 \in Bytes /\ 164 \in Bytes /\ 66 \in Bytes
      BY DEF Bytes
    <3>2. QED
      BY <3>1 DEF Cookie
  <2>3. Cookie \o id \in Seq(Bytes) /\ Len(Cookie \o id) = Len(Cookie) + Len(id)
    BY <2>1, <2>2, PlacedBoth
  <2>4. QED
    BY <2>1, <2>2, <2>3 DEF IsKey
<1>2. IsKey(Zeros(16))
  <2>1. 0 \in Bytes
    BY DEF Bytes
  <2>2. Zeros(16) \in Seq(Bytes)
    BY <2>1, IsASeq DEF Zeros
  <2>3. Len(Zeros(16)) = 16
    BY DEF Zeros
  <2>4. QED
    BY <2>2, <2>3 DEF IsKey
<1>3. QED
  BY <1>1, <1>2 DEF Key

\* A sequence is the function of its elements.
LEMMA Elements ==
  ASSUME NEW S, NEW x \in Seq(S)
  PROVE  /\ Len(x) \in Nat /\ DOMAIN x = 1..Len(x) /\ \A k \in 1..Len(x) : x[k] \in S
         /\ x = [k \in 1..Len(x) |-> x[k]]
OBVIOUS

LEMMA KeyGives ==
  ASSUME NEW key, IsKey(key)
  PROVE  Get16(key, 0) \in Words /\ \A k \in 1..16 : key[k] \in Bytes
<1>1. \A k \in 1..16 : key[k] \in Bytes
  BY Elements DEF IsKey
<1>2. key[1] \in Bytes /\ key[2] \in Bytes
  BY <1>1
<1>3. 256 * key[1] + key[2] \in Words
  BY <1>2, Split16
<1>4. 0 + 1 = 1 /\ 0 + 2 = 2 /\ key[1] * 256 = 256 * key[1]
  BY <1>2 DEF Bytes
<1>5. QED
  BY <1>1, <1>3, <1>4 DEF Get16, Byte

\* The family, the port and the address that a value names.
NamesHost(y, x, rest) ==
  /\ y \in Seq(Bytes) /\ rest \in Seq(Bytes) /\ Len(rest) \in {4, 16}
  /\ Len(y) = 4 + Len(rest) /\ y[2] = WireFamily(rest)
  /\ Get16(y, 2) = x /\ Placed(y, 4, rest)

\* The second byte of a small number is the number.
LEMMA SecondByte ==
  ASSUME NEW p \in Bytes, NEW q \in Bytes, NEW k, k = 1 \/ k = 2, p * 256 + q = k
  PROVE  q = k
BY DEF Bytes

\* What a server writes for a host names it.
LEMMA NamesIs ==
  ASSUME NEW rest \in Seq(Bytes), Len(rest) \in {4, 16}, NEW x \in Words
  PROVE  NamesHost(<<0, WireFamily(rest)>> \o Put16(x) \o rest, x, rest)
<1> DEFINE family == WireFamily(rest)
           a == [types |-> family, length |-> x, value |-> rest]
           y == Piece(a)
<1>1. family = 1 \/ family = 2
  BY DEF WireFamily, FamilyIPv4, FamilyIPv6
<1>2. Put16(family) = <<0, family>>
  <2>1. 1 \div 256 = 0 /\ 1 % 256 = 1 /\ 2 \div 256 = 0 /\ 2 % 256 = 2
    OBVIOUS
  <2>2. QED
    BY <1>1, <2>1 DEF Put16, Byte
<1>3. y = <<0, family>> \o Put16(x) \o rest
  BY <1>2 DEF Piece
<1>4. a \in Attributes(Bytes)
  <2>1. 1 \in Words /\ 2 \in Words
    BY IsAWord
  <2>2. family \in Words
    BY <1>1, <2>1
  <2> HIDE DEF family
  <2>3. QED
    BY <2>2 DEF Attributes
<1>5. a.value = rest /\ a.types = family /\ a.length = x
  OBVIOUS
<1> HIDE DEF a, family
<1>6. /\ y \in Seq(Bytes) /\ Len(y) = 4 + Len(rest) /\ Placed(y, 4, rest)
      /\ Get16(y, 0) = family /\ Get16(y, 2) = x
  BY <1>4, <1>5, PieceIs
<1> HIDE DEF y
<1>7. y[2] = family
  <2>1. Len(y) >= 4 /\ Len(y) \in Nat
    BY <1>6
  <2>2. y[1] \in Bytes /\ y[2] \in Bytes
    BY <1>6, <2>1
  <2>3. y[1] * 256 + y[2] = family
    BY <1>6 DEF Get16, Byte
  <2>4. QED
    BY <1>1, <2>2, <2>3, SecondByte
<1>8. NamesHost(y, x, rest)
  BY <1>6, <1>7 DEF NamesHost, family
<1>9. QED
  BY <1>3, <1>8 DEF family

\* The address of a family is that many bytes of what follows.
LEMMA OfForm ==
  ASSUME NEW ip \in Seq(Bytes), Len(ip) \in {4, 16}, NEW y \in Seq(Bytes), Placed(y, 0, ip),
         Len(ip) = 16 => y = ip
  PROVE  OfFamily(WireFamily(ip), y) = ip
<1>1. CASE Len(ip) = 4
  <2>1. WireFamily(ip) = FamilyIPv4 /\ OfFamily(FamilyIPv4, y) = SubSeq(y, 1, 4)
    BY <1>1 DEF WireFamily, OfFamily
  <2>2. \A i \in 1..4 : y[i] = ip[i] /\ ip[i] \in Bytes
    BY <1>1 DEF Placed
  <2>3. /\ SubSeq(y, 1, 4) \in Seq(Bytes) /\ Len(SubSeq(y, 1, 4)) = 4
        /\ \A i \in 1..4 : SubSeq(y, 1, 4)[i] = y[i]
    <3>1. \A i \in 1..4 : y[i] \in Bytes
      BY <2>2
    <3>2. /\ SubSeq(y, 1, 4) \in Seq(Bytes)
          /\ Len(SubSeq(y, 1, 4)) = IF 1 <= 4 THEN 4 - 1 + 1 ELSE 0
          /\ \A i \in 1 .. 4 - 1 + 1 : SubSeq(y, 1, 4)[i] = y[1 + i - 1]
      BY <3>1, SubSeqProperties
    <3>3. 1 <= 4 /\ 4 - 1 + 1 = 4 /\ \A i \in 1..4 : 1 + i - 1 = i
      OBVIOUS
    <3>4. QED
      BY <3>2, <3>3
  <2>4. SubSeq(y, 1, 4) = ip
    BY <1>1, <2>2, <2>3, SeqEqual
  <2>5. QED
    BY <2>1, <2>4
<1>2. CASE Len(ip) = 16
  <2>1. WireFamily(ip) = FamilyIPv6 /\ FamilyIPv6 # FamilyIPv4
    BY <1>2 DEF WireFamily, FamilyIPv6, FamilyIPv4
  <2>2. QED
    BY <1>2, <2>1 DEF OfFamily
<1>3. QED
  BY <1>1, <1>2

\* A value in the clear is read as it names the host.
LEMMA RawIs ==
  ASSUME NEW y, NEW x, NEW rest, NamesHost(y, x, rest)
  PROVE  rawAddr(y) = Host(WireFamily(rest), rest, x)
<1>1. /\ y \in Seq(Bytes) /\ rest \in Seq(Bytes) /\ Len(rest) \in {4, 16}
      /\ Len(y) = 4 + Len(rest) /\ y[2] = WireFamily(rest)
      /\ Get16(y, 2) = x /\ Placed(y, 4, rest)
  BY DEF NamesHost
<1>2. Slice(y, 4, 4 + Len(rest)) = rest
  BY <1>1, SlicePlaced
<1>3. Placed(rest, 0, rest)
  BY <1>1 DEF Placed
<1>4. OfFamily(WireFamily(rest), rest) = rest
  BY <1>1, <1>3, OfForm
<1>5. QED
  BY <1>1, <1>2, <1>4 DEF rawAddr

\* What is hidden with a key.
Hidden(rest, key) == [k \in DOMAIN rest |-> Xor8(rest[k], key[k])]

\* What is hidden twice with a key is there again.
LEMMA HiddenIs ==
  ASSUME NEW rest \in Seq(Bytes), Len(rest) \in {4, 16}, NEW key, IsKey(key)
  PROVE  /\ Hidden(rest, key) \in Seq(Bytes) /\ Len(Hidden(rest, key)) = Len(rest)
         /\ Hidden(rest, key) = [k \in 1..Len(rest) |-> Xor8(rest[k], key[k])]
         /\ Hidden(Hidden(rest, key), key) = rest
<1> DEFINE n == Len(rest)
           z == Hidden(rest, key)
<1>0. /\ n \in {4, 16} /\ DOMAIN rest = 1..n /\ \A k \in 1..n : rest[k] \in Bytes
      /\ rest = [k \in 1..n |-> rest[k]]
  BY Elements
<1> HIDE DEF n
<1>1. n \in Nat /\ n <= 16 /\ DOMAIN rest = 1..n /\ \A k \in 1..n : rest[k] \in Bytes
  BY <1>0
<1>2. rest = [k \in 1..n |-> rest[k]]
  BY <1>0
<1>3. \A k \in 1..n : key[k] \in Bytes
  <2>1. \A k \in 1..n : k \in 1..16
    BY <1>1
  <2>2. QED
    BY <2>1, KeyGives
<1>4. z = [k \in 1..n |-> Xor8(rest[k], key[k])]
  BY <1>1 DEF Hidden
<1>5. \A k \in 1..n : /\ Xor8(rest[k], key[k]) \in Bytes
                      /\ Xor8(Xor8(rest[k], key[k]), key[k]) = rest[k]
  BY <1>1, <1>3, XorsBytes
<1>6. z \in Seq(Bytes) /\ Len(z) = n
  <2>1. \A k \in 1..n : Xor8(rest[k], key[k]) \in Bytes
    BY <1>5
  <2>2. [k \in 1..n |-> Xor8(rest[k], key[k])] \in Seq(Bytes)
    BY <1>1, <2>1, IsASeq
  <2>3. Len([k \in 1..n |-> Xor8(rest[k], key[k])]) = n
    BY <1>1
  <2>4. QED
    BY <1>4, <2>2, <2>3
<1>7. Hidden(z, key) = rest
  <2>1. DOMAIN z = 1..n /\ \A k \in 1..n : z[k] = Xor8(rest[k], key[k])
    BY <1>4
  <2> HIDE DEF z
  <2>2. Hidden(z, key) = [k \in 1..n |-> Xor8(z[k], key[k])]
    BY <2>1 DEF Hidden
  <2>3. Hidden(z, key) = [k \in 1..n |-> rest[k]]
    BY <1>5, <2>1, <2>2
  <2>4. QED
    BY <1>2, <2>3
<1>8. QED
  BY <1>4, <1>6, <1>7 DEF n

\* A hidden value is read as it names the host, once uncovered.
LEMMA XorIs ==
  ASSUME NEW y, NEW x, NEW rest, NamesHost(y, x, rest), NEW key, IsKey(key)
  PROVE  xorAddr(y, key) = Host(WireFamily(rest), Hidden(rest, key), Xor16(x, Get16(key, 0)))
<1> DEFINE z == Hidden(rest, key)
           n == Len(rest)
           more == 16 - Len(z)
<1>1. /\ y \in Seq(Bytes) /\ rest \in Seq(Bytes) /\ n \in {4, 16}
      /\ Len(y) = 4 + n /\ y[2] = WireFamily(rest)
      /\ Get16(y, 2) = x /\ Placed(y, 4, rest)
  BY DEF NamesHost
<1>2. /\ z \in Seq(Bytes) /\ Len(z) = n /\ z = [k \in 1..n |-> Xor8(rest[k], key[k])]
  BY <1>1, HiddenIs
<1>3. WireFamily(z) = WireFamily(rest)
  BY <1>2 DEF WireFamily
<1>4. [k \in 1..(Len(y) - 4) |-> Xor8(y[k + 4], key[k])] = z
  <2>1. Len(y) - 4 = n
    BY <1>1
  <2>2. \A k \in 1..n : y[k + 4] = rest[k]
    <3>1. \A k \in 1..n : k + 4 = 4 + k
      BY <1>1
    <3>2. QED
      BY <1>1, <3>1 DEF Placed
  <2> HIDE DEF z, n
  <2>3. [k \in 1..n |-> Xor8(y[k + 4], key[k])] = [k \in 1..n |-> Xor8(rest[k], key[k])]
    BY <2>2
  <2>4. QED
    BY <1>2, <2>1, <2>3
<1> HIDE DEF z, n
<1>5. more \in Int /\ (n = 16 => more = 0)
  BY <1>1, <1>2
<1>6. z \o Zeros(more) = More(z, more, 0)
  BY DEF Zeros, More
<1> HIDE DEF more
<1>7. 0 \in Bytes
  BY DEF Bytes
<1>8. /\ More(z, more, 0) \in Seq(Bytes) /\ Placed(More(z, more, 0), 0, z)
      /\ more = 0 => More(z, more, 0) = z
  BY <1>2, <1>5, <1>7, Padded
<1>9. OfFamily(WireFamily(z), More(z, more, 0)) = z
  BY <1>1, <1>2, <1>5, <1>8, OfForm
<1>10. xorAddr(y, key) = Host(y[2], OfFamily(y[2], z \o Zeros(more)),
                              Xor16(Get16(y, 2), Get16(key, 0)))
  BY <1>4 DEF xorAddr, more
<1>11. QED
  BY <1>1, <1>3, <1>6, <1>9, <1>10 DEF z

\* The value of an attribute with an address.
LEMMA ValueNames ==
  ASSUME NEW id \in Ids(Bytes), NEW a \in Sendable, a.types \in AddressTypes
  PROVE  LET key == Key(id, a.types) IN
           NamesHost(Value(id, a), Xor16(a.port, Get16(key, 0)), Hidden(a.data, key))
<1> DEFINE key == Key(id, a.types)
           rest == Hidden(a.data, key)
           x == Xor16(a.port, Get16(key, 0))
<1>1. a.port \in Words /\ a.data \in Seq(Bytes) /\ Len(a.data) \in {4, 16}
  BY DEF Sendable
<1>2. Value(id, a) = <<0, WireFamily(a.data)>> \o Put16(x) \o rest
  BY DEF Value, Key, Hidden
<1>3. IsKey(key)
  BY KeyIs
<1> HIDE DEF key
<1>4. rest \in Seq(Bytes) /\ Len(rest) = Len(a.data)
  BY <1>1, <1>3, HiddenIs
<1>5. WireFamily(rest) = WireFamily(a.data)
  BY <1>4 DEF WireFamily
<1>6. x \in Words
  BY <1>1, <1>3, KeyGives, Xors16
<1> HIDE DEF rest, x
<1>7. NamesHost(<<0, WireFamily(rest)>> \o Put16(x) \o rest, x, rest)
  BY <1>1, <1>4, <1>6, NamesIs
<1>8. NamesHost(Value(id, a), x, rest)
  BY <1>2, <1>5, <1>7
<1>9. QED
  BY <1>8 DEF key, rest, x

\* What is sent in the clear is not changed by a key of zeros.
LEMMA HiddenByZeros ==
  ASSUME NEW rest \in Seq(Bytes), Len(rest) \in {4, 16}
  PROVE  Hidden(rest, Zeros(16)) = rest
<1> DEFINE n == Len(rest)
<1>1. /\ n \in {4, 16} /\ DOMAIN rest = 1..n /\ \A k \in 1..n : rest[k] \in Bytes
      /\ rest = [k \in 1..n |-> rest[k]]
  BY Elements
<1> HIDE DEF n
<1>2. \A k \in 1..n : k \in 1..16
  BY <1>1
<1>3. \A k \in 1..n : Zeros(16)[k] = 0
  BY <1>2 DEF Zeros
<1>4. 0 \in Bytes
  BY DEF Bytes
<1>5. \A k \in 1..n : Xor8(rest[k], 0) = rest[k]
  BY <1>1, <1>4, XorsBytes
<1>6. Hidden(rest, Zeros(16)) = [k \in 1..n |-> rest[k]]
  BY <1>1, <1>3, <1>5 DEF Hidden
<1>7. QED
  BY <1>1, <1>6

\* The address is read as it was sent, from the value and the identity.
LEMMA AddressIs ==
  ASSUME NEW id \in Ids(Bytes), NEW a \in Sendable, a.types \in AddressTypes
  PROVE  /\ a.types \in XorTypes => xorAddr(Value(id, a), Cookie \o id) = SentHost(a)
         /\ a.types \notin XorTypes => rawAddr(Value(id, a)) = SentHost(a)
<1> DEFINE key == Key(id, a.types)
           rest == Hidden(a.data, key)
           word == Get16(key, 0)
           x == Xor16(a.port, word)
           value == Value(id, a)
<1>1. a.port \in Words /\ a.data \in Seq(Bytes) /\ Len(a.data) \in {4, 16}
  BY DEF Sendable
<1>2. NamesHost(value, x, rest)
  BY ValueNames
<1>3. IsKey(key)
  BY KeyIs
<1>4. /\ a.types \in XorTypes => key = Cookie \o id
      /\ a.types \notin XorTypes => key = Zeros(16)
  BY DEF Key
<1> HIDE DEF key, value
<1>5. Len(rest) = Len(a.data) /\ Hidden(rest, key) = a.data
  BY <1>1, <1>3, HiddenIs
<1>6. word \in Words
  BY <1>3, KeyGives
<1> HIDE DEF word
<1>7. Xor16(x, word) = a.port /\ Xor16(a.port, 0) = a.port
  BY <1>1, <1>6, Xors16
<1>8. WireFamily(rest) = WireFamily(a.data)
  BY <1>5 DEF WireFamily
<1> HIDE DEF rest, x
<1>9. xorAddr(value, key) = Host(WireFamily(rest), Hidden(rest, key), Xor16(x, word))
  BY <1>2, <1>3, XorIs DEF word
<1>10. xorAddr(value, key) = SentHost(a)
  BY <1>5, <1>7, <1>8, <1>9 DEF SentHost
<1>11. rawAddr(value) = Host(WireFamily(rest), rest, x)
  BY <1>2, RawIs
<1>12. ASSUME key = Zeros(16) PROVE rest = a.data /\ x = a.port
  <2>1. rest = a.data
    BY <1>1, <1>12, HiddenByZeros DEF rest
  <2>2. word = 0
    <3>1. 1 \in 1..16 /\ 2 \in 1..16 /\ 0 + 1 = 1 /\ 0 + 2 = 2 /\ 0 * 256 + 0 = 0
      OBVIOUS
    <3>2. Zeros(16)[1] = 0 /\ Zeros(16)[2] = 0
      BY <3>1 DEF Zeros
    <3>3. Get16(Zeros(16), 0) = 0
      BY <3>1, <3>2 DEF Get16, Byte
    <3>4. QED
      BY <1>12, <3>3 DEF word
  <2>3. QED
    BY <1>7, <2>1, <2>2 DEF x
<1>13. ASSUME key = Zeros(16) PROVE rawAddr(value) = SentHost(a)
  BY <1>11, <1>12, <1>13 DEF SentHost
<1>14. QED
  BY <1>4, <1>10, <1>13 DEF value

\* An address needs no padding.
LEMMA AddressWhole ==
  ASSUME NEW id \in Ids(Bytes), NEW a \in Sendable, a.types \in AddressTypes
  PROVE  padding(Value(id, a)) = Value(id, a)
<1> DEFINE value == Value(id, a)
           rest == Hidden(a.data, Key(id, a.types))
<1>1. \E x : NamesHost(value, x, rest)
  BY ValueNames
<1>2. value \in Seq(Bytes) /\ (Len(value) = 8 \/ Len(value) = 20)
  <2> HIDE DEF value, rest
  <2>1. value \in Seq(Bytes) /\ Len(rest) \in {4, 16} /\ Len(value) = 4 + Len(rest)
    BY <1>1 DEF NamesHost
  <2> DEFINE j == Len(rest)
             k == Len(value)
  <2>2. j \in {4, 16} /\ k = 4 + j
    BY <2>1
  <2> HIDE DEF j, k
  <2>3. k = 8 \/ k = 20
    BY <2>2
  <2>4. QED
    BY <2>1, <2>3 DEF k
<1> HIDE DEF value
<1>3. align(8) = 8 /\ align(20) = 20 /\ 0 \in Bytes
  BY DEF align, Word16, Bytes
<1>4. align(Len(value)) = Len(value)
  BY <1>2, <1>3
<1>5. padding(value) = value
  BY <1>2, <1>3, <1>4, PaddingIs
<1>6. QED
  BY <1>5 DEF value

\* A value is a sequence of bytes.
LEMMA ValueSeq ==
  ASSUME NEW id \in Ids(Bytes), NEW a \in Sendable
  PROVE  Value(id, a) \in Seq(Bytes)
<1>1. CASE a.types \in AddressTypes
  BY <1>1, ValueNames DEF NamesHost
<1>2. CASE a.types \notin AddressTypes
  BY <1>2 DEF Value, Sendable
<1>3. QED
  BY <1>1, <1>2
-----------------------------------------------------------------------------
\* Naturals in two elements, which are bytes if they are words.
LEMMA PutNat == ASSUME NEW k \in Nat PROVE Put16(k) \in Seq(Nat) /\ Len(Put16(k)) = 2
<1>1. k \div 256 \in Nat /\ k % 256 \in Nat
  BY ByByte
<1>2. QED
  BY <1>1 DEF Put16, Byte

\* An attribute on the wire is longer than its value.
LEMMA EncodedLong ==
  ASSUME NEW id \in Ids(Bytes), NEW a \in Sendable
  PROVE  /\ Encoded(id, a) \in Seq(Nat) /\ Len(Value(id, a)) \in Nat
         /\ Len(Value(id, a)) <= Len(Encoded(id, a))
<1> DEFINE value == Value(id, a)
           size == Len(value)
           x == Put16(a.types)
           y == Put16(size)
           n == align(size) - size
           p == (x \o y) \o value
<1>1. value \in Seq(Nat) /\ size \in Nat
  <2>1. value \in Seq(Bytes) /\ Bytes \subseteq Nat
    BY ValueSeq DEF Bytes
  <2> HIDE DEF value
  <2>2. value \in Seq(Nat)
    BY <2>1, SeqWider
  <2>3. QED
    BY <2>2, LenProperties
<1>2. a.types \in Nat
  BY AWord DEF Sendable
<1>3. Encoded(id, a) = More(p, n, 32)
  BY DEF Encoded, More
<1> HIDE DEF value, size
<1>4. x \in Seq(Nat) /\ Len(x) = 2 /\ y \in Seq(Nat) /\ Len(y) = 2
  BY <1>1, <1>2, PutNat
<1>5. align(size) \in Nat
  BY <1>1, AlignNat
<1>6. n \in Int
  BY <1>1, <1>5
<1> HIDE DEF x, y, n
<1>7. x \o y \in Seq(Nat) /\ Len(x \o y) = Len(x) + Len(y)
  BY <1>4, PlacedBoth
<1> DEFINE h == x \o y
<1>8. p = h \o value /\ h \in Seq(Nat) /\ Len(h) = 4
  BY <1>4, <1>7
<1> HIDE DEF h, p
<1>9. p \in Seq(Nat) /\ Len(p) = Len(h) + Len(value)
  <2>1. h \o value \in Seq(Nat) /\ Len(h \o value) = Len(h) + Len(value)
    BY <1>1, <1>8, PlacedBoth
  <2>2. QED
    BY <1>8, <2>1
<1>10. /\ More(p, n, 32) \in Seq(Nat) /\ Len(More(p, n, 32)) \in Nat /\ Len(p) \in Nat
       /\ Len(p) <= Len(More(p, n, 32))
  BY <1>6, <1>9, Padded
<1>11. size <= Len(More(p, n, 32))
  BY <1>1, <1>8, <1>9, <1>10 DEF size
<1>12. QED
  BY <1>1, <1>3, <1>10, <1>11 DEF value, size

\* A word at the front.
LEMMA GetFirst ==
  ASSUME NEW z, NEW x, Placed(z, 0, x), Len(x) \in Nat, NEW i \in Nat, i + 2 <= Len(x)
  PROVE  Get16(z, i) = Get16(x, i)
<1>1. i + 1 \in 1..Len(x) /\ i + 2 \in 1..Len(x)
  OBVIOUS
<1>2. z[0 + (i + 1)] = x[i + 1] /\ z[0 + (i + 2)] = x[i + 2]
  BY <1>1 DEF Placed
<1>3. 0 + (i + 1) = i + 1 /\ 0 + (i + 2) = i + 2
  OBVIOUS
<1>4. QED
  BY <1>2, <1>3 DEF Get16

\* With a length that fits, an attribute on the wire is a piece.
LEMMA EncodedIs ==
  ASSUME NEW id \in Ids(Bytes), NEW a \in Sendable, Len(Value(id, a)) <= 65532
  PROVE  IsPiece(Encoded(id, a), a.types, Value(id, a))
<1> DEFINE value == Value(id, a)
           size == Len(value)
           n == align(size) - size
           e == [types |-> a.types, length |-> size, value |-> value]
           p == Piece(e)
           z == More(p, n, 32)
<1>1. value \in Seq(Bytes) /\ size \in Nat /\ value = [i \in 1..size |-> value[i]] /\ size <= 65532
  <2>1. value \in Seq(Bytes)
    BY ValueSeq
  <2> HIDE DEF value
  <2>2. size \in Nat /\ value = [i \in 1..size |-> value[i]]
    BY <2>1, Elements
  <2>3. QED
    BY <2>1, <2>2 DEF value
<1>2. a.types \in Words
  BY DEF Sendable
<1>3. Encoded(id, a) = z
  <2>1. p = Put16(a.types) \o Put16(size) \o value
    BY DEF Piece
  <2>2. Encoded(id, a) = (Put16(a.types) \o Put16(size) \o value) \o [k \in 1..n |-> 32]
    BY DEF Encoded
  <2> HIDE DEF p, n, value, size
  <2>3. QED
    BY <2>1, <2>2 DEF More
<1> HIDE DEF value
<1>4. size \in Words
  BY <1>1, IsAWord
<1>5. align(size) \in Nat /\ size <= align(size)
  BY <1>1, Space
<1> HIDE DEF size
<1>6. n \in Nat /\ n \in Int /\ size + n = align(size)
  BY <1>1, <1>5
<1> HIDE DEF n
<1>7. e \in Attributes(Bytes) /\ e.types = a.types /\ e.length = size /\ e.value = value
  BY <1>1, <1>2, <1>4 DEF Attributes
<1> HIDE DEF e
<1>8. /\ p \in Seq(Bytes) /\ Len(p) = 4 + size /\ Placed(p, 4, value)
      /\ Get16(p, 0) = a.types /\ Get16(p, 2) = size
  BY <1>7, PieceIs DEF size
<1> HIDE DEF p
<1>9. 32 \in Bytes
  BY DEF Bytes
<1>10. z \in Seq(Bytes) /\ Len(z) \in Nat /\ Placed(z, 0, p) /\ Len(z) = Len(p) + n
  BY <1>6, <1>8, <1>9, Padded
<1> HIDE DEF z
<1>11. Len(z) = 4 + align(size)
  BY <1>1, <1>6, <1>8, <1>10
<1>12. Len(p) \in Nat /\ Len(value) \in Nat /\ Len(value) = size
  BY <1>1, <1>8 DEF size
<1>13. Placed(z, 4, value)
  <2>1. Placed(z, 0 + 4, value)
    BY <1>8, <1>10, <1>12, PlacedWithin
  <2>2. QED
    BY <2>1
<1>14. Get16(z, 0) = a.types /\ Get16(z, 2) = size
  <2>1. 0 + 2 <= Len(p) /\ 2 + 2 <= Len(p)
    BY <1>1, <1>8
  <2>2. Get16(z, 0) = Get16(p, 0)
    BY <1>10, <1>12, <2>1, GetFirst
  <2>3. Get16(z, 2) = Get16(p, 2)
    BY <1>10, <1>12, <2>1, GetFirst
  <2>4. QED
    BY <1>8, <2>2, <2>3
<1>15. IsPiece(z, a.types, value)
  BY <1>1, <1>11, <1>12, <1>13, <1>14 DEF IsPiece, size
<1>16. QED
  BY <1>3, <1>15 DEF value

\* What a server sends, as pieces.
SentPieces(id, sent) == [k \in DOMAIN sent |-> Encoded(id, sent[k])]
SentTypes(sent) == [k \in DOMAIN sent |-> sent[k].types]
SentValues(id, sent) == [k \in DOMAIN sent |-> Value(id, sent[k])]
SentFlat(id, sent) == FlattenSeq(SentPieces(id, sent))
SentHead(id, sent) == HeadOf(257, Len(SentFlat(id, sent)), Cookie \o id)
FromServer(id, sent) == /\ id \in Ids(Bytes) /\ sent \in Seq(Sendable) /\ sent # <<>>
                      /\ Fits(Wire(id, sent))

\* No piece is longer than all of them joined.
LEMMA PieceFits ==
  ASSUME NEW S, NEW s \in Seq(Seq(S)), s # <<>>, NEW k \in 1..Len(s)
  PROVE  /\ Len(s[k]) \in Nat /\ Len(FlattenSeq(s)) \in Nat
         /\ Len(s[k]) <= Len(FlattenSeq(s))
<1>1. Len(s) \in Nat /\ s[k] \in Seq(S)
  BY Elements
<1>2. PICK at : Joints(s, at)
  BY Joined
<1>3. FlattenSeq(s) \in Seq(S)
  BY Joined
<1>4. Len(s[k]) \in Nat /\ Len(FlattenSeq(s)) \in Nat
  BY <1>1, <1>3, LenProperties
<1>5. k - 1 \in 0..(Len(s) - 1) /\ (k - 1) + 1 = k
  BY <1>1
<1>6. at[k - 1] \in Nat /\ Placed(FlattenSeq(s), at[k - 1], s[k])
  BY <1>2, <1>5 DEF Joints
<1>7. at[k - 1] + Len(s[k]) <= Len(FlattenSeq(s))
  BY <1>6 DEF Placed
<1> DEFINE i == at[k - 1]
           j == Len(s[k])
           n == Len(FlattenSeq(s))
<1>8. i \in Nat /\ j \in Nat /\ n \in Nat /\ i + j <= n
  BY <1>4, <1>6, <1>7
<1> HIDE DEF i, j, n
<1>9. j <= n
  BY <1>8
<1>10. QED
  BY <1>4, <1>9 DEF j, n

\* The pieces a server sends, one for each attribute.
LEMMA PiecesSent ==
  ASSUME NEW id \in Ids(Bytes), NEW sent \in Seq(Sendable), sent # <<>>
  PROVE  /\ SentPieces(id, sent) \in Seq(Seq(Nat)) /\ Len(SentPieces(id, sent)) = Len(sent)
         /\ SentPieces(id, sent) # <<>> /\ SentFlat(id, sent) \in Seq(Nat)
         /\ Len(sent) \in Nat
         /\ \A k \in 1..Len(sent) : /\ sent[k] \in Sendable
                                    /\ SentPieces(id, sent)[k] = Encoded(id, sent[k])
                                    /\ SentTypes(sent)[k] = sent[k].types
                                    /\ SentValues(id, sent)[k] = Value(id, sent[k])
<1> DEFINE n == Len(sent)
           s == SentPieces(id, sent)
<1>1. n \in Nat /\ n # 0 /\ DOMAIN sent = 1..n /\ \A k \in 1..n : sent[k] \in Sendable
  BY Elements, EmptySeq
<1> HIDE DEF n
<1>2. \A k \in 1..n : Encoded(id, sent[k]) \in Seq(Nat)
  BY <1>1, EncodedLong
<1>3. s = [k \in 1..n |-> Encoded(id, sent[k])]
  BY <1>1 DEF SentPieces
<1>4. s \in Seq(Seq(Nat)) /\ Len(s) = n
  <2>1. [k \in 1..n |-> Encoded(id, sent[k])] \in Seq(Seq(Nat))
    BY <1>1, <1>2, IsASeq
  <2>2. Len([k \in 1..n |-> Encoded(id, sent[k])]) = n
    BY <1>1
  <2>3. QED
    BY <1>3, <2>1, <2>2
<1>5. \A k \in 1..n : /\ s[k] = Encoded(id, sent[k])
                      /\ SentTypes(sent)[k] = sent[k].types
                      /\ SentValues(id, sent)[k] = Value(id, sent[k])
  BY <1>1, <1>3 DEF SentTypes, SentValues
<1> HIDE DEF s
<1>6. s # <<>>
  BY <1>1, <1>4, EmptySeq
<1>7. FlattenSeq(s) \in Seq(Nat)
  BY <1>4, <1>6, Joined
<1>8. QED
  BY <1>1, <1>4, <1>5, <1>6, <1>7 DEF n, s, SentFlat

\* The packet of a server is a head and what follows it.
LEMMA WireIs ==
  ASSUME NEW id \in Ids(Bytes), NEW sent \in Seq(Sendable), sent # <<>>
  PROVE  /\ Wire(id, sent) = SentHead(id, sent) \o SentFlat(id, sent)
         /\ SentHead(id, sent) \in Seq(Nat) /\ Len(SentHead(id, sent)) = 20
<1>0. \A x, y, z \in Seq(Nat) : (x \o y) \o z = x \o (y \o z)
  OBVIOUS
<1> DEFINE flat == SentFlat(id, sent)
           p == Put16(257)
           q == Put16(Len(flat))
           h == p \o q
           key == Cookie \o id
<1>1. flat \in Seq(Nat) /\ Len(flat) \in Nat
  BY PiecesSent, LenProperties
<1>2. Wire(id, sent) = (((p \o q) \o Cookie) \o id) \o flat
  BY DEF Wire, SentFlat, SentPieces
<1>3. SentHead(id, sent) = h \o key
  BY DEF SentHead, HeadOf
<1> HIDE DEF flat
<1>4. p \in Seq(Nat) /\ Len(p) = 2 /\ q \in Seq(Nat) /\ Len(q) = 2
  BY <1>1, PutNat
<1> HIDE DEF p, q
<1>5. h \in Seq(Nat) /\ Len(h) = 4
  <2>1. h \in Seq(Nat) /\ Len(h) = Len(p) + Len(q)
    BY <1>4, PlacedBoth
  <2>2. QED
    BY <1>4, <2>1
<1>6. key \in Seq(Nat) /\ Len(key) = 16
  <2>1. IsKey(key)
    BY KeyIs
  <2>2. key \in Seq(Bytes) /\ Len(key) = 16 /\ Bytes \subseteq Nat
    BY <2>1 DEF IsKey, Bytes
  <2>3. QED
    BY <2>2, SeqWider
<1>7. Cookie \in Seq(Nat) /\ id \in Seq(Nat)
  <2>1. Cookie \in Seq(Nat)
    BY DEF Cookie
  <2>2. id \in Seq(Bytes) /\ Bytes \subseteq Nat
    BY DEF Ids, Bytes
  <2>3. QED
    BY <2>1, <2>2, SeqWider
<1>8. (h \o Cookie) \o id = h \o key
  <2> HIDE DEF h
  <2>1. QED
    BY <1>0, <1>5, <1>7
<1>9. Wire(id, sent) = SentHead(id, sent) \o flat
  BY <1>2, <1>3, <1>8
<1> HIDE DEF h, key
<1>10. SentHead(id, sent) \in Seq(Nat) /\ Len(SentHead(id, sent)) = 20
  <2>1. h \o key \in Seq(Nat) /\ Len(h \o key) = Len(h) + Len(key)
    BY <1>5, <1>6, PlacedBoth
  <2>2. Len(h \o key) = 20
    BY <1>5, <1>6, <2>1
  <2>3. QED
    BY <1>3, <2>1, <2>2
<1>11. QED
  BY <1>9, <1>10 DEF flat

\* A response that fits is built of a head and pieces that carry what was sent.
LEMMA WireBuilt ==
  ASSUME NEW id, NEW sent, FromServer(id, sent)
  PROVE  /\ Built(Nat, SentHead(id, sent), SentPieces(id, sent), SentTypes(sent), SentValues(id, sent))
         /\ Headed(SentHead(id, sent) \o SentFlat(id, sent), 257, Len(SentFlat(id, sent)), Cookie \o id)
<1> DEFINE h == SentHead(id, sent)
           s == SentPieces(id, sent)
           flat == SentFlat(id, sent)
           n == Len(flat)
           key == Cookie \o id
<1>1. id \in Ids(Bytes) /\ sent \in Seq(Sendable) /\ sent # <<>> /\ Len(Wire(id, sent)) < 65536
  BY DEF FromServer, Fits, Word16
<1>2. Wire(id, sent) = h \o flat /\ h \in Seq(Nat) /\ Len(h) = 20
  BY <1>1, WireIs
<1>3. /\ s \in Seq(Seq(Nat)) /\ Len(s) = Len(sent) /\ s # <<>> /\ flat \in Seq(Nat)
      /\ \A k \in 1..Len(sent) : /\ sent[k] \in Sendable
                                 /\ s[k] = Encoded(id, sent[k])
                                 /\ SentTypes(sent)[k] = sent[k].types
                                 /\ SentValues(id, sent)[k] = Value(id, sent[k])
  BY <1>1, PiecesSent
<1>4. flat = FlattenSeq(s)
  BY DEF SentFlat
<1>5. h = HeadOf(257, n, key)
  BY DEF SentHead
<1>6. key \in Seq(Nat) /\ Len(key) = 16 /\ Bytes \subseteq Nat
  <2>1. IsKey(key)
    BY <1>1, KeyIs
  <2>2. key \in Seq(Bytes) /\ Len(key) = 16 /\ Bytes \subseteq Nat
    BY <2>1 DEF IsKey, Bytes
  <2>3. QED
    BY <2>2, SeqWider
<1> HIDE DEF h, s, flat, key
<1>7. n \in Nat /\ 20 + n < 65536
  <2>1. n \in Nat
    BY <1>3, LenProperties
  <2>2. Len(h \o flat) = Len(h) + Len(flat)
    BY <1>2, <1>3, PlacedBoth
  <2>3. Len(h \o flat) < 65536
    BY <1>1, <1>2
  <2>4. QED
    BY <1>2, <2>1, <2>2, <2>3
<1> HIDE DEF n
<1>8. ASSUME NEW k \in 1..Len(sent)
      PROVE  IsPiece(s[k], SentTypes(sent)[k], SentValues(id, sent)[k])
  <2> DEFINE a == sent[k]
             i == Len(Value(id, a))
             j == Len(Encoded(id, a))
  <2>1. a \in Sendable /\ s[k] = Encoded(id, a)
    BY <1>3
  <2>2. Len(s[k]) \in Nat /\ Len(s[k]) <= Len(FlattenSeq(s))
    BY <1>3, PieceFits
  <2>3. i \in Nat /\ i <= j
    BY <1>1, <2>1, EncodedLong
  <2>4. j \in Nat /\ j <= n
    BY <1>4, <2>1, <2>2 DEF n
  <2> HIDE DEF i, j
  <2>5. i <= 65532
    BY <1>7, <2>3, <2>4
  <2>6. IsPiece(Encoded(id, a), a.types, Value(id, a))
    BY <1>1, <2>1, <2>5, EncodedIs DEF i
  <2>7. QED
    BY <1>3, <2>6
<1>9. Pieces(s, SentTypes(sent), SentValues(id, sent))
  BY <1>3, <1>8 DEF Pieces
<1>10. Len(h \o FlattenSeq(s)) < 65536
  BY <1>1, <1>2, <1>4
<1>11. Built(Nat, h, s, SentTypes(sent), SentValues(id, sent))
  BY <1>2, <1>3, <1>9, <1>10 DEF Built
<1>12. Headed(h \o flat, 257, n, key)
  <2>1. 257 \in Words /\ n \in Words
    BY <1>7, IsAWord
  <2>2. ASSUME NEW k \in Words
        PROVE  Headed(HeadOf(k, n, key) \o flat, k, n, key)
    BY <1>3, <1>6, <2>1, HeadedIs
  <2>3. Headed(HeadOf(257, n, key) \o flat, 257, n, key)
    BY <2>1, <2>2
  <2>4. QED
    BY <1>5, <2>3
<1>13. QED
  BY <1>11, <1>12 DEF h, s, flat, n, key

\* What is read of the bytes of a server, whole or cut.
LEMMA WireRead ==
  ASSUME NEW id, NEW sent, FromServer(id, sent)
  PROVE  LET t == SentTypes(sent)
             values == SentValues(id, sent) IN
           /\ ReadWhole(Wire(id, sent), 257, Cookie \o id, t, values, Len(sent))
           /\ ReadCut(Wire(id, sent), 257, Cookie \o id, t, values, Len(sent))
           /\ Wire(id, sent) \in Seq(Nat)
<1> DEFINE h == SentHead(id, sent)
           s == SentPieces(id, sent)
           t == SentTypes(sent)
           values == SentValues(id, sent)
           key == Cookie \o id
<1>1. id \in Ids(Bytes) /\ sent \in Seq(Sendable) /\ sent # <<>>
  BY DEF FromServer
<1>2. Wire(id, sent) = h \o FlattenSeq(s) /\ h \in Seq(Nat)
  BY <1>1, WireIs DEF SentFlat
<1>3. Built(Nat, h, s, t, values) /\ Headed(h \o FlattenSeq(s), 257, Len(FlattenSeq(s)), key)
  BY WireBuilt DEF SentFlat
<1>4. Len(s) = Len(sent) /\ FlattenSeq(s) \in Seq(Nat)
  BY <1>1, PiecesSent DEF SentFlat
<1> HIDE DEF h, s, t, values, key
<1>5. /\ ReadWhole(h \o FlattenSeq(s), 257, key, t, values, Len(s))
      /\ ReadCut(h \o FlattenSeq(s), 257, key, t, values, Len(s))
  BY <1>3, PacketRead
<1>6. h \o FlattenSeq(s) \in Seq(Nat)
  BY <1>2, <1>4, PlacedBoth
<1>7. QED
  BY <1>2, <1>4, <1>5, <1>6 DEF t, values, key

\* A packet whose attributes have the types and the values that were sent.
AsSent(id, sent, v) ==
  /\ v.transID = Cookie \o id /\ DOMAIN v.attributes = 1..Len(sent)
  /\ \A k \in 1..Len(sent) : /\ v.attributes[k].types = sent[k].types
                             /\ v.attributes[k].value = padding(Value(id, sent[k]))

\* What is read has the types and the values that were sent.
LEMMA WireAsSent ==
  ASSUME NEW id, NEW sent, FromServer(id, sent)
  PROVE  /\ newPacketFromBytes(Wire(id, sent)) # Error
         /\ AsSent(id, sent, newPacketFromBytes(Wire(id, sent)))
<1> DEFINE n == Len(sent)
           c == newPacketFromBytes(Wire(id, sent))
           t == SentTypes(sent)
           values == SentValues(id, sent)
           key == Cookie \o id
           attrs == Taken(t, values, n)
<1>1. /\ n \in Nat
      /\ \A k \in 1..n : t[k] = sent[k].types /\ values[k] = Value(id, sent[k])
  BY PiecesSent DEF FromServer
<1>2. ReadWhole(Wire(id, sent), 257, key, t, values, n)
  BY WireRead
<1>3. c # Error /\ Understood(c, 257, key, attrs)
  BY <1>2 DEF ReadWhole
<1> HIDE DEF t, values, n, c, key
<1>4. PICK length : c = Packet(257, length, key, attrs)
  BY <1>3 DEF Understood
<1>5. c.transID = key /\ c.attributes = attrs
  BY <1>4 DEF Packet
<1>6. DOMAIN attrs = 1..n /\ \A k \in 1..n : attrs[k] = newAttribute(t[k], values[k])
  BY DEF Taken
<1>7. ASSUME NEW types, NEW value
      PROVE  newAttribute(types, value).types = types /\ newAttribute(types, value).value = padding(value)
  BY DEF newAttribute
<1>8. AsSent(id, sent, c)
  BY <1>1, <1>5, <1>6, <1>7 DEF AsSent, n, key
<1>9. QED
  BY <1>3, <1>8 DEF c

\* The least member is a member.
LEMMA LeastIs ==
  ASSUME NEW T, T \subseteq Nat, T # {}
  PROVE  Min(T) \in T
BY Least DEF Min

\* The first attribute of a type is the first one of that type that was sent.
LEMMA TypesAlike ==
  ASSUME NEW id, NEW sent, FromServer(id, sent), NEW v, AsSent(id, sent, v), NEW types
  PROVE  /\ OfType(v.attributes, types) = OfType(sent, types)
         /\ OfType(sent, types) # {} =>
              /\ Min(OfType(sent, types)) \in 1..Len(sent)
              /\ sent[Min(OfType(sent, types))].types = types
              /\ sent[Min(OfType(sent, types))] \in Sendable
<1>1. /\ DOMAIN sent = 1..Len(sent) /\ Len(sent) \in Nat
      /\ \A k \in 1..Len(sent) : sent[k] \in Sendable
  BY Elements DEF FromServer
<1>2. /\ DOMAIN v.attributes = 1..Len(sent)
      /\ \A k \in 1..Len(sent) : v.attributes[k].types = sent[k].types
  BY DEF AsSent
<1>3. OfType(v.attributes, types) = OfType(sent, types)
  BY <1>1, <1>2 DEF OfType
<1>4. OfType(sent, types) \subseteq Nat
  BY <1>1 DEF OfType
<1>5. ASSUME OfType(sent, types) # {}
      PROVE  Min(OfType(sent, types)) \in OfType(sent, types)
  BY <1>4, <1>5, LeastIs
<1>6. \A k \in OfType(sent, types) :
        k \in 1..Len(sent) /\ sent[k].types = types /\ sent[k] \in Sendable
  BY <1>1 DEF OfType
<1>7. QED
  BY <1>3, <1>5, <1>6

\* The first address of a type is read as it was sent.
LEMMA FirstRead ==
  ASSUME NEW id, NEW sent, FromServer(id, sent), NEW v, AsSent(id, sent, v),
         NEW types \in AddressTypes
  PROVE  /\ types \in XorTypes => getXorAddr(v, types) = FirstSent(sent, types)
         /\ types \notin XorTypes => getRawAddr(v, types) = FirstSent(sent, types)
         /\ OfType(sent, types) = {} <=> FirstSent(sent, types) = Nil
<1>1. /\ OfType(v.attributes, types) = OfType(sent, types)
      /\ OfType(sent, types) # {} =>
           /\ Min(OfType(sent, types)) \in 1..Len(sent)
           /\ sent[Min(OfType(sent, types))].types = types
           /\ sent[Min(OfType(sent, types))] \in Sendable
  BY TypesAlike
<1>2. id \in Ids(Bytes)
  BY DEF FromServer
<1>3. CASE OfType(sent, types) = {}
  BY <1>1, <1>3 DEF getXorAddr, getRawAddr, FirstSent
<1>4. CASE OfType(sent, types) # {}
  <2> DEFINE k == Min(OfType(sent, types))
             a == sent[k]
             value == Value(id, a)
  <2>1. k \in 1..Len(sent) /\ a.types = types /\ a \in Sendable
    BY <1>1, <1>4
  <2>2. v.attributes[k].value = padding(value) /\ v.transID = Cookie \o id
    BY <2>1 DEF AsSent
  <2>3. FirstSent(sent, types) = SentHost(a)
    BY <1>4 DEF FirstSent
  <2>4. /\ getXorAddr(v, types) = xorAddr(v.attributes[k].value, v.transID)
        /\ getRawAddr(v, types) = rawAddr(v.attributes[k].value)
    BY <1>1, <1>4 DEF getXorAddr, getRawAddr
  <2> HIDE DEF k, a
  <2>5. padding(value) = value
    BY <1>2, <2>1, AddressWhole
  <2>6. /\ a.types \in XorTypes => xorAddr(value, Cookie \o id) = SentHost(a)
        /\ a.types \notin XorTypes => rawAddr(value) = SentHost(a)
    BY <1>2, <2>1, AddressIs
  <2>7. SentHost(a) # Nil
    BY DEF SentHost, Host, Nil, WireFamily, FamilyIPv4, FamilyIPv6
  <2>8. QED
    BY <1>4, <2>1, <2>2, <2>3, <2>4, <2>5, <2>6, <2>7
<1>5. QED
  BY <1>3, <1>4

\* Which types have an address, and which of them a hidden one.
LEMMA AllTypes ==
  /\ XorMapped \in AddressTypes /\ XorMapped \in XorTypes
  /\ XorMappedExp \in AddressTypes /\ XorMappedExp \in XorTypes
  /\ MappedAddress \in AddressTypes /\ MappedAddress \notin XorTypes
  /\ ChangedAddr \in AddressTypes /\ ChangedAddr \notin XorTypes
  /\ OtherAddr \in AddressTypes /\ OtherAddr \notin XorTypes
BY DEF AddressTypes, XorTypes, XorMapped, XorMappedExp, MappedAddress, ChangedAddr, OtherAddr

\* Whatever attributes a server sends, the addresses among them are read as it has sent
\* them (newPacketFromBytes, newResponse).
THEOREM ResponseArrives ==
  ASSUME NEW id, NEW sent, FromServer(id, sent)
  PROVE  AddressesRead(id, sent)
<1> DEFINE v == newPacketFromBytes(Wire(id, sent))
           r == newResponse(v)
<1>1. v # Error /\ AsSent(id, sent, v)
  BY WireAsSent
<1> HIDE DEF v
<1>2. /\ getXorAddr(v, XorMapped) = FirstSent(sent, XorMapped)
      /\ OfType(sent, XorMapped) = {} <=> FirstSent(sent, XorMapped) = Nil
  BY <1>1, AllTypes, FirstRead
<1>3. /\ getXorAddr(v, XorMappedExp) = FirstSent(sent, XorMappedExp)
      /\ OfType(sent, XorMappedExp) = {} <=> FirstSent(sent, XorMappedExp) = Nil
  BY <1>1, AllTypes, FirstRead
<1>4. getRawAddr(v, MappedAddress) = FirstSent(sent, MappedAddress)
  BY <1>1, AllTypes, FirstRead
<1>5. getRawAddr(v, ChangedAddr) = FirstSent(sent, ChangedAddr)
  BY <1>1, AllTypes, FirstRead
<1>6. getRawAddr(v, OtherAddr) = FirstSent(sent, OtherAddr)
  BY <1>1, AllTypes, FirstRead
<1>7. /\ r.mapped = IF getXorMappedAddr(v) # Nil THEN getXorMappedAddr(v) ELSE getRawAddr(v, MappedAddress)
      /\ r.changed = Resolved(getRawAddr(v, ChangedAddr))
      /\ r.other = Resolved(getRawAddr(v, OtherAddr))
  BY DEF newResponse
<1> HIDE DEF r
<1>8. getXorMappedAddr(v) = IF FirstSent(sent, XorMapped) # Nil THEN FirstSent(sent, XorMapped)
                            ELSE FirstSent(sent, XorMappedExp)
  BY <1>2, <1>3 DEF getXorMappedAddr
<1>9. r.changed = Resolved(FirstSent(sent, ChangedAddr)) /\ r.other = Resolved(FirstSent(sent, OtherAddr))
  BY <1>5, <1>6, <1>7
<1>10. OfType(sent, XorMapped) # {} => r.mapped = FirstSent(sent, XorMapped)
  BY <1>2, <1>7, <1>8
<1>11. OfType(sent, XorMapped) = {} /\ OfType(sent, XorMappedExp) # {} =>
         r.mapped = FirstSent(sent, XorMappedExp)
  BY <1>2, <1>3, <1>7, <1>8
<1>12. OfType(sent, XorMapped) = {} /\ OfType(sent, XorMappedExp) = {} =>
         r.mapped = FirstSent(sent, MappedAddress)
  BY <1>2, <1>3, <1>4, <1>7, <1>8
<1>13. QED
  BY <1>1, <1>9, <1>10, <1>11, <1>12 DEF AddressesRead, v, r
-----------------------------------------------------------------------------
\* A slice from the front is a packet that is cut.
LEMMA SliceCut ==
  ASSUME NEW S, NEW w \in Seq(S), NEW size \in 0..Len(w), size % 4 = 0
  PROVE  Cut(Slice(w, 0, size), w)
<1>1. size \in Nat /\ size <= Len(w) /\ DOMAIN w = 1..Len(w) /\ Len(w) \in Nat
  BY Elements
<1>2. size - 0 = size /\ \A i \in 1..size : 0 + i = i /\ i \in DOMAIN w
  BY <1>1
<1> DEFINE b == Slice(w, 0, size)
<1>3. b = [i \in 1..size |-> w[i]]
  BY <1>2 DEF Slice
<1> HIDE DEF b
<1>4. DOMAIN b = 1..size /\ Len(b) = size /\ \A i \in 1..size : b[i] = w[i]
  BY <1>1, <1>3
<1>5. size = 4 * (size \div 4)
  BY <1>1, ByFour
<1>6. Cut(b, w)
  BY <1>1, <1>4, <1>5 DEF Cut
<1>7. QED
  BY <1>6 DEF b

\* Fewer attributes are a prefix of more.
LEMMA TakenPrefix ==
  ASSUME NEW types, NEW values, NEW n \in Nat, NEW m \in 0..n
  PROVE  IsPrefix(Taken(types, values, m), Taken(types, values, n))
<1> DEFINE s == Taken(types, values, m)
           t == Taken(types, values, n)
           X == {newAttribute(types[k], values[k]) : k \in 1..n}
<1>1. \A k \in 1..n : newAttribute(types[k], values[k]) \in X
  OBVIOUS
<1>2. m \in Nat /\ m <= n /\ \A k \in 1..m : k \in 1..n
  OBVIOUS
<1> HIDE DEF X
<1>3. s \in Seq(X) /\ Len(s) = m /\ \A k \in 1..m : s[k] = newAttribute(types[k], values[k])
  <2>1. \A k \in 1..m : newAttribute(types[k], values[k]) \in X
    BY <1>1, <1>2
  <2>2. [k \in 1..m |-> newAttribute(types[k], values[k])] \in Seq(X)
    BY <1>2, <2>1, IsASeq
  <2>3. QED
    BY <1>2, <2>2 DEF Taken
<1>4. t \in Seq(X) /\ Len(t) = n /\ \A k \in 1..n : t[k] = newAttribute(types[k], values[k])
  <2>1. [k \in 1..n |-> newAttribute(types[k], values[k])] \in Seq(X)
    BY <1>1, IsASeq
  <2>2. QED
    BY <2>1 DEF Taken
<1> HIDE DEF s, t
<1>5. \A k \in 1..m : s[k] = t[k] /\ s[k] \in X
  BY <1>1, <1>2, <1>3, <1>4
<1>6. /\ SubSeq(s, 1, m) = [i \in 1..m |-> s[i]] /\ SubSeq(t, 1, m) = [i \in 1..m |-> t[i]]
  <2>1. m - 1 + 1 = m /\ (1..m) = 1..(m - 1 + 1) /\ \A i \in 1..m : 1 + i - 1 = i
    BY <1>2
  <2>2. QED
    BY <1>2, <1>3, <1>4, <2>1
<1>7. SubSeq(s, 1, m) = SubSeq(t, 1, m)
  BY <1>5, <1>6
<1>8. IsPrefix(s, t)
  BY <1>2, <1>3, <1>4, <1>7 DEF IsPrefix
<1>9. QED
  BY <1>8 DEF s, t

\* A response that the buffer cuts is refused, or read as the attributes before the cut.
THEOREM CutNotMisread ==
  ASSUME NEW id, NEW sent, FromServer(id, sent)
  PROVE  CutIsPrefix(id, sent)
<1> DEFINE w == Wire(id, sent)
           n == Len(sent)
           t == SentTypes(sent)
           values == SentValues(id, sent)
           key == Cookie \o id
           v == newPacketFromBytes(w)
<1>1. ReadWhole(w, 257, key, t, values, n) /\ ReadCut(w, 257, key, t, values, n) /\ w \in Seq(Nat)
  BY WireRead
<1>2. n \in Nat
  BY Elements DEF FromServer
<1> HIDE DEF w, n, t, values, key
<1>3. \A c, m : Understood(c, 257, key, Taken(t, values, m)) => c.attributes = Taken(t, values, m)
  BY DEF Understood, Packet
<1>4. v.attributes = Taken(t, values, n)
  BY <1>1, <1>3 DEF ReadWhole
<1> HIDE DEF v
<1>5. ASSUME NEW size \in 0..Len(w), size % 4 = 0
      PROVE  LET cut == newPacketFromBytes(Slice(w, 0, size)) IN
               cut = Error \/ IsPrefix(cut.attributes, v.attributes)
  <2> DEFINE cut == newPacketFromBytes(Slice(w, 0, size))
  <2>1. Cut(Slice(w, 0, size), w)
    BY <1>1, <1>5, SliceCut
  <2>2. \/ cut = Error
        \/ \E m \in 0..n : Understood(cut, 257, key, Taken(t, values, m))
    BY <1>1, <2>1 DEF ReadCut
  <2> HIDE DEF cut
  <2>3. ASSUME NEW m \in 0..n, Understood(cut, 257, key, Taken(t, values, m))
        PROVE  IsPrefix(cut.attributes, v.attributes)
    <3>1. cut.attributes = Taken(t, values, m)
      BY <1>3, <2>3
    <3>2. IsPrefix(Taken(t, values, m), Taken(t, values, n))
      BY <1>2, <2>3, TakenPrefix
    <3>3. QED
      BY <1>4, <3>1, <3>2
  <2>4. QED
    BY <2>2, <2>3 DEF cut
<1>6. QED
  BY <1>5 DEF CutIsPrefix, w, v

\* The requests and responses of the instance fit in a datagram.
LEMMA IdIs == Id \in Seq(Bytes) /\ Len(Id) = 12 /\ Id \in Ids(Bytes)
<1>1. \A k \in {1, 2, 3, 250, 5, 6, 7, 8, 9, 10, 11, 12} : k \in Bytes
  BY DEF Bytes
<1>2. Id \in Seq(Bytes) /\ Len(Id) = 12
  BY <1>1 DEF Id
<1>3. QED
  BY <1>2 DEF Ids

\* All requests of the instance arrive.
LEMMA RequestsRight == RequestsArrive
<1>1. ASSUME NEW name \in Names PROVE name \in Seq(Bytes) /\ Len(name) <= 65000
  <2>1. 97 \in Bytes /\ 98 \in Bytes /\ 99 \in Bytes /\ 100 \in Bytes
    BY DEF Bytes
  <2>2. /\ <<97>> \in Seq(Bytes) /\ Len(<<97>>) <= 65000
        /\ <<97, 98, 99>> \in Seq(Bytes) /\ Len(<<97, 98, 99>>) <= 65000
        /\ <<97, 98, 99, 100>> \in Seq(Bytes) /\ Len(<<97, 98, 99, 100>>) <= 65000
        /\ <<>> \in Seq(Bytes) /\ Len(<<>>) <= 65000
    BY <2>1
  <2>3. name = <<>> \/ name = <<97>> \/ name = <<97, 98, 99>> \/ name = <<97, 98, 99, 100>>
    BY DEF Names
  <2>4. CASE name = <<>>
    BY <2>2, <2>4
  <2>5. CASE name = <<97>>
    BY <2>2, <2>5
  <2>6. CASE name = <<97, 98, 99>>
    BY <2>2, <2>6
  <2>7. CASE name = <<97, 98, 99, 100>>
    BY <2>2, <2>7
  <2>8. QED
    BY <2>3, <2>4, <2>5, <2>6, <2>7
<1>2. ASSUME NEW name \in Names, NEW ip, NEW port PROVE Carried(Id, name, ip, port)
  <2>1. Fits(bytes(Request(Id, name, ip, port)))
    BY <1>1, IdIs, RequestFits
  <2>2. Id \in Seq(0..255) /\ name \in Seq(0..255) /\ Len(Id) = 12
    BY <1>1, IdIs DEF Bytes
  <2>3. QED
    BY <2>1, <2>2, RequestArrives
<1>3. QED
  BY <1>2 DEF RequestsArrive

\* Three sequences that are joined.
LEMMA ThreeJoined ==
  ASSUME NEW S, NEW x \in Seq(S), NEW y \in Seq(S), NEW z \in Seq(S)
  PROVE  (x \o y) \o z \in Seq(S) /\ Len((x \o y) \o z) = Len(x) + Len(y) + Len(z)
<1> DEFINE w == x \o y
<1>1. w \in Seq(S) /\ Len(w) = Len(x) + Len(y)
  BY PlacedBoth
<1> HIDE DEF w
<1>2. w \o z \in Seq(S) /\ Len(w \o z) = Len(w) + Len(z)
  BY <1>1, PlacedBoth
<1>3. QED
  BY <1>1, <1>2 DEF w

\* The addresses of the instance have four bytes or 16.
LEMMA IpIs ==
  ASSUME NEW form \in {"4", "6", "4in6"}, NEW k \in 1..3
  PROVE  Ip(form, k) \in Seq(Bytes) /\ Len(Ip(form, k)) \in {4, 16}
<1>0. \A x, y, z \in Seq(Bytes) :
        (x \o y) \o z \in Seq(Bytes) /\ Len((x \o y) \o z) = Len(x) + Len(y) + Len(z)
  BY ThreeJoined
<1>1. /\ 198 \in Bytes /\ 51 \in Bytes /\ 100 \in Bytes /\ k \in Bytes /\ 32 \in Bytes /\ 1 \in Bytes
      /\ 13 \in Bytes /\ 184 \in Bytes /\ 255 \in Bytes /\ 0 \in Bytes
  BY DEF Bytes
<1>2. V4(k) \in Seq(Bytes) /\ Len(V4(k)) = 4
  BY <1>1 DEF V4
<1>3. ASSUME NEW n \in Nat PROVE Zeros(n) \in Seq(Bytes) /\ Len(Zeros(n)) = n
  <2>1. [j \in 1..n |-> 0] \in Seq(Bytes)
    BY <1>1, IsASeq
  <2>2. QED
    BY <2>1 DEF Zeros
<1>4. V6(k) \in Seq(Bytes) /\ Len(V6(k)) = 16
  <2> DEFINE x == <<32, 1, 13, 184>>
             y == Zeros(11)
             z == <<k>>
  <2>1. x \in Seq(Bytes) /\ Len(x) = 4 /\ z \in Seq(Bytes) /\ Len(z) = 1
    BY <1>1
  <2>2. y \in Seq(Bytes) /\ Len(y) = 11
    BY <1>3
  <2>3. V6(k) = (x \o y) \o z
    BY DEF V6
  <2> HIDE DEF x, y, z
  <2>4. z \in Seq(Bytes) /\ Len(z) = 1
    BY <2>1
  <2>5. (x \o y) \o z \in Seq(Bytes) /\ Len((x \o y) \o z) = Len(x) + Len(y) + Len(z)
    BY <1>0, <2>1, <2>2, <2>4
  <2>6. QED
    BY <2>1, <2>2, <2>3, <2>4, <2>5
<1>5. V4In6(k) \in Seq(Bytes) /\ Len(V4In6(k)) = 16
  <2> DEFINE x == Zeros(10)
             y == <<255, 255>>
             z == V4(k)
  <2>1. x \in Seq(Bytes) /\ Len(x) = 10
    BY <1>3
  <2>2. y \in Seq(Bytes) /\ Len(y) = 2
    BY <1>1
  <2>3. V4In6(k) = (x \o y) \o z
    BY DEF V4In6
  <2> HIDE DEF x, y
  <2>4. z \in Seq(Bytes) /\ Len(z) = 4
    BY <1>2
  <2> HIDE DEF z
  <2>5. (x \o y) \o z \in Seq(Bytes) /\ Len((x \o y) \o z) = Len(x) + Len(y) + Len(z)
    BY <1>0, <2>1, <2>2, <2>4
  <2>6. QED
    BY <2>1, <2>2, <2>3, <2>4, <2>5
<1>6. Ip("4", k) = V4(k) /\ Ip("6", k) = V6(k) /\ Ip("4in6", k) = V4In6(k)
  BY DEF Ip
<1>7. QED
  BY <1>2, <1>4, <1>5, <1>6

\* Small lengths.
LEMMA ShortLengths ==
  /\ \A i : i = 3 => i <= 20
  /\ \A i : i \in Nat /\ i <= 81 => 20 + i < 65536
OBVIOUS

\* The attributes of the instance can be sent, and are short.
LEMMA AttributeIs ==
  ASSUME NEW types \in AddressTypes \union {Software}, NEW form \in {"4", "6", "4in6"}, NEW k \in 1..3
  PROVE  /\ Attribute(types, form, k) \in Sendable
         /\ Len(Value(Id, Attribute(types, form, k))) <= 20
<1> DEFINE a == Attribute(types, form, k)
           data == IF types = Software THEN <<118, 49, 46>> ELSE Ip(form, k)
<1>1. a = [types |-> types, port |-> 60000 + k, data |-> data]
  BY DEF Attribute
<1>2. Software \notin AddressTypes
  BY DEF Software, AddressTypes, XorTypes, XorMapped, XorMappedExp, MappedAddress, ChangedAddr, OtherAddr
<1>3. types \in Words
  <2>1. types \in {32, 32800, 1, 5, 32812, 32802}
    BY DEF Software, AddressTypes, XorTypes, XorMapped, XorMappedExp, MappedAddress, ChangedAddr, OtherAddr
  <2>2. types \in Nat /\ types < 65536
    BY <2>1
  <2>3. QED
    BY <2>2, IsAWord
<1>4. 60000 + k \in Words
  <2>1. 60000 + k \in Nat /\ 60000 + k < 65536
    OBVIOUS
  <2>2. QED
    BY <2>1, IsAWord
<1>5. /\ data \in Seq(Bytes)
      /\ types # Software => Len(data) \in {4, 16}
      /\ types = Software => Len(data) = 3
  <2>1. CASE types = Software
    <3>1. 118 \in Bytes /\ 49 \in Bytes /\ 46 \in Bytes
      BY DEF Bytes
    <3>2. <<118, 49, 46>> \in Seq(Bytes) /\ Len(<<118, 49, 46>>) = 3
      BY <3>1
    <3>3. QED
      BY <2>1, <3>2
  <2>2. CASE types # Software
    BY <2>2, IpIs
  <2>3. QED
    BY <2>1, <2>2
<1> HIDE DEF data
<1>6. a \in Sendable
  BY <1>1, <1>2, <1>3, <1>4, <1>5 DEF Sendable
<1>7. a.types = types /\ a.data = data
  BY <1>1
<1> HIDE DEF a
<1>8. Len(Value(Id, a)) <= 20
  <2>1. CASE types \in AddressTypes
    <3> DEFINE key == Key(Id, types)
               rest == Hidden(a.data, key)
    <3>1. IsKey(key)
      BY IdIs, KeyIs
    <3>2. Len(rest) = Len(data) /\ Len(data) \in {4, 16}
      <4> HIDE DEF key
      <4>1. Len(data) \in {4, 16}
        BY <1>2, <1>5, <2>1
      <4>2. QED
        BY <1>5, <1>7, <3>1, <4>1, HiddenIs
    <3>3. \E x : NamesHost(Value(Id, a), x, rest)
      BY <1>6, <1>7, <2>1, IdIs, ValueNames
    <3> HIDE DEF rest
    <3>4. Len(Value(Id, a)) = 4 + Len(rest)
      BY <3>3 DEF NamesHost
    <3>5. Len(rest) \in {4, 16}
      BY <3>2
    <3> DEFINE i == Len(Value(Id, a))
               j == Len(rest)
    <3>6. j \in {4, 16} /\ i = 4 + j
      BY <3>4, <3>5
    <3> HIDE DEF i, j
    <3>7. i <= 20
      BY <3>6
    <3>8. QED
      BY <3>7 DEF i
  <2>2. CASE types \notin AddressTypes
    <3>1. Value(Id, a) = data /\ types = Software
      BY <1>7, <2>2 DEF Value
    <3>2. Len(Value(Id, a)) = 3
      BY <1>5, <3>1
    <3>3. QED
      BY <3>2, ShortLengths
  <2>3. QED
    BY <2>1, <2>2
<1>9. QED
  BY <1>6, <1>8 DEF a

LEMMA ShortAlign ==
  ASSUME NEW size \in Nat, size <= 20
  PROVE  4 + align(size) \in Nat /\ 4 + align(size) <= 27
<1>1. size <= 65532
  OBVIOUS
<1>2. align(size) \in Nat /\ align(size) <= size + 3
  BY <1>1, Aligned
<1>3. QED
  BY <1>2

\* A short attribute is a short piece.
LEMMA ShortPiece ==
  ASSUME NEW a \in Sendable, Len(Value(Id, a)) <= 20
  PROVE  Len(Encoded(Id, a)) \in Nat /\ Len(Encoded(Id, a)) <= 27
<1> DEFINE size == Len(Value(Id, a))
<1>1. Encoded(Id, a) \in Seq(Nat) /\ size \in Nat
  BY IdIs, EncodedLong
<1> HIDE DEF size
<1>2. size <= 20 /\ size <= 65532
  BY <1>1 DEF size
<1>3. IsPiece(Encoded(Id, a), a.types, Value(Id, a))
  BY <1>2, IdIs, EncodedIs DEF size
<1>4. Len(Encoded(Id, a)) = 4 + align(size)
  BY <1>3 DEF IsPiece, size
<1>5. 4 + align(size) \in Nat /\ 4 + align(size) <= 27
  BY <1>1, <1>2, ShortAlign
<1>6. QED
  BY <1>4, <1>5

\* Three short pieces are short when joined.
LEMMA ThreePieces ==
  ASSUME NEW S, NEW s \in Seq(Seq(S)), Len(s) = 3, \A k \in 1..3 : Len(s[k]) <= 27
  PROVE  Len(FlattenSeq(s)) \in Nat /\ Len(FlattenSeq(s)) <= 81
<1>1. s # <<>>
  <2>1. Len(<<>>) = 0
    OBVIOUS
  <2>2. CASE s = <<>>
    <3>1. Len(s) = 0
      BY <2>1, <2>2
    <3>2. QED
      BY <3>1
  <2>3. QED
    BY <2>2
<1>2. PICK at : Joints(s, at)
  BY <1>1, Joined
<1>3. \A k \in 1..3 : Len(s[k]) \in Nat
  BY Elements, LenProperties
<1>4. at[0] = 0 /\ at[3] = Len(FlattenSeq(s))
  BY <1>2 DEF Joints
<1>5. \A k \in 0..2 : at[k + 1] = at[k] + Len(s[k + 1])
  <2>1. Len(s) - 1 = 2
    OBVIOUS
  <2>2. QED
    BY <1>2, <2>1 DEF Joints
<1>6. 0 + 1 = 1 /\ 1 + 1 = 2 /\ 2 + 1 = 3
  OBVIOUS
<1>7. at[1] = at[0] + Len(s[1]) /\ at[2] = at[1] + Len(s[2]) /\ at[3] = at[2] + Len(s[3])
  BY <1>5, <1>6
<1>8. /\ Len(s[1]) \in Nat /\ Len(s[2]) \in Nat /\ Len(s[3]) \in Nat
      /\ Len(s[1]) <= 27 /\ Len(s[2]) <= 27 /\ Len(s[3]) <= 27
  BY <1>3
<1> DEFINE i == Len(s[1])
           j == Len(s[2])
           k == Len(s[3])
<1>9. at[3] = i + j + k /\ i \in Nat /\ j \in Nat /\ k \in Nat /\ i <= 27 /\ j <= 27 /\ k <= 27
  BY <1>4, <1>7, <1>8
<1> HIDE DEF i, j, k
<1>10. at[3] \in Nat /\ at[3] <= 81
  BY <1>9
<1>11. QED
  BY <1>4, <1>10

\* All responses of the instance are read as they were sent.
LEMMA ResponsesRight == ResponsesArrive
<1>1. ASSUME NEW sent \in Responses PROVE FromServer(Id, sent)
  <2>1. PICK types \in [1..3 -> AddressTypes \union {Software}], form \in {"4", "6", "4in6"} :
          sent = [k \in 1..3 |-> Attribute(types[k], form, k)]
    BY DEF Responses
  <2>2. \A k \in 1..3 : sent[k] \in Sendable /\ Len(Value(Id, sent[k])) <= 20
    BY <2>1, AttributeIs
  <2>3. sent \in Seq(Sendable) /\ Len(sent) = 3
    <3>1. \A k \in 1..3 : Attribute(types[k], form, k) \in Sendable
      BY <2>1, <2>2
    <3>2. [k \in 1..3 |-> Attribute(types[k], form, k)] \in Seq(Sendable)
      BY <3>1, IsASeq
    <3>3. QED
      BY <2>1, <3>2
  <2>4. sent # <<>>
    <3>1. Len(<<>>) = 0 /\ Len(sent) # 0
      BY <2>3
    <3>2. QED
      BY <3>1
  <2> DEFINE s == SentPieces(Id, sent)
             flat == SentFlat(Id, sent)
  <2>5. /\ s \in Seq(Seq(Nat)) /\ Len(s) = 3 /\ flat \in Seq(Nat)
        /\ \A k \in 1..3 : s[k] = Encoded(Id, sent[k])
    BY <2>3, <2>4, IdIs, PiecesSent
  <2>6. flat = FlattenSeq(s)
    BY DEF SentFlat
  <2> HIDE DEF s, flat
  <2>7. \A k \in 1..3 : Len(s[k]) <= 27
    BY <2>2, <2>5, ShortPiece
  <2>8. Len(flat) \in Nat /\ Len(flat) <= 81
    BY <2>5, <2>6, <2>7, ThreePieces
  <2>9. /\ Wire(Id, sent) = SentHead(Id, sent) \o flat
        /\ SentHead(Id, sent) \in Seq(Nat) /\ Len(SentHead(Id, sent)) = 20
    BY <2>3, <2>4, IdIs, WireIs DEF flat
  <2>10. Len(Wire(Id, sent)) = 20 + Len(flat)
    <3> DEFINE h == SentHead(Id, sent)
    <3>1. h \in Seq(Nat) /\ Len(h) = 20 /\ Wire(Id, sent) = h \o flat
      BY <2>9
    <3> HIDE DEF h
    <3>2. Len(h \o flat) = Len(h) + Len(flat)
      BY <2>5, <3>1, PlacedBoth
    <3>3. QED
      BY <3>1, <3>2
  <2>11. Fits(Wire(Id, sent))
    <3>1. 20 + Len(flat) < 65536
      BY <2>8, ShortLengths
    <3>2. QED
      BY <2>10, <3>1 DEF Fits, Word16
  <2>12. QED
    BY <2>3, <2>4, <2>11, IdIs DEF FromServer
<1>2. QED
  BY <1>1, ResponseArrives, CutNotMisread DEF ResponsesArrive

\* Requests of every kind arrive as they were built: the property of the run, of its
\* names and identity (sendBindingReq, newPacketFromBytes).
THEOREM RequestsKept == Spec => []RequestCarried
<1>1. RequestCarried
  BY RequestsRight DEF RequestCarried
<1>2. QED
  BY <1>1, PTL

\* Responses are read as they were sent, or not at all: the property of the run, of its
\* responses (newPacketFromBytes, newResponse).
THEOREM ResponsesKept == Spec => []ResponsesRead
<1>1. ResponsesRead
  BY ResponsesRight DEF ResponsesRead
<1>2. QED
  BY <1>1, PTL
-----------------------------------------------------------------------------
(* Part two, StunDiscover.                                                 *)

USE StunAssumption
-----------------------------------------------------------------------------
(* The world: what the NAT maps, what a server answers from, and what the  *)
(* NAT lets in.                                                            *)

\* Two addresses differ when their parts do.
LEMMA Addresses == /\ Main = [ip |-> 1, port |-> 1] /\ Main.ip = 1 /\ Main.port = 1
                   /\ Changed = [ip |-> 2, port |-> 2] /\ Changed.ip = 2 /\ Changed.port = 2
                   /\ Main # Changed
BY DEF Main, Changed, Addr

LEMMA Mapping ==
  ASSUME kind \in NatKinds
  PROVE  /\ Mapped(Main) \in 1..3 /\ Mapped(Changed) \in 1..3
         /\ Mapped(Main) = Local <=> kind \in {"open", "firewall"}
         /\ Mapped(Changed) = Mapped(Main) <=> kind # "symmetric"
<1>1. CASE kind \in {"open", "firewall"}
  BY <1>1 DEF Mapped, Local
<1>2. CASE kind = "symmetric"
  <2>1. Mapped(Main) = 1 /\ Mapped(Changed) = 2
    BY <1>2, Addresses DEF Mapped
  <2>2. QED
    BY <1>2, <2>1 DEF Local
<1>3. CASE kind \in NatKinds \ {"open", "firewall", "symmetric"}
  BY <1>3 DEF Mapped, Local, NatKinds
<1>4. QED
  BY <1>1, <1>2, <1>3

LEMMA Sources ==
  /\ Source("I") = Main /\ Source("keep") = Main /\ Source("I2") = Changed
  /\ Source("II") = IF server = "fixed" THEN Main ELSE Changed
  /\ Source("III") = IF server = "fixed" THEN Changed ELSE [ip |-> 2, port |-> 1]
BY DEF Source, Dest, Main, Changed, Addr, Other, ChangeIP, ChangePort

LEMMA World ==
  ASSUME UNCHANGED world
  PROVE  /\ kind' = kind /\ server' = server
         /\ Mapped(Main)' = Mapped(Main) /\ Mapped(Changed)' = Mapped(Changed)
         /\ \A t \in Tests : Source(t)' = Source(t)
BY DEF world, Mapped, Main, Changed, Source, Dest, Addr, Other, ChangeIP, ChangePort

LEMMA Destinations == \A t \in Tests : Dest(t) \in {Main, Changed}
BY DEF Dest, Tests

\* Before anything went to the changed address, filters let nothing in from there.
LEMMA Filtered ==
  ASSUME kind \in NatKinds \ {"open", "full"}, asked \subseteq {"I", "II"}
  PROVE  ~Passes("II", Changed, asked)
BY Addresses DEF Passes, Dest

\* A strict filter lets in nothing from where no request was sent.
LEMMA Strict ==
  ASSUME kind \in NatKinds \ {"open", "full", "restricted"}, asked \subseteq Tests
  PROVE  ~Passes("III", [ip |-> 2, port |-> 1], asked)
<1>1. \A u \in asked : Dest(u) # [ip |-> 2, port |-> 1]
  <2>1. [ip |-> 2, port |-> 1].port = 1 /\ [ip |-> 2, port |-> 1].ip = 2
    OBVIOUS
  <2>2. QED
    BY <2>1, Addresses, Destinations
<1>2. QED
  BY <1>1 DEF Passes

\* Every NAT lets in what comes from where the request was sent to.
LEMMA Direct ==
  ASSUME kind \in NatKinds, "I" \in asked
  PROVE  Passes("I", Main, asked)
BY Addresses DEF Passes, Dest

\* No filter at all lets everything in; the filter of addresses ignores the port.
LEMMA Open == ASSUME kind \in {"open", "full"}, NEW t, NEW from PROVE Passes(t, from, asked)
BY DEF Passes

LEMMA Lenient ==
  ASSUME kind = "restricted", "III" \in asked
  PROVE  Passes("III", [ip |-> 2, port |-> 1], asked)
<1>1. Dest("III") = Changed
  BY DEF Dest
<1>2. [ip |-> 2, port |-> 1].ip = 2
  OBVIOUS
<1>3. QED
  BY <1>1, <1>2, Addresses DEF Passes
-----------------------------------------------------------------------------
(* The invariant.                                                          *)
Types == /\ kind \in NatKinds /\ server \in ServerKinds
         /\ test \in Tests \union {"idle"}
         /\ tries \in Nat /\ asked \subseteq Tests
         /\ missed \in BOOLEAN /\ outcome \in Outcomes

\* What is on its way was sent by the server for the test it names.
Genuine == \A r \in replies : /\ r.id \in Tests /\ r.from = Source(r.id)
                              /\ kind # "blocked"
                              /\ ~r.ok => server = "failing"

\* The first two tests run before anything is sent to the changed address.
Sending == /\ test \in {"I", "II"} => asked \subseteq {"I", "II"}
           /\ tries > 0 => test \in asked

\* What the tests before the one in progress have shown.
Known ==
  /\ test \in {"II", "I2", "III"} => kind # "blocked" /\ host = Mapped(Main)
  /\ test \in {"I2", "III"} => /\ host # Local
                               /\ server = "complete" /\ ~missed => kind # "full"
  /\ test = "III" => kind # "symmetric"

Inv == Types /\ Genuine /\ Sending /\ Known /\ Sound /\ Exact /\ OwnAnswers

LEMMA Arrived ==
  ASSUME Inv, NEW r \in replies, Arrives(r)
  PROVE  /\ r.id = test /\ r.from = Source(test) /\ kind # "blocked"
         /\ ~r.ok => server = "failing"
         /\ Passes(test, Source(test), asked)
         /\ test \in Tests
BY DEF Arrives, Matches, Inv, Genuine

LEMMA InitInv == Init => Inv
<1> SUFFICES ASSUME Init PROVE Inv
  OBVIOUS
<1>1. Types /\ Genuine
  BY DEF Init, Types, Genuine, Tests, Outcomes
<1>2. Sending /\ Known
  BY DEF Init, Sending, Known
<1>3. Sound /\ Exact /\ OwnAnswers
  BY DEF Init, Sound, Possible, Exact, OwnAnswers, NatKinds
<1>4. QED
  BY <1>1, <1>2, <1>3 DEF Inv

\* A step that ends no test and returns nothing: only requests, responses and time.
LEMMA Waiting ==
  ASSUME Inv, UNCHANGED <<world, test, result, missed>>, Genuine', Sending',
         tries' \in Nat, asked' \subseteq Tests
  PROVE  Inv'
<1>1. Types'
  BY DEF Inv, Types, world, result
<1>2. Known'
  BY World DEF Inv, Known, result
<1>3. Sound' /\ Exact' /\ OwnAnswers'
  BY World DEF Inv, Sound, Possible, Exact, OwnAnswers, result
<1>4. QED
  BY <1>1, <1>2, <1>3 DEF Inv

\* The return of a test, to the next one t or with an outcome o.
LEMMA Proceeding ==
  ASSUME Inv, UNCHANGED <<world, asked, replies, keepalives>>,
         Start(test'), test' \in Tests \union {"idle"}, outcome' \in Outcomes,
         missed' \in BOOLEAN, test' \in {"I", "II"} => test = "I",
         Known', Sound', Exact', OwnAnswers'
  PROVE  Inv'
<1>1. Types'
  BY DEF Inv, Types, world, Start
<1>2. Genuine'
  BY World DEF Inv, Genuine
<1>3. Sending'
  BY DEF Inv, Sending, Start
<1>4. QED
  BY <1>1, <1>2, <1>3 DEF Inv
-----------------------------------------------------------------------------
(* One lemma per handler.                                                  *)
LEMMA AfterResponseI ==
  ASSUME Inv, NEW r \in replies, ResponseI(r)
  PROVE  Inv'
<1> USE DEF ResponseI, Start, Idle, Finish
<1>1. /\ r.from = Main /\ kind # "blocked"
      /\ ~r.ok => server = "failing"
      /\ test = "I" /\ r.id = "I"
  BY Arrived, Sources
<1>2. host' = (IF r.ok THEN Mapped(Main) ELSE NoHost) /\ kept' = kept /\ missed' = missed
  BY <1>1 DEF Dest
<1>3. UNCHANGED <<world, asked, replies, keepalives>> /\ Start(test') /\ missed' \in BOOLEAN
  BY DEF Inv, Types
<1>w. /\ kind' = kind /\ server' = server
      /\ Mapped(Main)' = Mapped(Main)
  BY <1>3, World
<1>4. CASE test' = "II"
  <2>1. outcome' = outcome /\ host' = Mapped(Main)
    BY <1>1, <1>2, <1>4
  <2>2. Known'
    BY <1>w, <1>1, <1>4, <2>1 DEF Known
  <2>2a. OwnAnswers'
    BY <1>w, <1>2, <2>1 DEF Inv, OwnAnswers
  <2>3. Sound' /\ Exact'
    BY World, <1>2, <2>1 DEF Inv, Sound, Possible, Exact
  <2>4. QED
    BY <1>1, <1>3, <1>4, <2>1, <2>2, <2>2a, <2>3, Proceeding DEF Inv, Types, Tests
<1>5. CASE test' # "II"
  <2>1. test' = "idle" /\ outcome' = "servererror" /\ server # "complete"
    BY <1>1, <1>5
  <2>2. Known'
    BY <2>1 DEF Known
  <2>2a. OwnAnswers'
    BY <1>w, <1>2, <2>1 DEF Inv, OwnAnswers
  <2>3. Sound' /\ Exact'
    BY World, <2>1 DEF Inv, Types, Sound, Possible, Exact, NatKinds
  <2>4. QED
    BY <1>3, <2>1, <2>2, <2>2a, <2>3, Proceeding DEF Outcomes
<1>6. QED
  BY <1>4, <1>5

\* The end of Discover with an outcome that fits what is known.
LEMMA Concluding ==
  ASSUME Inv, NEW o \in Outcomes, Finish(o),
         UNCHANGED <<world, asked, replies, host, kept, keepalives>>, missed' \in BOOLEAN,
         kind \in Possible(o),
         server = "complete" /\ ~missed' /\ o \in NatKinds => o = kind,
         o = "servererror" => server # "complete"
  PROVE  Inv'
<1> USE DEF Finish, Idle, Start
<1>1. Known' /\ OwnAnswers'
  BY World DEF Inv, Known, OwnAnswers
<1>2. Sound' /\ Exact'
  BY World DEF Sound, Possible, Exact
<1>3. QED
  BY <1>1, <1>2, Proceeding

LEMMA AfterResponseII ==
  ASSUME Inv, NEW r \in replies, ResponseII(r)
  PROVE  Inv'
<1>1. /\ test = "II" /\ r.from = Source("II") /\ kind # "blocked"
      /\ Passes("II", r.from, asked) /\ asked \subseteq {"I", "II"}
      /\ host = Mapped(Main) /\ kind \in NatKinds
  BY Arrived DEF ResponseII, Inv, Sending, Known, Types
<1>2. /\ UNCHANGED <<world, asked, replies, host, kept, keepalives, missed>>
      /\ missed' \in BOOLEAN
  BY DEF ResponseII, Inv, Types
<1>3. CASE ~ChangedBoth(r.from) /\ Finish("servererror")
  <2>1. server = "fixed"
    BY <1>1, <1>3, Sources, Addresses DEF ChangedBoth
  <2>2. QED
    BY <1>1, <1>2, <1>3, <2>1, Concluding DEF Outcomes, Possible, NatKinds
<1>4. CASE ChangedBoth(r.from)
  <2>1. r.from = Changed /\ kind \in {"open", "full"}
    BY <1>1, <1>4, Sources, Addresses, Filtered DEF ChangedBoth
  <2>2. Identical <=> kind = "open"
    BY <1>1, <2>1, Mapping DEF Identical
  <2>3. Finish(kind)
    BY <1>4, <2>1, <2>2 DEF ResponseII
  <2>4. QED
    BY <1>2, <2>1, <2>3, Concluding DEF Outcomes, Possible, NatKinds
<1>5. QED
  BY <1>3, <1>4 DEF ResponseII

LEMMA AfterResponseI2 ==
  ASSUME Inv, NEW r \in replies, ResponseI2(r)
  PROVE  Inv'
<1>1. /\ test = "I2" /\ r.id = "I2" /\ r.from = Changed /\ kind # "blocked"
      /\ host = Mapped(Main) /\ host # Local /\ kind \in NatKinds
  BY Arrived, Sources DEF ResponseI2, Inv, Known, Types
<1>2. /\ UNCHANGED <<world, asked, replies, host, kept, keepalives, missed>>
      /\ missed' \in BOOLEAN
  BY DEF ResponseI2, Inv, Types
<1>3. SameMapping(r) <=> kind # "symmetric"
  BY <1>1, Mapping DEF SameMapping, Dest
<1>4. CASE Finish("panic")
  BY <1>1, <1>2, <1>4, Concluding DEF Outcomes, Possible, NatKinds
<1>5. CASE ~SameMapping(r) /\ Finish("symmetric")
  BY <1>1, <1>2, <1>3, <1>5, Concluding DEF Outcomes, Possible, NatKinds
<1>6. CASE SameMapping(r) /\ Start("III") /\ outcome' = outcome
  <2>1. Known'
    BY World, <1>1, <1>2, <1>3, <1>6 DEF Inv, Known, Start
  <2>2. Sound' /\ Exact' /\ OwnAnswers'
    BY World, <1>2, <1>6 DEF Inv, Sound, Possible, Exact, OwnAnswers
  <2>3. test' = "III" /\ Start(test')
    BY <1>6 DEF Start
  <2>4. QED
    BY <1>2, <1>6, <2>1, <2>2, <2>3, Proceeding DEF Inv, Types, Tests
<1>7. QED
  BY <1>1, <1>4, <1>5, <1>6 DEF ResponseI2

LEMMA AfterResponseIII ==
  ASSUME Inv, NEW r \in replies, ResponseIII(r)
  PROVE  Inv'
<1> DEFINE good == r.from.ip = Changed.ip /\ r.from.port # Changed.port
<1>1. /\ test = "III" /\ r.from = Source("III") /\ kind # "blocked"
      /\ Passes("III", r.from, asked) /\ asked \subseteq Tests
      /\ host = Mapped(Main) /\ host # Local /\ kind \in NatKinds
      /\ server = "complete" /\ ~missed => kind # "full"
  BY Arrived DEF ResponseIII, Inv, Known, Types
<1>2. /\ UNCHANGED <<world, asked, replies, host, kept, keepalives, missed>>
      /\ missed' \in BOOLEAN
  BY DEF ResponseIII, Inv, Types
<1>3. Finish(IF good THEN "restricted" ELSE "servererror")
  BY DEF ResponseIII
<1>4. /\ [ip |-> 2, port |-> 1].ip = 2 /\ [ip |-> 2, port |-> 1].port = 1
  OBVIOUS
<1>5. CASE good
  <2>1. r.from = [ip |-> 2, port |-> 1]
    BY <1>1, <1>5, Sources
  <2>2. kind \in {"full", "restricted"}
    BY <1>1, <2>1, Strict, Mapping
  <2>3. QED
    BY <1>1, <1>2, <1>3, <1>5, <2>2, Concluding DEF Outcomes, Possible, NatKinds
<1>6. CASE ~good
  <2>1. server = "fixed"
    BY <1>1, <1>4, <1>6, Sources, Addresses
  <2>2. QED
    BY <1>1, <1>2, <1>3, <1>6, <2>1, Concluding DEF Outcomes, Possible, NatKinds
<1>7. QED
  BY <1>5, <1>6

LEMMA AfterResponseKeep ==
  ASSUME Inv, NEW r \in replies, ResponseKeep(r)
  PROVE  Inv'
<1>1. kept' = Mapped(Main) \/ kept' = NoHost
  BY Arrived DEF ResponseKeep, Dest
<1>2. /\ UNCHANGED <<world, asked, replies, host, keepalives, outcome, missed>>
      /\ test' = "idle" /\ Start(test')
  BY DEF ResponseKeep, Idle, Start
<1>3. Known' /\ Sound' /\ Exact' /\ OwnAnswers'
  BY World, <1>1, <1>2 DEF Inv, Known, Sound, Possible, Exact, OwnAnswers
<1>4. QED
  BY <1>2, <1>3, Proceeding DEF Inv, Types

\* A complete server answers unless everything is blocked.
LEMMA Complete == server = "complete" /\ kind # "blocked" => \A t \in Tests : Responds(t)
BY DEF Responds

LEMMA AfterGiveUp ==
  ASSUME Inv, GiveUp
  PROVE  Inv'
<1>1. /\ test \in Tests /\ test \in asked /\ asked \subseteq Tests
      /\ kind \in NatKinds /\ missed \in BOOLEAN
  BY DEF Inv, Types, Sending, GiveUp
<1>2. /\ missed' \in BOOLEAN
      /\ missed => missed'
      /\ Responds(test) /\ Passes(test, Source(test), asked) => missed'
  BY <1>1 DEF GiveUp
<1>3. /\ UNCHANGED <<world, asked, replies, host, keepalives>>
      /\ kept' = IF test = "keep" THEN NoHost ELSE kept
  BY DEF GiveUp
<1>4. CASE test = "I" /\ Finish("blocked")
  <2>1. server = "complete" /\ ~missed' => kind = "blocked"
    BY <1>1, <1>2, <1>4, Complete, Direct, Sources
  <2>2. QED
    BY <1>1, <1>2, <1>3, <1>4, <2>1, Concluding DEF Outcomes, Possible, NatKinds
<1>5. CASE test = "II" /\ AfterII # "I2" /\ Finish(AfterII)
  <2>1. AfterII = "firewall" /\ host = Local
    BY <1>5 DEF AfterII, Identical
  <2>2. kind \in {"open", "firewall"}
    BY <1>1, <1>5, <2>1, Mapping DEF Inv, Known
  <2>3. server = "complete" /\ ~missed' => kind = "firewall"
    BY <1>1, <1>2, <1>5, <2>2, Complete, Open
  <2>4. QED
    BY <1>1, <1>2, <1>3, <1>5, <2>1, <2>2, <2>3, Concluding DEF Outcomes, Possible, NatKinds
<1>6. CASE test = "II" /\ AfterII = "I2" /\ Start("I2") /\ outcome' = outcome
  <2>1. host # Local
    BY <1>6 DEF AfterII, Identical
  <2>2. server = "complete" /\ ~missed' => kind # "full"
    BY <1>1, <1>2, <1>6, Complete, Open
  <2>3. test' = "I2" /\ Start(test')
    BY <1>6 DEF Start
  <2>4. Known'
    BY World, <1>3, <1>6, <2>1, <2>2, <2>3 DEF Inv, Known
  <2>5. Sound' /\ Exact' /\ OwnAnswers'
    BY World, <1>2, <1>3, <1>6 DEF Inv, Sound, Possible, Exact, OwnAnswers
  <2>6. QED
    BY <1>2, <1>3, <1>6, <2>3, <2>4, <2>5, Proceeding DEF Inv, Types, Tests
<1>7. CASE test = "I2" /\ Finish("unknown")
  <2>1. kind \notin {"blocked", "open", "firewall"}
    BY <1>1, <1>7, Mapping DEF Inv, Known
  <2>2. QED
    BY <1>1, <1>2, <1>3, <1>7, <2>1, Concluding DEF Outcomes, Possible, NatKinds
<1>8. CASE test = "III" /\ Finish("portrestricted")
  <2>1. kind \in {"full", "restricted", "portrestricted"}
    BY <1>1, <1>8, Mapping DEF Inv, Known, NatKinds
  <2>2. ASSUME server = "complete", ~missed', kind = "restricted" PROVE FALSE
    <3>1. Source("III") = [ip |-> 2, port |-> 1]
      BY <2>2, Sources
    <3>2. Passes("III", Source("III"), asked)
      BY <1>1, <1>8, <2>2, <3>1, Lenient
    <3>3. QED
      BY <1>1, <1>2, <1>8, <2>2, <3>2, Complete
  <2>3. server = "complete" /\ ~missed' => kind # "full"
    BY <1>2, <1>8 DEF Inv, Known
  <2>4. QED
    BY <1>1, <1>2, <1>3, <1>8, <2>1, <2>2, <2>3, Concluding DEF Outcomes, Possible, NatKinds
<1>9. CASE test = "keep" /\ Idle /\ outcome' = outcome
  <2>1. test' = "idle" /\ Start(test') /\ kept' = NoHost
    BY <1>3, <1>9 DEF Idle, Start
  <2>2. Known'
    BY <2>1 DEF Known
  <2>3. Sound' /\ Exact' /\ OwnAnswers'
    BY World, <1>2, <1>3, <1>9, <2>1 DEF Inv, Sound, Possible, Exact, OwnAnswers
  <2>4. QED
    BY <1>2, <1>3, <1>9, <2>1, <2>2, <2>3, Proceeding DEF Inv, Types
<1>10. QED
  BY <1>4, <1>5, <1>6, <1>7, <1>8, <1>9 DEF GiveUp

LEMMA AfterIOFails ==
  ASSUME Inv, IOFails
  PROVE  Inv'
<1>1. /\ test' = "idle" /\ Start(test')
      /\ UNCHANGED <<world, asked, replies, host, keepalives, missed>>
      /\ kept' \in {NoHost, kept} /\ outcome' \in {outcome, "ioerror"}
  BY DEF IOFails, Idle, Start
<1>2. Known'
  BY <1>1 DEF Known
<1>3. kind \in NatKinds /\ outcome' \in Outcomes /\ missed' \in BOOLEAN
  BY <1>1 DEF Inv, Types, Outcomes
<1>4. Sound' /\ Exact' /\ OwnAnswers'
  BY World, <1>1, <1>3 DEF Inv, Sound, Possible, Exact, OwnAnswers, NatKinds
<1>5. QED
  BY <1>1, <1>2, <1>3, <1>4, Proceeding

LEMMA AfterCallKeepalive ==
  ASSUME Inv, CallKeepalive
  PROVE  Inv'
<1>1. /\ test' = "keep" /\ tries' = 0 /\ asked' \subseteq asked /\ replies' \subseteq replies
      /\ UNCHANGED <<world, outcome, host, kept, missed>>
  BY DEF CallKeepalive, Start
<1>2. Types' /\ Genuine'
  BY World, <1>1 DEF Inv, Types, Genuine, Tests
<1>3. Sending' /\ Known'
  BY <1>1 DEF Sending, Known
<1>4. Sound' /\ Exact' /\ OwnAnswers'
  BY World, <1>1 DEF Inv, Sound, Possible, Exact, OwnAnswers
<1>5. QED
  BY <1>2, <1>3, <1>4 DEF Inv

LEMMA NextInv == Inv /\ [Next]_vars => Inv'
<1> SUFFICES ASSUME Inv, [Next]_vars PROVE Inv'
  OBVIOUS
<1>1. CASE Send
  <2>1. /\ UNCHANGED <<world, test, replies, result, missed>>
        /\ test \in Tests /\ tries' = tries + 1 /\ asked' = asked \union {test}
    BY <1>1 DEF Send, Counted, Inv, Types
  <2>2. Genuine'
    BY World, <2>1 DEF Inv, Genuine
  <2>3. Sending' /\ tries' \in Nat /\ asked' \subseteq Tests
    BY <2>1 DEF Inv, Types, Sending
  <2>4. QED
    BY <2>1, <2>2, <2>3, Waiting
<1>2. CASE Timeout
  <2>1. UNCHANGED <<world, test, tries, asked, replies, result, missed>>
    BY <1>2 DEF Timeout
  <2>2. Genuine' /\ Sending'
    BY World, <2>1 DEF Inv, Genuine, Sending
  <2>3. QED
    BY <2>1, <2>2, Waiting DEF Inv, Types
<1>3. ASSUME NEW t \in Tests, Answer(t) PROVE Inv'
  <2>1. PICK ok \in {TRUE} \union (IF server = "failing" THEN {FALSE} ELSE {}) :
          replies' = replies \union {[id |-> t, from |-> Source(t), ok |-> ok]}
    BY <1>3 DEF Answer
  <2>2. UNCHANGED <<world, client, asked, result, missed>> /\ kind # "blocked"
    BY <1>3 DEF Answer, Responds
  <2>3. Genuine'
    <3>1. \A r \in replies' \ replies :
            r.id = t /\ r.from = Source(t) /\ (~r.ok => server = "failing")
      <4>1. \A r \in replies' \ replies : r.id = t /\ r.from = Source(t) /\ r.ok = ok
        BY <2>1
      <4>2. server # "failing" => ok = TRUE
        BY <2>1
      <4>3. QED
        BY <4>1, <4>2
    <3>2. /\ kind' = kind /\ server' = server
          /\ \A u \in Tests : Source(u)' = Source(u)
      BY <2>2, World
    <3>3. QED
      BY <1>3, <2>2, <3>1, <3>2 DEF Inv, Genuine
  <2>4. Sending'
    BY <2>2 DEF Inv, Sending, client
  <2>5. QED
    BY <2>2, <2>3, <2>4, Waiting DEF Inv, Types, client
<1>4. CASE Response
  BY <1>4, AfterResponseI, AfterResponseII, AfterResponseI2, AfterResponseIII,
     AfterResponseKeep DEF Response
<1>5. CASE UNCHANGED vars
  <2>1. UNCHANGED <<world, test, tries, asked, replies, result, missed>>
    BY <1>5 DEF vars, client
  <2>2. Genuine' /\ Sending'
    BY World, <2>1 DEF Inv, Genuine, Sending
  <2>3. QED
    BY <2>1, <2>2, Waiting DEF Inv, Types
<1>6. QED
  BY <1>1, <1>2, <1>3, <1>4, <1>5, AfterGiveUp, AfterIOFails, AfterCallKeepalive
     DEF Next, Client
-----------------------------------------------------------------------------
LEMMA Always == Spec => []Inv
BY InitInv, NextInv, PTL DEF Spec

\* Lost, late and duplicated responses, errors and servers that cannot do the tests
\* make Discover believe in more filtering, never in less or in another mapping.
THEOREM NeverTooOpen == Spec => []Sound
<1>1. Inv => Sound
  BY DEF Inv
<1>2. QED
  BY <1>1, Always, PTL

\* With a complete server, and no test given up that could have been answered, the
\* answer of Discover is the kind of the NAT.
THEOREM RightKind == Spec => []Exact
<1>1. Inv => Exact
  BY DEF Inv
<1>2. QED
  BY <1>1, Always, PTL

\* No response to another test is taken for the one that is waited for (send).
THEOREM NotMisled == Spec => []OwnAnswers
<1>1. Inv => OwnAnswers
  BY DEF Inv
<1>2. QED
  BY <1>1, Always, PTL
-----------------------------------------------------------------------------
\* The parts of the type invariant: the responses on their way, and the rest.
Responding == \A r \in replies : r.id \in Tests /\ r.ok \in BOOLEAN
Typed == /\ kind \in NatKinds /\ server \in ServerKinds
         /\ test \in Tests \union {"idle"}
         /\ reading \in BOOLEAN /\ tries \in 0..Retransmits
         /\ asked \subseteq Tests
         /\ outcome \in Outcomes
         /\ host \in 0..3 /\ kept \in 0..3
         /\ keepalives \in 0..MaxKeepalives /\ missed \in BOOLEAN
         /\ (test \notin {"idle", "keep"}) <=> (outcome = "none")

\* Together they are the type invariant.
LEMMA TwoParts == Typed /\ Responding => TypeOK
BY DEF TypeOK, Typed, Responding

\* No response is new.
LEMMA SameResponses ==
  ASSUME Responding, replies' \subseteq replies
  PROVE  Responding'
BY DEF Responding

\* Both hold at the start ...
LEMMA InitType == Init => Typed /\ Responding
<1> SUFFICES ASSUME Init PROVE Typed /\ Responding
  OBVIOUS
<1>1. Responding
  BY DEF Init, Responding
<1>2. Typed
  <2>1. 0 \in 0..Retransmits /\ 0 \in 0..MaxKeepalives /\ 0 \in 0..3
    OBVIOUS
  <2>2. tries = 0 /\ keepalives = 0 /\ host = 0 /\ kept = 0
    BY DEF Init, NoHost
  <2>3. /\ tries \in 0..Retransmits /\ keepalives \in 0..MaxKeepalives
        /\ host \in 0..3 /\ kept \in 0..3
    BY <2>1, <2>2
  <2>4. test \in Tests \union {"idle"} /\ outcome \in Outcomes
    BY DEF Init, Tests, Outcomes
  <2>5. kind \in NatKinds /\ server \in ServerKinds /\ asked \subseteq Tests
    BY DEF Init
  <2>6. /\ reading \in BOOLEAN /\ missed \in BOOLEAN
        /\ test \notin {"idle", "keep"} /\ outcome = "none"
    BY DEF Init
  <2>7. QED
    BY <2>3, <2>4, <2>5, <2>6 DEF Typed
<1>3. QED
  BY <1>1, <1>2

\* The client goes to another test, or stops with a result.
LEMMA Restarting ==
  ASSUME Typed, Responding, NEW t \in Tests \union {"idle"}, Start(t),
         UNCHANGED <<world, asked, replies, keepalives>>,
         host' \in 0..3, kept' \in 0..3, missed' \in BOOLEAN, outcome' \in Outcomes,
         (t \notin {"idle", "keep"}) <=> (outcome' = "none")
  PROVE  Typed' /\ Responding'
<1>1. Responding'
  BY SameResponses
<1>2. Typed'
  <2>1. 0 \in 0..Retransmits
    OBVIOUS
  <2>2. test' = t /\ reading' = FALSE /\ tries' = 0
    BY DEF Start
  <2>3. UNCHANGED <<kind, server, asked, keepalives>>
    BY DEF world
  <2>4. /\ kind \in NatKinds /\ server \in ServerKinds /\ asked \subseteq Tests
        /\ keepalives \in 0..MaxKeepalives
    BY DEF Typed
  <2>5. QED
    BY <2>1, <2>2, <2>3, <2>4 DEF Typed
<1>3. QED
  BY <1>1, <1>2

\* ... and after every step.
LEMMA NextType == Typed /\ Responding /\ [Next]_vars => Typed' /\ Responding'
<1> SUFFICES ASSUME Typed, Responding, [Next]_vars PROVE Typed' /\ Responding'
  OBVIOUS
<1>0. /\ kind \in NatKinds /\ test \in Tests \union {"idle"} /\ outcome \in Outcomes
      /\ host \in 0..3 /\ kept \in 0..3 /\ missed \in BOOLEAN
      /\ (test \notin {"idle", "keep"}) <=> (outcome = "none")
  BY DEF Typed
<1>a. {"I", "II", "I2", "III", "keep"} = Tests
  BY DEF Tests
<1>m. \A t \in Tests : Mapped(Dest(t)) \in 0..3
  <2>1. Mapped(Main) \in 1..3 /\ Mapped(Changed) \in 1..3
    BY <1>0, Mapping
  <2>2. \A t \in Tests : Dest(t) \in {Main, Changed}
    BY Destinations
  <2>3. QED
    BY <2>1, <2>2
<1>f. \A o : Finish(o) => Start("idle") /\ outcome' = o
  BY DEF Finish, Idle
<1>o. /\ "servererror" \in Outcomes /\ "open" \in Outcomes /\ "full" \in Outcomes /\ "panic" \in Outcomes
      /\ "symmetric" \in Outcomes /\ "restricted" \in Outcomes /\ "blocked" \in Outcomes
      /\ "firewall" \in Outcomes /\ "unknown" \in Outcomes /\ "portrestricted" \in Outcomes
      /\ "ioerror" \in Outcomes
  BY DEF Outcomes, NatKinds
<1>1. CASE Send
  BY <1>1, SameResponses DEF Send, Typed, MoreTries, Counted, world, result
<1>2. CASE Timeout
  BY <1>2, SameResponses DEF Timeout, Typed, world, result
<1>3. ASSUME NEW t \in Tests, Answer(t) PROVE Typed' /\ Responding'
  <2>1. PICK ok \in {TRUE} \union (IF server = "failing" THEN {FALSE} ELSE {}) :
          replies' = replies \union {[id |-> t, from |-> Source(t), ok |-> ok]}
    BY <1>3 DEF Answer
  <2>2. Responding'
    <3>1. ok \in BOOLEAN
      OBVIOUS
    <3>2. \A r \in replies' : r \in replies \/ r = [id |-> t, from |-> Source(t), ok |-> ok]
      BY <2>1
    <3>3. QED
      BY <1>3, <3>1, <3>2 DEF Responding
  <2>3. UNCHANGED <<kind, server, test, reading, tries, asked, outcome, host, kept, keepalives, missed>>
    BY <1>3 DEF Answer, world, client, result
  <2>4. QED
    BY <2>2, <2>3 DEF Typed
<1>4. ASSUME NEW r \in replies, \/ ResponseI(r) \/ ResponseII(r) \/ ResponseI2(r)
                                \/ ResponseIII(r) \/ ResponseKeep(r)
      PROVE  Typed' /\ Responding'
  <2>1. r.id \in Tests
    BY DEF Responding
  <2>2. Mapped(Dest(r.id)) \in 0..3 /\ NoHost \in 0..3
    BY <1>m, <2>1 DEF NoHost
  <2>3. CASE ResponseI(r)
    <3>1. test = "I" /\ host' \in 0..3 /\ UNCHANGED <<world, asked, replies, kept, keepalives, missed>>
      BY <2>2, <2>3 DEF ResponseI
    <3>2. (Start("II") /\ outcome' = outcome) \/ Finish("servererror")
      BY <2>3 DEF ResponseI
    <3>3. QED
      BY <1>0, <1>a, <1>f, <1>o, <3>1, <3>2, Restarting
  <2>4. CASE ResponseII(r)
    <3>1. test = "II" /\ UNCHANGED <<world, asked, replies, host, kept, keepalives, missed>>
      BY <2>4 DEF ResponseII
    <3>2. \E o \in {"servererror", "open", "full"} : Finish(o)
      BY <2>4 DEF ResponseII
    <3>3. QED
      BY <1>0, <1>a, <1>f, <1>o, <3>1, <3>2, Restarting
  <2>5. CASE ResponseI2(r)
    <3>1. test = "I2" /\ UNCHANGED <<world, asked, replies, host, kept, keepalives, missed>>
      BY <2>5 DEF ResponseI2
    <3>2. (Start("III") /\ outcome' = outcome) \/ \E o \in {"servererror", "panic", "symmetric"} : Finish(o)
      BY <2>5 DEF ResponseI2
    <3>3. QED
      BY <1>0, <1>a, <1>f, <1>o, <3>1, <3>2, Restarting
  <2>6. CASE ResponseIII(r)
    <3>1. test = "III" /\ UNCHANGED <<world, asked, replies, host, kept, keepalives, missed>>
      BY <2>6 DEF ResponseIII
    <3>2. \E o \in {"servererror", "restricted"} : Finish(o)
      BY <2>6 DEF ResponseIII
    <3>3. QED
      BY <1>0, <1>a, <1>f, <1>o, <3>1, <3>2, Restarting
  <2>7. CASE ResponseKeep(r)
    <3>1. /\ test = "keep" /\ kept' \in 0..3 /\ Start("idle")
          /\ UNCHANGED <<world, asked, replies, outcome, host, keepalives, missed>>
      BY <2>2, <2>7 DEF ResponseKeep, Idle
    <3>2. QED
      BY <1>0, <1>a, <3>1, Restarting
  <2>8. QED
    BY <1>4, <2>3, <2>4, <2>5, <2>6, <2>7
<1>5. CASE GiveUp
  <2>1. UNCHANGED <<world, asked, replies, host, keepalives>> /\ test \in Tests
    BY <1>0, <1>5 DEF GiveUp
  <2>2. kept' \in 0..3 /\ missed' \in BOOLEAN
    BY <1>0, <1>5 DEF GiveUp, NoHost
  <2>3. \/ test = "II" /\ Start("I2") /\ outcome' = outcome
        \/ test # "keep" /\ \E o \in {"blocked", "firewall", "unknown", "portrestricted"} : Finish(o)
        \/ test = "keep" /\ Start("idle") /\ outcome' = outcome
    BY <1>5 DEF GiveUp, AfterII, Idle
  <2>4. QED
    BY <1>0, <1>a, <1>f, <1>o, <2>1, <2>2, <2>3, Restarting
<1>6. CASE IOFails
  <2>1. UNCHANGED <<world, asked, replies, host, keepalives, missed>> /\ test \in Tests /\ Start("idle")
    BY <1>0, <1>6 DEF IOFails, Idle
  <2>2. kept' \in 0..3 /\ outcome' = IF test = "keep" THEN outcome ELSE "ioerror"
    BY <1>0, <1>6 DEF IOFails, NoHost
  <2>3. QED
    BY <1>0, <1>o, <2>1, <2>2, Restarting
<1>7. CASE CallKeepalive
  <2>1. replies' \subseteq replies
    BY <1>7 DEF CallKeepalive
  <2>2. Responding'
    BY <2>1, SameResponses
  <2>3. Typed'
    <3>1. /\ test' = "keep" /\ reading' = FALSE /\ tries' = 0 /\ keepalives' = keepalives + 1
          /\ keepalives < MaxKeepalives /\ asked' \subseteq asked /\ outcome # "none"
          /\ UNCHANGED <<kind, server, outcome, host, kept, missed>>
      BY <1>7 DEF CallKeepalive, Start, world
    <3>2. 0 \in 0..Retransmits /\ keepalives + 1 \in 0..MaxKeepalives
      BY <3>1 DEF Typed
    <3>3. QED
      BY <1>a, <3>1, <3>2 DEF Typed
  <2>4. QED
    BY <2>2, <2>3
<1>8. CASE UNCHANGED vars
  BY <1>8, SameResponses DEF vars, world, client, result, Typed
<1>9. QED
  BY <1>1, <1>2, <1>3, <1>4, <1>5, <1>6, <1>7, <1>8 DEF Next, Client, Response

\* A test sends no more requests than it may (send), and Discover has returned exactly
\* when none of its tests is in progress, however many datagrams arrive.
THEOREM ClientTyped == Spec => []TypeOK
<1>1. Typed /\ Responding => TypeOK
  BY TwoParts
<1>2. QED
  BY InitType, NextType, <1>1, PTL DEF Spec
=============================================================================
