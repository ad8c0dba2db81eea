--------------------------- MODULE CanFlowProofs ---------------------------
(* Proofs about the CAN messages, for all processes, buffers, times and    *)
(* faults.                                                                 *)
EXTENDS CanFlow, SequenceTheorems, TLAPS

-----------------------------------------------------------------------------
(* Sequences of numbers                                                    *)

Increasing(s) == \A i, j \in DOMAIN s : i < j => s[i] < s[j]
Below(s, t) == \A i \in DOMAIN s, j \in DOMAIN t : s[i] < t[j]
UpTo(s, k) == \A i \in DOMAIN s : s[i] <= k

(* A sequence cut in two.                                                  *)
LEMMA Cut ==
  ASSUME NEW S, NEW s \in Seq(S), NEW k \in 0 .. Len(s)
  PROVE  /\ SubSeq(s, 1, k) \in Seq(S) /\ SubSeq(s, k + 1, Len(s)) \in Seq(S)
         /\ Len(SubSeq(s, 1, k)) = k /\ Len(SubSeq(s, k + 1, Len(s))) = Len(s) - k
         /\ \A i \in 1 .. k : SubSeq(s, 1, k)[i] = s[i]
         /\ \A i \in 1 .. Len(s) - k : SubSeq(s, k + 1, Len(s))[i] = s[k + i]
         /\ SubSeq(s, 1, k) \o SubSeq(s, k + 1, Len(s)) = s
<1>0. Len(s) \in Nat /\ \A i \in 1 .. Len(s) : s[i] \in S
  BY LenProperties
<1>1. /\ SubSeq(s, 1, k) \in Seq(S) /\ Len(SubSeq(s, 1, k)) = k
      /\ \A i \in 1 .. k : SubSeq(s, 1, k)[i] = s[i]
  <2>1. 1 \in Int /\ k \in Int /\ \A i \in 1 .. k : s[i] \in S
    BY <1>0
  <2>2. /\ SubSeq(s, 1, k) \in Seq(S)
        /\ Len(SubSeq(s, 1, k)) = IF 1 <= k THEN k - 1 + 1 ELSE 0
        /\ \A i \in 1 .. k - 1 + 1 : SubSeq(s, 1, k)[i] = s[1 + i - 1]
    BY <2>1, SubSeqProperties
  <2> QED
    BY <2>2, <1>0
<1>2. /\ SubSeq(s, k + 1, Len(s)) \in Seq(S)
      /\ Len(SubSeq(s, k + 1, Len(s))) = Len(s) - k
      /\ \A i \in 1 .. Len(s) - k : SubSeq(s, k + 1, Len(s))[i] = s[k + i]
  <2>1. k + 1 \in Int /\ Len(s) \in Int /\ \A i \in k + 1 .. Len(s) : s[i] \in S
    BY <1>0
  <2>2. /\ SubSeq(s, k + 1, Len(s)) \in Seq(S)
        /\ Len(SubSeq(s, k + 1, Len(s))) = IF k + 1 <= Len(s) THEN Len(s) - (k + 1) + 1 ELSE 0
        /\ \A i \in 1 .. Len(s) - (k + 1) + 1 : SubSeq(s, k + 1, Len(s))[i] = s[(k + 1) + i - 1]
    BY <2>1, SubSeqProperties
  <2> QED
    BY <2>2, <1>0
<1>3. SubSeq(s, 1, k) \o SubSeq(s, k + 1, Len(s)) = s
  <2>1. SubSeq(s, 1, k) \o SubSeq(s, k + 1, Len(s)) = SubSeq(s, 1, Len(s))
    <3>1. 1 \in 1 .. Len(s) + 1 /\ k \in 1 - 1 .. Len(s) /\ Len(s) \in k .. Len(s)
      BY <1>0
    <3> QED
      BY <3>1, ConcatAdjacentSubSeq
  <2> QED
    BY <2>1, SubSeqFull
<1> QED
  BY <1>1, <1>2, <1>3

(* ... its parts keep their order,                                         *)
LEMMA CutIncreases ==
  ASSUME NEW S \in SUBSET Nat, NEW s \in Seq(S), NEW k \in 0 .. Len(s), Increasing(s)
  PROVE  /\ Increasing(SubSeq(s, 1, k)) /\ Increasing(SubSeq(s, k + 1, Len(s)))
         /\ Below(SubSeq(s, 1, k), SubSeq(s, k + 1, Len(s)))
<1> DEFINE a == SubSeq(s, 1, k)
           b == SubSeq(s, k + 1, Len(s))
<1>1. Len(s) \in Nat /\ DOMAIN s = 1 .. Len(s) /\ \A i \in 1 .. Len(s) : s[i] \in Nat
  BY LenProperties
<1>2. DOMAIN a = 1 .. k /\ DOMAIN b = 1 .. Len(s) - k
  BY Cut, LenProperties
<1>3. (\A i \in 1 .. k : a[i] = s[i]) /\ (\A i \in 1 .. Len(s) - k : b[i] = s[k + i])
  BY Cut
<1> HIDE DEF a, b
<1>4. \A i, j \in 1 .. Len(s) : i < j => s[i] < s[j]
  BY <1>1 DEF Increasing
<1>5. \A i, j \in 1 .. k : i < j => a[i] < a[j]
  BY <1>1, <1>3, <1>4
<1>6. \A i, j \in 1 .. Len(s) - k : i < j => b[i] < b[j]
  <2>1. \A i, j \in 1 .. Len(s) - k :
          k + i \in 1 .. Len(s) /\ k + j \in 1 .. Len(s) /\ (i < j => k + i < k + j)
    BY <1>1
  <2> QED
    BY <1>3, <1>4, <2>1
<1>7. \A i \in 1 .. k, j \in 1 .. Len(s) - k : a[i] < b[j]
  <2>1. \A i \in 1 .. k, j \in 1 .. Len(s) - k :
          i \in 1 .. Len(s) /\ k + j \in 1 .. Len(s) /\ i < k + j
    BY <1>1
  <2> QED
    BY <1>3, <1>4, <2>1
<1>8. Increasing(a) /\ Increasing(b) /\ Below(a, b)
  BY <1>2, <1>5, <1>6, <1>7 DEF Increasing, Below
<1> QED
  BY <1>8 DEF a, b

(* ... and stay on the same side of others.                                *)
LEMMA CutBelow ==
  ASSUME NEW S, NEW s \in Seq(S), NEW k \in 0 .. Len(s), NEW t
  PROVE  /\ Below(t, s) => Below(t, SubSeq(s, 1, k)) /\ Below(t, SubSeq(s, k + 1, Len(s)))
         /\ Below(s, t) => Below(SubSeq(s, 1, k), t) /\ Below(SubSeq(s, k + 1, Len(s)), t)
<1> DEFINE a == SubSeq(s, 1, k)
           b == SubSeq(s, k + 1, Len(s))
<1>1. Len(s) \in Nat /\ DOMAIN s = 1 .. Len(s)
  BY LenProperties
<1>2. DOMAIN a = 1 .. k /\ DOMAIN b = 1 .. Len(s) - k
  BY Cut, LenProperties
<1>3. (\A i \in 1 .. k : a[i] = s[i]) /\ (\A i \in 1 .. Len(s) - k : b[i] = s[k + i])
  BY Cut
<1> HIDE DEF a, b
<1>4. (\A i \in 1 .. k : i \in 1 .. Len(s)) /\ (\A i \in 1 .. Len(s) - k : k + i \in 1 .. Len(s))
  BY <1>1
<1>5. /\ Below(t, s) => Below(t, a) /\ Below(t, b)
      /\ Below(s, t) => Below(a, t) /\ Below(b, t)
  BY <1>1, <1>2, <1>3, <1>4 DEF Below
<1> QED
  BY <1>5 DEF a, b

(* ... and do not go higher.                                               *)
LEMMA CutUpTo ==
  ASSUME NEW S, NEW s \in Seq(S), NEW k \in 0 .. Len(s), NEW top, UpTo(s, top)
  PROVE  UpTo(SubSeq(s, 1, k), top) /\ UpTo(SubSeq(s, k + 1, Len(s)), top)
<1> DEFINE a == SubSeq(s, 1, k)
           b == SubSeq(s, k + 1, Len(s))
<1>1. Len(s) \in Nat /\ DOMAIN s = 1 .. Len(s)
  BY LenProperties
<1>2. DOMAIN a = 1 .. k /\ DOMAIN b = 1 .. Len(s) - k
  BY Cut, LenProperties
<1>3. (\A i \in 1 .. k : a[i] = s[i]) /\ (\A i \in 1 .. Len(s) - k : b[i] = s[k + i])
  BY Cut
<1> HIDE DEF a, b
<1>4. (\A i \in 1 .. k : i \in 1 .. Len(s)) /\ (\A i \in 1 .. Len(s) - k : k + i \in 1 .. Len(s))
  BY <1>1
<1>5. UpTo(a, top) /\ UpTo(b, top)
  BY <1>1, <1>2, <1>3, <1>4 DEF UpTo
<1> QED
  BY <1>5 DEF a, b

(* The places of two sequences in their concatenation.                     *)
LEMMA Joined ==
  ASSUME NEW S, NEW s \in Seq(S), NEW t \in Seq(S)
  PROVE  /\ s \o t \in Seq(S)
         /\ DOMAIN s = 1 .. Len(s) /\ DOMAIN t = 1 .. Len(t)
         /\ DOMAIN (s \o t) = 1 .. Len(s) + Len(t)
         /\ Len(s) \in Nat /\ Len(t) \in Nat
         /\ \A i \in 1 .. Len(s) : (s \o t)[i] = s[i]
         /\ \A i \in 1 .. Len(t) : (s \o t)[Len(s) + i] = t[i]
<1>1. Len(s) \in Nat /\ Len(t) \in Nat /\ DOMAIN s = 1 .. Len(s) /\ DOMAIN t = 1 .. Len(t)
  BY LenProperties
<1>2. /\ s \o t \in Seq(S)
      /\ Len(s \o t) = Len(s) + Len(t)
      /\ \A i \in 1 .. Len(s) + Len(t) : (s \o t)[i] = IF i <= Len(s) THEN s[i] ELSE t[i - Len(s)]
  BY ConcatProperties
<1>3. DOMAIN (s \o t) = 1 .. Len(s \o t)
  BY <1>2, LenProperties
<1> DEFINE u == s \o t
<1> HIDE DEF u
<1>4. /\ \A i \in 1 .. Len(s) + Len(t) : u[i] = IF i <= Len(s) THEN s[i] ELSE t[i - Len(s)]
  BY <1>2 DEF u
<1>5. (\A i \in 1 .. Len(s) : u[i] = s[i]) /\ (\A i \in 1 .. Len(t) : u[Len(s) + i] = t[i])
  BY <1>1, <1>4
<1> QED
  BY <1>1, <1>2, <1>3, <1>5 DEF u

(* Two increasing sequences, one below the other, make an increasing one.  *)
LEMMA JoinedIncreases ==
  ASSUME NEW S \in SUBSET Nat, NEW s \in Seq(S), NEW t \in Seq(S),
         Increasing(s), Increasing(t), Below(s, t)
  PROVE  Increasing(s \o t)
<1> DEFINE u == s \o t
<1>1. /\ DOMAIN s = 1 .. Len(s) /\ DOMAIN t = 1 .. Len(t)
      /\ DOMAIN u = 1 .. Len(s) + Len(t) /\ Len(s) \in Nat /\ Len(t) \in Nat
      /\ \A i \in 1 .. Len(s) : u[i] = s[i]
      /\ \A i \in 1 .. Len(t) : u[Len(s) + i] = t[i]
  BY Joined
<1> HIDE DEF u
<1>2. ASSUME NEW i \in 1 .. Len(s) + Len(t), NEW j \in 1 .. Len(s) + Len(t), i < j
      PROVE  u[i] < u[j]
  <2>1. CASE j <= Len(s)
    BY <1>1, <1>2, <2>1 DEF Increasing
  <2>2. CASE i <= Len(s) /\ j > Len(s)
    <3>1. j - Len(s) \in 1 .. Len(t) /\ u[j] = u[Len(s) + (j - Len(s))]
      BY <1>1, <1>2, <2>2
    <3> QED
      <4>1. i \in 1 .. Len(s) /\ u[i] = s[i]
        BY <1>1, <1>2, <2>2
      <4>2. s[i] < t[j - Len(s)]
        BY <1>1, <3>1, <4>1 DEF Below
      <4>3. u[j] = t[j - Len(s)]
        BY <1>1, <3>1
      <4> QED
        BY <4>1, <4>2, <4>3
  <2>3. CASE i > Len(s) /\ j > Len(s)
    <3>1. /\ j - Len(s) \in 1 .. Len(t) /\ u[j] = u[Len(s) + (j - Len(s))]
          /\ i - Len(s) \in 1 .. Len(t) /\ u[i] = u[Len(s) + (i - Len(s))]
          /\ i - Len(s) < j - Len(s)
      BY <1>1, <1>2, <2>3
    <3> QED
      BY <1>1, <3>1 DEF Increasing
  <2> QED
    BY <1>1, <2>1, <2>2, <2>3
<1> QED
  BY <1>1, <1>2 DEF Increasing, u

(* What holds of every element of two sequences holds of the joined one.   *)
LEMMA JoinedElement ==
  ASSUME NEW S, NEW s \in Seq(S), NEW t \in Seq(S), NEW i \in DOMAIN (s \o t)
  PROVE  \/ i \in DOMAIN s /\ (s \o t)[i] = s[i]
         \/ i - Len(s) \in DOMAIN t /\ (s \o t)[i] = t[i - Len(s)] /\ i > Len(s)
<1> DEFINE u == s \o t
<1>1. /\ DOMAIN s = 1 .. Len(s) /\ DOMAIN t = 1 .. Len(t)
      /\ DOMAIN u = 1 .. Len(s) + Len(t) /\ Len(s) \in Nat /\ Len(t) \in Nat
      /\ \A k \in 1 .. Len(s) : u[k] = s[k]
      /\ \A k \in 1 .. Len(t) : u[Len(s) + k] = t[k]
  BY Joined
<1>2. i \in DOMAIN u
  OBVIOUS
<1> HIDE DEF u
<1>3. CASE i <= Len(s)
  BY <1>1, <1>2, <1>3 DEF u
<1>4. CASE i > Len(s)
  <2>1. i - Len(s) \in 1 .. Len(t) /\ u[i] = u[Len(s) + (i - Len(s))]
    BY <1>1, <1>2, <1>4
  <2> QED
    BY <1>1, <1>4, <2>1 DEF u
<1> QED
  BY <1>1, <1>2, <1>3, <1>4

(* The set of the elements of a joined sequence.                           *)
LEMMA JoinedSet ==
  ASSUME NEW S, NEW s \in Seq(S), NEW t \in Seq(S)
  PROVE  ToSet(s \o t) = ToSet(s) \cup ToSet(t)
<1>1. /\ DOMAIN s = 1 .. Len(s) /\ DOMAIN t = 1 .. Len(t)
      /\ DOMAIN (s \o t) = 1 .. Len(s) + Len(t) /\ Len(s) \in Nat /\ Len(t) \in Nat
      /\ \A k \in 1 .. Len(s) : (s \o t)[k] = s[k]
      /\ \A k \in 1 .. Len(t) : (s \o t)[Len(s) + k] = t[k]
  BY Joined
<1>2. ASSUME NEW x \in ToSet(s \o t) PROVE x \in ToSet(s) \cup ToSet(t)
  BY <1>2, JoinedElement DEF ToSet
<1>3. ASSUME NEW x \in ToSet(s) PROVE x \in ToSet(s \o t)
  <2>1. PICK k \in DOMAIN s : x = s[k]
    BY <1>3 DEF ToSet
  <2>2. k \in DOMAIN (s \o t) /\ x = (s \o t)[k]
    <3>1. k \in 1 .. Len(s) + Len(t)
      BY <1>1, <2>1
    <3> QED
      BY <1>1, <2>1, <3>1
  <2> QED
    BY <2>2 DEF ToSet
<1>4. ASSUME NEW x \in ToSet(t) PROVE x \in ToSet(s \o t)
  <2>1. PICK k \in DOMAIN t : x = t[k]
    BY <1>4 DEF ToSet
  <2>2. Len(s) + k \in DOMAIN (s \o t) /\ x = (s \o t)[Len(s) + k]
    <3>1. Len(s) + k \in 1 .. Len(s) + Len(t)
      BY <1>1, <2>1
    <3> QED
      BY <1>1, <2>1, <3>1
  <2> QED
    BY <2>2 DEF ToSet
<1> QED
  BY <1>2, <1>3, <1>4

(* A bound on two sequences is one on the joined sequence.                 *)
LEMMA JoinedBounds ==
  ASSUME NEW S, NEW s \in Seq(S), NEW t \in Seq(S), NEW u, NEW top
  PROVE  /\ Below(s, u) /\ Below(t, u) => Below(s \o t, u)
         /\ UpTo(s, top) /\ UpTo(t, top) => UpTo(s \o t, top)
<1>1. ASSUME Below(s, u), Below(t, u) PROVE Below(s \o t, u)
  BY <1>1, JoinedElement DEF Below
<1>2. ASSUME UpTo(s, top), UpTo(t, top) PROVE UpTo(s \o t, top)
  BY <1>2, JoinedElement DEF UpTo
<1> QED
  BY <1>1, <1>2

(* Sequences of which one is below the other have no element in common.    *)
LEMMA BelowDisjoint ==
  ASSUME NEW S \in SUBSET Nat, NEW s \in Seq(S), NEW t \in Seq(S), Below(s, t)
  PROVE  ToSet(s) \cap ToSet(t) = {}
<1> SUFFICES ASSUME NEW x \in ToSet(s), x \in ToSet(t) PROVE FALSE
  OBVIOUS
<1>1. PICK i \in DOMAIN s : x = s[i]
  BY DEF ToSet
<1>2. PICK j \in DOMAIN t : x = t[j]
  BY DEF ToSet
<1>3. x \in Nat /\ x < x
  BY <1>1, <1>2, LenProperties DEF Below
<1> QED
  BY <1>3

(* A number above all comes last.                                          *)
LEMMA AppendedLast ==
  ASSUME NEW S \in SUBSET Nat, NEW s \in Seq(S), NEW x \in S, NEW top \in Nat,
         UpTo(s, top), top < x
  PROVE  /\ Increasing(s) => Increasing(Append(s, x))
         /\ UpTo(Append(s, x), x)
         /\ \A u \in Seq(S) : Below(u, s) /\ UpTo(u, top) => Below(u, Append(s, x))
<1> DEFINE a == Append(s, x)
<1>1. Len(s) \in Nat /\ DOMAIN s = 1 .. Len(s) /\ \A i \in 1 .. Len(s) : s[i] \in Nat
  BY LenProperties
<1>2. /\ DOMAIN a = 1 .. Len(s) + 1
      /\ \A i \in 1 .. Len(s) : a[i] = s[i]
      /\ a[Len(s) + 1] = x
  BY AppendProperties, LenProperties
<1> HIDE DEF a
<1>3. x \in Nat /\ \A i \in 1 .. Len(s) : s[i] < x
  BY <1>1 DEF UpTo
<1>4. \A i \in DOMAIN a : i = Len(s) + 1 \/ (i \in 1 .. Len(s) /\ a[i] = s[i])
  BY <1>1, <1>2
<1>5. UpTo(a, x)
  BY <1>1, <1>2, <1>3, <1>4 DEF UpTo
<1>6. ASSUME NEW u \in Seq(S), Below(u, s), UpTo(u, top) PROVE Below(u, a)
  <2>1. \A i \in DOMAIN u : u[i] \in Nat
    BY ZenonT(40), LenProperties
  <2> QED
    BY <1>1, <1>2, <1>3, <1>4, <1>6, <2>1 DEF UpTo, Below
<1>7. ASSUME Increasing(s) PROVE Increasing(a)
  <2> SUFFICES ASSUME NEW i \in DOMAIN a, NEW j \in DOMAIN a, i < j PROVE a[i] < a[j]
    BY DEF Increasing
  <2>1. i \in 1 .. Len(s)
    BY <1>1, <1>2
  <2>2. CASE j = Len(s) + 1
    BY <1>2, <1>3, <2>1, <2>2
  <2>3. CASE j \in 1 .. Len(s)
    BY <1>1, <1>2, <1>7, <2>1, <2>3 DEF Increasing
  <2> QED
    BY <1>4, <2>2, <2>3
<1> QED
  BY <1>5, <1>6, <1>7 DEF a

(* The empty sequence.                                                     *)
LEMMA EmptyOrder ==
  /\ Increasing(<<>>) /\ \A t : Below(<<>>, t) /\ Below(t, <<>>) /\ UpTo(<<>>, t)
  /\ ToSet(<<>>) = {}
BY DEF Increasing, Below, UpTo, ToSet

-----------------------------------------------------------------------------
(* Times cut to a number of bits                                            *)

(* A number is a multiple and a remainder in one way only.                 *)
LEMMA OneRemainder ==
  ASSUME NEW w \in Nat \ {0}, NEW q \in Nat, NEW p \in Nat,
         NEW r \in 0 .. w - 1, NEW s \in 0 .. w - 1, w * q + r = w * p + s
  PROVE  q = p /\ r = s
<1>1. ASSUME NEW a \in Nat, NEW b \in Nat, a < b PROVE w * a + w <= w * b
  <2>1. PICK d \in Nat : b = a + 1 + d
    <3>1. b - a - 1 \in Nat /\ b = a + 1 + (b - a - 1)
      BY <1>1
    <3> QED
      BY <3>1
  <2>2. w * b = w * a + w + w * d /\ w * d \in Nat
    BY <2>1
  <2> QED
    BY <2>2
<1>2. w * q \in Nat /\ w * p \in Nat
  OBVIOUS
<1>3. ~ q < p
  BY <1>1, <1>2
<1>4. ~ p < q
  BY <1>1, <1>2
<1> QED
  BY <1>2, <1>3, <1>4

(* The remainder of a difference that is too small by less than a turn.    *)
LEMMA RemainderBelow ==
  ASSUME NEW w \in Nat \ {0}, NEW e \in (-w) .. (w - 1)
  PROVE  e % w = IF e < 0 THEN e + w ELSE e
OBVIOUS

(* Two times cut to w, less than w apart, tell how far apart they are.     *)
LEMMA CutDifference ==
  ASSUME NEW w \in Nat \ {0}, NEW a \in Nat, NEW b \in Nat, a <= b, b - a < w
  PROVE  ((b % w) - (a % w)) % w = b - a
<1> DEFINE qa == a \div w
           ra == a % w
           qb == b \div w
           rb == b % w
           d == b - a
<1>1. /\ qa \in Nat /\ ra \in 0 .. w - 1 /\ a = w * qa + ra
      /\ qb \in Nat /\ rb \in 0 .. w - 1 /\ b = w * qb + rb
      /\ d \in 0 .. w - 1 /\ b = a + d
  OBVIOUS
<1> HIDE DEF qa, ra, qb, rb, d
<1>2. w * qa \in Nat /\ w * qb \in Nat /\ w * (qa + 1) = w * qa + w
  BY <1>1
<1>3. (rb - ra) % w = d
  <2>1. CASE ra + d < w
    <3> DEFINE e == ra + d
    <3>1. w * qb + rb = w * qa + e /\ e \in 0 .. w - 1
      BY <1>1, <1>2, <2>1
    <3> HIDE DEF e
    <3>2. rb = e
      <4>1. qb \in Nat /\ qa \in Nat /\ rb \in 0 .. w - 1 /\ e \in 0 .. w - 1
        BY <1>1, <3>1
      <4>2. w * qb + rb = w * qa + e
        BY <3>1
      <4> QED
        BY <4>1, <4>2, OneRemainder
    <3>3. rb - ra = d /\ d \in (-w) .. (w - 1) /\ ~ d < 0
      BY <1>1, <3>2 DEF e
    <3> QED
      BY <3>3, RemainderBelow
  <2>2. CASE ra + d >= w
    <3> DEFINE e == ra + d - w
               q == qa + 1
               f == d - w
    <3>1. w * qb + rb = w * q + e /\ e \in 0 .. w - 1 /\ q \in Nat
      BY <1>1, <1>2, <2>2
    <3> HIDE DEF e, q
    <3>2. rb = e
      <4>1. qb \in Nat /\ q \in Nat /\ rb \in 0 .. w - 1 /\ e \in 0 .. w - 1
        BY <1>1, <3>1
      <4>2. w * qb + rb = w * q + e
        BY <3>1
      <4> QED
        BY <4>1, <4>2, OneRemainder
    <3>3. rb - ra = f /\ f \in (-w) .. (w - 1) /\ f < 0 /\ f + w = d
      BY <1>1, <3>2 DEF e
    <3> HIDE DEF f
    <3> QED
      BY <3>3, RemainderBelow
  <2> QED
    BY <1>1, <2>1, <2>2
<1> QED
  BY <1>3 DEF ra, rb, d

-----------------------------------------------------------------------------
(* The invariant                                                           *)

Reader == Echo \cup Monitor

Place == {"clean", "receive", "take", "handle", "put", "send", "done"}
PcTyped == pc \in [Process -> Place]

(* The sets the variables range over (but asc: see AscTyped).              *)
TypeInv ==
  /\ when \in Seq(Nat) /\ Len(when) <= MaxMsgs
  /\ rx \in Seq(Message) /\ Len(rx) <= RxCapacity
  /\ tx \in Seq(Message \cup {SingleMessage}) /\ Len(tx) <= TxCapacity
  /\ PcTyped
  /\ n \in [Process -> Nat]
  /\ buf \in [Process -> Seq(Message \cup {SingleMessage})]
  /\ got \in [Process -> Seq(Message)]
  /\ put \in [Process -> Seq(Message \cup {SingleMessage})]
  /\ again \in [Process -> Nat]
  /\ ret \in [Process -> {-2, -1, 0, 1}]
  /\ faults \in 0 .. MaxFaults

(* What a process holds where it is.                                       *)
ReaderAt(p) ==
  /\ buf[p] \in Seq(Message) /\ Len(buf[p]) <= Block
  /\ pc[p] \in {"handle", "put"} <=> buf[p] # <<>>
  /\ pc[p] = "take" => n[p] \in 1 .. Block
  /\ p \in Echo => (pc[p] = "put" => n[p] \in 1 .. Len(buf[p]))

SenderAt(p) ==
  /\ buf[p] = <<SingleMessage>> /\ got[p] = <<>>
  /\ pc[p] = "put" => n[p] = 1

PlaceInv == (\A p \in Reader : ReaderAt(p)) /\ (\A p \in Sender : SenderAt(p))

(* Messages are received in the order of their arrival, each by one.       *)
Before(s) == Increasing(s) /\ Below(s, rx) /\ UpTo(s, Len(when))

OrderInv ==
  /\ Increasing(rx) /\ UpTo(rx, Len(when))
  /\ \A p \in Process : Before(got[p])
  /\ \A p \in Reader : Before(buf[p])
  /\ \A p, q \in Process : p # q => ToSet(got[p]) \cap ToSet(got[q]) = {}

(* What a monitor has printed is before what it has yet to print, and      *)
(* last_rtime is the time of a message that has arrived.                   *)
PrintedInv(p) ==
  \E m \in 1 .. Len(when) :
    /\ asc[p].at = when[m] /\ asc[p].last = CanTime(m)
    /\ Below(<<m>>, buf[p]) /\ Below(<<m>>, rx)

AscRecord == [once : BOOLEAN, last : Nat, rtime : Nat,
              first : Nat, at : Nat, later : Nat, fits : BOOLEAN]

AscTyped == asc \in [Monitor -> AscRecord]

(* The printed time of a record of asc.                                    *)
Drifts(s) == s.fits => s.rtime = Micros(s.at - s.first) + s.later

ClockInv == \A i, j \in DOMAIN when : i < j => when[i] <= when[j]

TimeInv ==
  /\ AscTyped /\ ClockInv
  /\ \A p \in Monitor : ~asc[p].once => PrintedInv(p)
  /\ AscTimeDrift

FlowInv == TypeInv /\ PlaceInv /\ OrderInv

-----------------------------------------------------------------------------
(* Types and places                                                        *)

(* No process runs two of the modes.                                       *)
LEMMA Modes ==
  /\ Reader \subseteq Process /\ Process = Reader \cup Sender
  /\ Reader \cap Sender = {} /\ Echo \cap Monitor = {}
  /\ Echo \subseteq Reader /\ Monitor \subseteq Reader
BY CanFlowAssumption DEF Reader, Process

LEMMA InitTyped == Init => TypeInv /\ PlaceInv
<1> SUFFICES ASSUME Init PROVE TypeInv /\ PlaceInv
  OBVIOUS
<1> USE CanFlowAssumption, Modes DEF Init
<1>1. <<>> \in Seq(Message) /\ Len(<<>>) = 0 /\ <<>> \in Seq(Nat)
      /\ <<>> \in Seq(Message \cup {SingleMessage})
  BY EmptySeq
<1>2. <<SingleMessage>> \in Seq(Message \cup {SingleMessage}) /\ <<SingleMessage>> # <<>>
  OBVIOUS
<1>3. TypeInv
  <2>1. when \in Seq(Nat) /\ Len(when) <= MaxMsgs /\ rx \in Seq(Message) /\ Len(rx) <= RxCapacity
        /\ tx \in Seq(Message \cup {SingleMessage}) /\ Len(tx) <= TxCapacity
    BY <1>1
  <2>2. PcTyped
    BY DEF PcTyped, Place
  <2>3. n \in [Process -> Nat] /\ again \in [Process -> Nat] /\ faults \in 0 .. MaxFaults
        /\ ret \in [Process -> {-2, -1, 0, 1}]
    OBVIOUS
  <2>4. buf \in [Process -> Seq(Message \cup {SingleMessage})]
    BY <1>1, <1>2
  <2>5. got \in [Process -> Seq(Message)]
        /\ put \in [Process -> Seq(Message \cup {SingleMessage})]
    BY <1>1
  <2> QED
    BY <2>1, <2>2, <2>3, <2>4, <2>5 DEF TypeInv
<1>4. \A p \in Reader : buf[p] = <<>> /\ pc[p] \in {"receive", "clean"}
  BY DEF Reader
<1>5. \A p \in Sender : buf[p] = <<SingleMessage>> /\ got[p] = <<>> /\ pc[p] = "send"
  BY DEF Process
<1>6. PlaceInv
  <2>1. ASSUME NEW p \in Reader PROVE ReaderAt(p)
    BY <1>1, <1>4 DEF ReaderAt
  <2> QED
    BY <1>5, <2>1 DEF PlaceInv, SenderAt
<1> QED
  BY <1>3, <1>6

(* A step of one process leaves the others where they are.                 *)
LEMMA OthersStay ==
  ASSUME PlaceInv, NEW p \in Process,
         \A q \in Process : q # p =>
           pc'[q] = pc[q] /\ n'[q] = n[q] /\ buf'[q] = buf[q] /\ got'[q] = got[q],
         p \in Reader => ReaderAt(p)', p \in Sender => SenderAt(p)'
  PROVE  PlaceInv'
<1>1. ASSUME NEW q \in Reader PROVE ReaderAt(q)'
  <2>1. CASE q = p
    BY <2>1
  <2>2. CASE q # p
    BY <2>2, Modes DEF PlaceInv, ReaderAt
  <2> QED
    BY <2>1, <2>2
<1>2. ASSUME NEW q \in Sender PROVE SenderAt(q)'
  <2>1. CASE q = p
    BY <2>1
  <2>2. CASE q # p
    BY <2>2, Modes DEF PlaceInv, SenderAt
  <2> QED
    BY <2>1, <2>2
<1> QED
  BY <1>1, <1>2 DEF PlaceInv

(* The value of one process in a function changes, and no other.           *)
LEMMA OneChanges ==
  ASSUME NEW R, NEW f \in [Process -> R], NEW p \in Process, NEW r \in R
  PROVE  /\ [f EXCEPT ![p] = r] \in [Process -> R] /\ [f EXCEPT ![p] = r][p] = r
         /\ \A q \in Process : q # p => [f EXCEPT ![p] = r][q] = f[q]
OBVIOUS

(* Reads: at most Block messages, and a block is not empty.                *)
LEMMA ReadTyped ==
  ASSUME TypeInv, PlaceInv, NEW p \in Reader, QueryRx(p) \/ TakeRx(p)
  PROVE  TypeInv' /\ PlaceInv'
<1>0. p \in Process /\ p \notin Sender /\ Reader \subseteq Process /\ Echo \subseteq Reader
  BY Modes
<1>1. CASE QueryRx(p)
  <2>1. /\ \/ rx # <<>> /\ n' = [n EXCEPT ![p] = Wanted] /\ faults' = faults
              /\ pc' = [pc EXCEPT ![p] = "take"]
           \/ n' = n /\ faults' \in 0 .. MaxFaults
              /\ pc' = [pc EXCEPT ![p] = "receive"]
        /\ pc[p] = "receive"
    BY <1>1, CanFlowAssumption DEF QueryRx, Goto, Fails, TypeInv
  <2>2. UNCHANGED <<when, rx, tx, buf, got, put, again, ret, asc>>
    BY <1>1 DEF QueryRx
  <2>3. rx # <<>> => Wanted \in 1 .. Block
    <3>1. rx # <<>> => Len(rx) \in Nat \ {0}
      BY EmptySeq DEF TypeInv
    <3> QED
      BY <3>1, CanFlowAssumption DEF Wanted, Smaller
  <2>4. n' \in [Process -> Nat] /\ (pc'[p] = "take" => n'[p] \in 1 .. Block)
        /\ (\A q \in Process : q # p => n'[q] = n[q])
    <3>1. CASE rx # <<>> /\ n' = [n EXCEPT ![p] = Wanted]
      BY <1>0, <2>3, <3>1, CanFlowAssumption DEF TypeInv
    <3>2. CASE n' = n /\ pc' = [pc EXCEPT ![p] = "receive"]
      BY <1>0, <3>2 DEF TypeInv, PcTyped
    <3> QED
      BY <2>1, <3>1, <3>2
  <2>5. PcTyped' /\ pc'[p] \in {"take", "receive"} /\ (\A q \in Process : q # p => pc'[q] = pc[q])
    BY <1>0, <2>1 DEF TypeInv, PcTyped, Place
  <2>6. TypeInv'
    BY <2>1, <2>2, <2>4, <2>5 DEF TypeInv
  <2>7. buf[p] = <<>>
    BY <1>0, <2>1 DEF PlaceInv, ReaderAt, SenderAt
  <2>8. ReaderAt(p)'
    BY <1>0, <2>2, <2>4, <2>5, <2>7 DEF PlaceInv, ReaderAt
  <2>9. PlaceInv'
    BY <1>0, <2>2, <2>4, <2>5, <2>8, OthersStay
  <2> QED
    BY <2>6, <2>9
<1>2. CASE TakeRx(p)
  <2>1. pc[p] = "take" /\ n[p] \in 1 .. Block /\ buf[p] = <<>>
    BY <1>0, <1>2 DEF TakeRx, Goto, PlaceInv, ReaderAt, SenderAt
  <2>2. UNCHANGED <<when, tx, n, put, again, ret, asc>>
    BY <1>2 DEF TakeRx
  <2>3. faults' \in 0 .. MaxFaults
    BY <1>2, CanFlowAssumption DEF TakeRx, Fails, TypeInv
  <2>4. CASE /\ n[p] <= Len(rx) /\ rx' = RxAfter(p) /\ pc' = [pc EXCEPT ![p] = "handle"]
             /\ buf' = [buf EXCEPT ![p] = SubSeq(rx, 1, n[p])]
             /\ got' = [got EXCEPT ![p] = @ \o SubSeq(rx, 1, n[p])]
    <3>1. n[p] \in 0 .. Len(rx) /\ Len(rx) \in Nat /\ rx \in Seq(Message)
      BY <2>1, <2>4, LenProperties, CanFlowAssumption DEF TypeInv
    <3>2. /\ SubSeq(rx, 1, n[p]) \in Seq(Message) /\ Len(SubSeq(rx, 1, n[p])) = n[p]
          /\ rx' \in Seq(Message) /\ Len(rx') = Len(rx) - n[p]
      BY ZenonT(40), <2>4, <3>1, Cut DEF RxAfter
    <3>3. SubSeq(rx, 1, n[p]) # <<>>
      BY <2>1, <3>2, EmptySeq
    <3>4. got[p] \o SubSeq(rx, 1, n[p]) \in Seq(Message)
      BY <1>0, <3>2, ConcatProperties DEF TypeInv
    <3>5. SubSeq(rx, 1, n[p]) \in Seq(Message \cup {SingleMessage})
      BY <3>2, SeqMonotonic
    <3> DEFINE block == SubSeq(rx, 1, n[p])
               more == got[p] \o block
    <3>6. buf' = [buf EXCEPT ![p] = block] /\ got' = [got EXCEPT ![p] = more]
      BY <2>4
    <3>7. block \in Seq(Message) /\ Len(block) <= Block /\ block # <<>>
          /\ block \in Seq(Message \cup {SingleMessage}) /\ more \in Seq(Message)
      BY <2>1, <3>2, <3>3, <3>4, <3>5
    <3> HIDE DEF block, more
    <3>8. /\ buf' \in [Process -> Seq(Message \cup {SingleMessage})] /\ buf'[p] = block
          /\ \A q \in Process : q # p => buf'[q] = buf[q]
      BY <1>0, <3>6, <3>7 DEF TypeInv
    <3>8a. got' \in [Process -> Seq(Message)] /\ \A q \in Process : q # p => got'[q] = got[q]
      BY <1>0, <3>6, <3>7 DEF TypeInv
    <3>8b. PcTyped' /\ pc'[p] = "handle" /\ \A q \in Process : q # p => pc'[q] = pc[q]
      BY <1>0, <2>4 DEF TypeInv, PcTyped, Place
    <3>9. Len(rx') <= RxCapacity
      BY <2>1, <3>1, <3>2, CanFlowAssumption DEF TypeInv
    <3>10. TypeInv'
      BY <2>2, <2>3, <3>2, <3>8, <3>8a, <3>8b, <3>9 DEF TypeInv
    <3>11. ReaderAt(p)'
      BY <1>0, <2>2, <3>7, <3>8, <3>8b DEF PlaceInv, ReaderAt
    <3>12. PlaceInv'
      BY <1>0, <2>2, <3>8, <3>8a, <3>8b, <3>11, OthersStay
    <3> QED
      BY <3>10, <3>12
  <2>5. CASE pc' = [pc EXCEPT ![p] = "receive"] /\ UNCHANGED <<buf, got>>
             /\ (rx' = rx \/ (n[p] <= Len(rx) /\ rx' = RxAfter(p)))
    <3>1. Len(rx) \in Nat
      BY LenProperties DEF TypeInv
    <3>2. rx' \in Seq(Message) /\ Len(rx') <= RxCapacity
      <4>1. CASE rx' = rx
        BY <4>1 DEF TypeInv
      <4>2. CASE n[p] <= Len(rx) /\ rx' = RxAfter(p)
        <5>1. n[p] \in 0 .. Len(rx) /\ rx \in Seq(Message)
          BY <2>1, <3>1, <4>2, CanFlowAssumption DEF TypeInv
        <5>2. rx' \in Seq(Message) /\ Len(rx') = Len(rx) - n[p]
          BY <4>2, <5>1, Cut DEF RxAfter
        <5> QED
          BY <3>1, <5>1, <5>2, CanFlowAssumption DEF TypeInv
      <4> QED
        BY <2>5, <4>1, <4>2
    <3>3. TypeInv'
      BY <1>0, <2>2, <2>3, <2>5, <3>2 DEF TypeInv, PcTyped, Place
    <3>4. pc'[p] = "receive" /\ \A q \in Process : q # p => pc'[q] = pc[q]
      BY <1>0, <2>5 DEF TypeInv, PcTyped, Place
    <3>5. ReaderAt(p)'
      BY <1>0, <2>1, <2>2, <2>5, <3>4 DEF PlaceInv, ReaderAt
    <3>6. PlaceInv'
      BY <1>0, <2>2, <2>5, <3>4, <3>5, OthersStay
    <3> QED
      BY <3>3, <3>6
  <2>6. \/ /\ n[p] <= Len(rx) /\ rx' = RxAfter(p) /\ pc' = [pc EXCEPT ![p] = "handle"]
           /\ buf' = [buf EXCEPT ![p] = SubSeq(rx, 1, n[p])]
           /\ got' = [got EXCEPT ![p] = @ \o SubSeq(rx, 1, n[p])]
        \/ /\ pc' = [pc EXCEPT ![p] = "receive"] /\ UNCHANGED <<buf, got>>
           /\ (rx' = rx \/ (n[p] <= Len(rx) /\ rx' = RxAfter(p)))
    <3>1. CASE /\ n[p] <= Len(rx) /\ Goto(p, "take", "handle") /\ rx' = RxAfter(p)
               /\ buf' = [buf EXCEPT ![p] = SubSeq(rx, 1, n[p])]
               /\ got' = [got EXCEPT ![p] = @ \o SubSeq(rx, 1, n[p])]
      BY <3>1, Zenon DEF Goto
    <3>2. CASE /\ Goto(p, "take", "receive") /\ UNCHANGED <<buf, got>>
               /\ \/ n[p] > Len(rx) /\ UNCHANGED <<rx, faults>>
                  \/ Fails("lost") /\ UNCHANGED rx
                  \/ n[p] <= Len(rx) /\ Fails("unacked") /\ rx' = RxAfter(p)
      <4>1. rx' = rx \/ (n[p] <= Len(rx) /\ rx' = RxAfter(p))
        <5>1. UNCHANGED <<rx, faults>> => rx' = rx
          OBVIOUS
        <5> QED
          BY <3>2, <5>1, Zenon
      <4> QED
        BY <3>2, <4>1, Zenon DEF Goto
    <3> QED
      BY <1>2, <3>1, <3>2, Zenon DEF TakeRx
  <2> QED
    BY <2>4, <2>5, <2>6
<1> QED
  BY <1>1, <1>2

(* The two accesses of a write, done or failed: what fits goes out.        *)
LEMMA PutTyped ==
  ASSUME TypeInv, NEW p \in Process, n[p] \in 0 .. Len(buf[p]), PutOk(p)
  PROVE  /\ tx' \in Seq(Message \cup {SingleMessage}) /\ Len(tx') <= TxCapacity
         /\ put' \in [Process -> Seq(Message \cup {SingleMessage})]
         /\ put'[p] = put[p] \o Written(p) /\ \A q \in Process : q # p => put'[q] = put[q]
<1> DEFINE M == Message \cup {SingleMessage}
<1>1. buf[p] \in Seq(M) /\ put \in [Process -> Seq(M)] /\ put[p] \in Seq(M) /\ tx \in Seq(M)
  BY DEF TypeInv
<1>2. Len(buf[p]) \in Nat /\ Len(tx) \in Nat
  BY <1>1, LenProperties
<1>3. Written(p) \in Seq(M) /\ Len(Written(p)) = n[p]
  BY <1>1, Cut DEF Written
<1>4. tx \o Written(p) \in Seq(M) /\ Len(tx \o Written(p)) = Len(tx) + Len(Written(p))
  BY <1>1, <1>3, ConcatProperties
<1>5. put[p] \o Written(p) \in Seq(M)
  BY <1>1, <1>3, ConcatProperties
<1>6. n[p] <= TxCapacity - Len(tx) /\ tx' = tx \o Written(p)
      /\ put' = [put EXCEPT ![p] = put[p] \o Written(p)]
  BY DEF PutOk, Room
<1> HIDE DEF M
<1>7. put' \in [Process -> Seq(M)] /\ put'[p] = put[p] \o Written(p)
      /\ \A q \in Process : q # p => put'[q] = put[q]
  BY <1>1, <1>5, <1>6, OneChanges, Zenon
<1>8. Len(tx') <= TxCapacity
  BY <1>2, <1>3, <1>4, <1>6, CanFlowAssumption
<1> QED
  BY <1>4, <1>6, <1>7, <1>8 DEF M

LEMMA PutErrorTyped ==
  ASSUME TypeInv, NEW p \in Process, n[p] \in 0 .. Len(buf[p]), PutError(p)
  PROVE  /\ tx' \in Seq(Message \cup {SingleMessage}) /\ Len(tx') <= TxCapacity
         /\ put' \in [Process -> Seq(Message \cup {SingleMessage})]
         /\ again' \in [Process -> Nat] /\ faults' \in 0 .. MaxFaults
<1>1. CASE UNCHANGED <<tx, put, again>> /\ (Fails("lost") \/ UNCHANGED faults)
  <2>1. faults' \in 0 .. MaxFaults
    BY <1>1, CanFlowAssumption DEF TypeInv, Fails
  <2>2. tx' = tx /\ put' = put /\ again' = again
    BY <1>1
  <2> QED
    BY <2>1, <2>2, Zenon DEF TypeInv
<1>2. CASE Fails("unacked") /\ PutOk(p) /\ again' = [again EXCEPT ![p] = @ + n[p]]
  <2>1. again' \in [Process -> Nat] /\ faults' \in 0 .. MaxFaults
    BY <1>2, CanFlowAssumption DEF TypeInv, Fails
  <2> QED
    BY <1>2, <2>1, PutTyped
<1> QED
  BY <1>1, <1>2 DEF PutError

(* The echo test: what is left of the block is a block.                    *)
LEMMA EchoTyped ==
  ASSUME TypeInv, PlaceInv, NEW p \in Echo, QueryTx(p) \/ PutTx(p)
  PROVE  TypeInv' /\ PlaceInv'
<1>0. p \in Process /\ p \in Reader /\ p \notin Sender /\ ReaderAt(p)
  BY Modes DEF PlaceInv
<1>1. CASE QueryTx(p)
  <2>1. UNCHANGED <<when, rx, tx, buf, got, put, again, ret, asc>> /\ pc[p] = "handle"
    BY <1>1 DEF QueryTx, Goto
  <2>2. Len(buf[p]) \in Nat \ {0}
    BY <1>0, <2>1, EmptySeq DEF ReaderAt
  <2>3. Len(tx) \in Nat
    BY LenProperties DEF TypeInv
  <2>4. Room > 0 => Smaller(Room, Len(buf[p])) \in 1 .. Len(buf[p])
    BY <2>2, <2>3, CanFlowAssumption DEF Room, Smaller
  <2>5. \/ Room > 0 /\ pc' = [pc EXCEPT ![p] = "put"]
           /\ n' = [n EXCEPT ![p] = Smaller(Room, Len(buf[p]))] /\ faults' = faults
        \/ pc' = [pc EXCEPT ![p] = "handle"] /\ n' = n /\ faults' = faults + 1 /\ faults < MaxFaults
    BY <1>1 DEF QueryTx, Goto, Fails
  <2>6. /\ PcTyped' /\ pc'[p] \in {"put", "handle"} /\ \A q \in Process : q # p => pc'[q] = pc[q]
    BY <1>0, <2>5 DEF TypeInv, PcTyped, Place
  <2>7. /\ n' \in [Process -> Nat] /\ (pc'[p] = "put" => n'[p] \in 1 .. Len(buf[p]))
        /\ \A q \in Process : q # p => n'[q] = n[q]
    <3>1. CASE Room > 0 /\ n' = [n EXCEPT ![p] = Smaller(Room, Len(buf[p]))]
      <4>1. Smaller(Room, Len(buf[p])) \in Nat
        BY <2>2, <2>4, <3>1
      <4> QED
        BY <1>0, <2>4, <3>1, <4>1 DEF TypeInv
    <3>2. CASE n' = n /\ pc' = [pc EXCEPT ![p] = "handle"]
      BY <1>0, <3>2 DEF TypeInv, PcTyped, Place
    <3> QED
      BY <2>5, <3>1, <3>2
  <2>8. faults' \in 0 .. MaxFaults
    BY <2>5, CanFlowAssumption DEF TypeInv
  <2>9. TypeInv'
    BY <2>1, <2>6, <2>7, <2>8 DEF TypeInv
  <2>10. ReaderAt(p)'
    BY <1>0, <2>1, <2>6, <2>7 DEF ReaderAt
  <2>11. PlaceInv'
    BY <1>0, <2>1, <2>6, <2>7, <2>10, OthersStay
  <2> QED
    BY <2>9, <2>11
<1>2. CASE PutTx(p)
  <2>1. UNCHANGED <<when, rx, n, got, ret, asc>> /\ pc[p] = "put"
    BY <1>2 DEF PutTx
  <2>2. n[p] \in 1 .. Len(buf[p]) /\ buf[p] \in Seq(Message) /\ Len(buf[p]) \in Nat
    BY <1>0, <2>1, LenProperties DEF ReaderAt
  <2>3. n[p] \in 0 .. Len(buf[p])
    BY <2>2
  <2>4. Rest(p) \in Seq(Message) /\ Len(Rest(p)) = Len(buf[p]) - n[p]
    BY <2>2, <2>3, Cut DEF Rest
  <2>5. CASE PutOk(p) /\ buf' = [buf EXCEPT ![p] = Rest(p)] /\ UNCHANGED <<again, faults>>
             /\ pc' = [pc EXCEPT ![p] = IF Rest(p) = <<>> THEN "receive" ELSE "handle"]
    <3>1. /\ tx' \in Seq(Message \cup {SingleMessage}) /\ Len(tx') <= TxCapacity
          /\ put' \in [Process -> Seq(Message \cup {SingleMessage})]
      BY <1>0, <2>3, <2>5, PutTyped
    <3>2. Rest(p) \in Seq(Message \cup {SingleMessage})
      BY <2>4, SeqMonotonic
    <3>3. /\ buf' \in [Process -> Seq(Message \cup {SingleMessage})] /\ buf'[p] = Rest(p)
          /\ \A q \in Process : q # p => buf'[q] = buf[q]
      BY <1>0, <2>5, <3>2, OneChanges, Zenon DEF TypeInv
    <3>4. /\ PcTyped' /\ pc'[p] = (IF Rest(p) = <<>> THEN "receive" ELSE "handle")
          /\ \A q \in Process : q # p => pc'[q] = pc[q]
      BY <1>0, <2>5 DEF TypeInv, PcTyped, Place
    <3>5. TypeInv'
      BY <2>1, <2>5, <3>1, <3>3, <3>4 DEF TypeInv
    <3>6. ReaderAt(p)'
      BY <1>0, <2>2, <2>4, <3>3, <3>4, CanFlowAssumption DEF ReaderAt
    <3>7. PlaceInv'
      BY <1>0, <2>1, <3>3, <3>4, <3>6, OthersStay
    <3> QED
      BY <3>5, <3>7
  <2>6. CASE PutError(p) /\ pc' = [pc EXCEPT ![p] = "handle"] /\ UNCHANGED buf
    <3>1. PcTyped' /\ pc'[p] = "handle" /\ \A q \in Process : q # p => pc'[q] = pc[q]
      BY <1>0, <2>6 DEF TypeInv, PcTyped, Place
    <3>2. TypeInv'
      BY <1>0, <2>1, <2>3, <2>6, <3>1, PutErrorTyped DEF TypeInv
    <3>3. ReaderAt(p)'
      BY <1>0, <2>1, <2>6, <3>1 DEF ReaderAt
    <3>4. PlaceInv'
      BY <1>0, <2>1, <2>6, <3>1, <3>3, OthersStay
    <3> QED
      BY <3>2, <3>4
  <2> QED
    BY <1>2, <2>5, <2>6 DEF PutTx
<1> QED
  BY <1>1, <1>2

(* The monitor: it cleans the buffer, and prints its block from the front. *)
LEMMA MonitorTyped ==
  ASSUME TypeInv, PlaceInv, NEW p \in Monitor, CleanRxFifo(p) \/ PrintMessage(p)
  PROVE  TypeInv' /\ PlaceInv'
<1>0. p \in Process /\ p \in Reader /\ p \notin Sender /\ p \notin Echo /\ ReaderAt(p)
  BY Modes DEF PlaceInv
<1>1. CASE CleanRxFifo(p)
  <2>1. UNCHANGED <<when, tx, n, buf, got, put, again, ret>> /\ pc[p] = "clean"
        /\ pc' = [pc EXCEPT ![p] = "receive"]
    BY <1>1 DEF CleanRxFifo, Goto
  <2>2. faults' \in 0 .. MaxFaults
    BY <1>1, CanFlowAssumption DEF CleanRxFifo, Fails, TypeInv
  <2>3. rx' = rx \/ rx' = <<>>
    BY <1>1 DEF CleanRxFifo
  <2>4. rx' \in Seq(Message) /\ Len(rx') <= RxCapacity
    <3>1. <<>> \in Seq(Message) /\ Len(<<>>) = 0 /\ 0 <= RxCapacity
      BY EmptySeq, CanFlowAssumption
    <3>2. CASE rx' = <<>>
      BY <3>1, <3>2
    <3> QED
      BY <2>3, <3>2 DEF TypeInv
  <2>5. PcTyped' /\ pc'[p] = "receive" /\ \A q \in Process : q # p => pc'[q] = pc[q]
    BY <1>0, <2>1 DEF TypeInv, PcTyped, Place
  <2>6. TypeInv'
    BY <2>1, <2>2, <2>4, <2>5 DEF TypeInv
  <2>7. ReaderAt(p)'
    BY <1>0, <2>1, <2>5 DEF ReaderAt
  <2>8. PlaceInv'
    BY <1>0, <2>1, <2>5, <2>7, OthersStay
  <2> QED
    BY <2>6, <2>8
<1>2. CASE PrintMessage(p)
  <2>1. /\ UNCHANGED <<when, rx, tx, n, got, put, again, ret, faults>> /\ pc[p] = "handle"
        /\ buf' = [buf EXCEPT ![p] = Tail(buf[p])]
        /\ pc' = [pc EXCEPT ![p] = IF Len(buf[p]) = 1 THEN "receive" ELSE "handle"]
    BY <1>2 DEF PrintMessage
  <2>2. buf[p] \in Seq(Message) /\ buf[p] # <<>> /\ Len(buf[p]) \in Nat \ {0}
    BY <1>0, <2>1, EmptySeq DEF ReaderAt
  <2>3. Tail(buf[p]) \in Seq(Message) /\ Len(Tail(buf[p])) = Len(buf[p]) - 1
    BY <2>2, HeadTailProperties
  <2>4. Tail(buf[p]) \in Seq(Message \cup {SingleMessage})
    BY <2>3, SeqMonotonic
  <2>5. Tail(buf[p]) = <<>> <=> Len(buf[p]) = 1
    <3>1. Len(<<>>) = 0 /\ (Tail(buf[p]) # <<>> => Len(Tail(buf[p])) \in Nat \ {0})
      BY <2>3, EmptySeq
    <3>2. CASE Tail(buf[p]) = <<>>
      <4>1. Len(Tail(buf[p])) = 0
        BY <3>1, <3>2
      <4> QED
        BY <2>2, <2>3, <3>2, <4>1
    <3>3. CASE Tail(buf[p]) # <<>>
      BY <2>2, <2>3, <3>1, <3>3
    <3> QED
      BY <3>2, <3>3
  <2>6. /\ buf' \in [Process -> Seq(Message \cup {SingleMessage})] /\ buf'[p] = Tail(buf[p])
        /\ \A q \in Process : q # p => buf'[q] = buf[q]
    BY <1>0, <2>1, <2>4, OneChanges, Zenon DEF TypeInv
  <2>7. /\ PcTyped' /\ pc'[p] = (IF Len(buf[p]) = 1 THEN "receive" ELSE "handle")
        /\ \A q \in Process : q # p => pc'[q] = pc[q]
    BY <1>0, <2>1 DEF TypeInv, PcTyped, Place
  <2>8. TypeInv'
    BY <2>1, <2>6, <2>7 DEF TypeInv
  <2>9. ReaderAt(p)'
    BY <1>0, <2>2, <2>3, <2>5, <2>6, <2>7, CanFlowAssumption DEF ReaderAt
  <2>10. PlaceInv'
    BY <1>0, <2>1, <2>6, <2>7, <2>9, OthersStay
  <2> QED
    BY <2>8, <2>10
<1> QED
  BY <1>1, <1>2

(* The sender has one message, and sends it once.                          *)
LEMMA SenderTyped ==
  ASSUME TypeInv, PlaceInv, NEW p \in Sender, SendQuery(p) \/ SendPut(p)
  PROVE  TypeInv' /\ PlaceInv'
<1>0. p \in Process /\ p \notin Reader /\ p \in Sender /\ SenderAt(p)
  BY Modes DEF PlaceInv
<1>1. CASE SendQuery(p)
  <2>1. UNCHANGED <<when, rx, tx, buf, got, put, again>> /\ n' = [n EXCEPT ![p] = 1]
    BY <1>1 DEF SendQuery
  <2>2. \/ pc' = [pc EXCEPT ![p] = "put"] /\ ret' = ret /\ faults' = faults
        \/ pc' = [pc EXCEPT ![p] = "done"] /\ ret' = [ret EXCEPT ![p] = 0] /\ faults' = faults
        \/ pc' = [pc EXCEPT ![p] = "done"] /\ ret' = [ret EXCEPT ![p] = -2]
           /\ faults' = faults + 1 /\ faults < MaxFaults
    BY <1>1 DEF SendQuery, Goto, Fails
  <2>3. PcTyped' /\ \A q \in Process : q # p => pc'[q] = pc[q]
    BY <1>0, <2>2 DEF TypeInv, PcTyped, Place
  <2>4. ret' \in [Process -> {-2, -1, 0, 1}]
    BY <1>0, <2>2 DEF TypeInv
  <2>5. n' \in [Process -> Nat] /\ n'[p] = 1 /\ \A q \in Process : q # p => n'[q] = n[q]
    BY <1>0, <2>1 DEF TypeInv
  <2>6. faults' \in 0 .. MaxFaults
    BY <2>2, CanFlowAssumption DEF TypeInv
  <2>7. TypeInv'
    BY <2>1, <2>3, <2>4, <2>5, <2>6 DEF TypeInv
  <2>8. SenderAt(p)'
    BY <1>0, <2>1, <2>5 DEF SenderAt
  <2>9. PlaceInv'
    BY <1>0, <2>1, <2>3, <2>5, <2>8, OthersStay
  <2> QED
    BY <2>7, <2>9
<1>2. CASE SendPut(p)
  <2>1. UNCHANGED <<when, rx, n, buf, got>> /\ pc[p] = "put" /\ pc' = [pc EXCEPT ![p] = "done"]
    BY <1>2 DEF SendPut, Goto
  <2>2. n[p] \in 0 .. Len(buf[p])
    BY <1>0, <2>1 DEF SenderAt
  <2>3. PcTyped' /\ pc'[p] = "done" /\ \A q \in Process : q # p => pc'[q] = pc[q]
    BY <1>0, <2>1 DEF TypeInv, PcTyped, Place
  <2>4. /\ tx' \in Seq(Message \cup {SingleMessage}) /\ Len(tx') <= TxCapacity
        /\ put' \in [Process -> Seq(Message \cup {SingleMessage})]
        /\ again' \in [Process -> Nat] /\ faults' \in 0 .. MaxFaults
        /\ ret' \in [Process -> {-2, -1, 0, 1}]
    <3>1. CASE PutOk(p) /\ ret' = [ret EXCEPT ![p] = 1] /\ UNCHANGED <<again, faults>>
      <4>1. ret' \in [Process -> {-2, -1, 0, 1}] /\ again' \in [Process -> Nat]
            /\ faults' \in 0 .. MaxFaults
        BY <1>0, <3>1 DEF TypeInv
      <4> QED
        BY <1>0, <2>2, <3>1, <4>1, PutTyped
    <3>2. CASE PutError(p) /\ ret' = [ret EXCEPT ![p] = -2]
      <4>1. ret' \in [Process -> {-2, -1, 0, 1}]
        BY <1>0, <3>2 DEF TypeInv
      <4> QED
        BY <1>0, <2>2, <3>2, <4>1, PutErrorTyped
    <3> QED
      BY <1>2, <3>1, <3>2 DEF SendPut
  <2>5. TypeInv'
    BY <2>1, <2>3, <2>4 DEF TypeInv
  <2>6. SenderAt(p)'
    BY <1>0, <2>1, <2>3 DEF SenderAt
  <2>7. PlaceInv'
    BY <1>0, <2>1, <2>3, <2>6, OthersStay
  <2> QED
    BY <2>5, <2>7
<1> QED
  BY <1>1, <1>2

(* The clock of the MCU does not go back.                                  *)
LEMMA ArriveWhen ==
  ASSUME TypeInv, CanArrive
  PROVE  /\ when' \in Seq(Nat) /\ Len(when') = Len(when) + 1 /\ Len(when') <= MaxMsgs
         /\ \A i \in 1 .. Len(when) : when'[i] = when[i]
         /\ when # <<>> => when'[Len(when) + 1] >= when[Len(when)]
<1>1. PICK gap \in Gaps : when' = Append(when, Now + gap)
  BY DEF CanArrive
<1>2. when \in Seq(Nat) /\ Len(when) \in Nat /\ gap \in Nat /\ MaxMsgs \in Nat /\ Len(when) < MaxMsgs
  BY <1>1, LenProperties, CanFlowAssumption DEF TypeInv, CanArrive
<1>3. when # <<>> => Len(when) \in 1 .. Len(when) /\ when[Len(when)] \in Nat
  BY <1>2, EmptySeq, ElementOfSeq
<1>4. Now \in Nat /\ (when # <<>> => Now = when[Len(when)])
  BY <1>3 DEF Now, Last
<1>5. Now + gap \in Nat /\ (when # <<>> => Now + gap >= when[Len(when)])
  BY <1>2, <1>3, <1>4
<1> DEFINE t == Now + gap
<1> HIDE DEF t
<1>6. /\ Append(when, t) \in Seq(Nat) /\ Len(Append(when, t)) = Len(when) + 1
      /\ \A i \in 1 .. Len(when) : Append(when, t)[i] = when[i]
      /\ Append(when, t)[Len(when) + 1] = t
  BY <1>2, <1>5, AppendProperties DEF t
<1>7. when' = Append(when, t) /\ (when # <<>> => t >= when[Len(when)])
  BY <1>1, <1>5 DEF t
<1> QED
  BY <1>2, <1>6, <1>7

(* The MCU: a message arrives, one departs.                                *)
LEMMA McuTyped ==
  ASSUME TypeInv, PlaceInv, CanArrive \/ CanDepart
  PROVE  TypeInv' /\ PlaceInv'
<1>1. CASE CanArrive
  <2>1. UNCHANGED <<tx, pc, n, buf, got, put, again, ret, faults>>
        /\ rx' = IF Len(rx) < RxCapacity THEN Append(rx, Len(when')) ELSE rx
    BY <1>1 DEF CanArrive
  <2>2. when' \in Seq(Nat) /\ Len(when') <= MaxMsgs /\ Len(when') = Len(when) + 1
    BY <1>1, ArriveWhen
  <2>3. Len(when') \in Message
    BY <2>2, LenProperties, CanFlowAssumption DEF TypeInv, Message
  <2>4. /\ Append(rx, Len(when')) \in Seq(Message) /\ Len(Append(rx, Len(when'))) = Len(rx) + 1
        /\ Len(rx) \in Nat
    BY <2>3, AppendProperties, LenProperties DEF TypeInv
  <2>5. rx' \in Seq(Message) /\ Len(rx') <= RxCapacity
    BY <2>1, <2>4, CanFlowAssumption DEF TypeInv
  <2>6. TypeInv'
    BY <2>1, <2>2, <2>5 DEF TypeInv, PcTyped
  <2> QED
    BY <2>1, <2>6 DEF PlaceInv, ReaderAt, SenderAt
<1>2. CASE CanDepart
  <2>1. UNCHANGED <<when, rx, pc, n, buf, got, put, again, ret, faults>>
        /\ tx # <<>> /\ tx' = Tail(tx)
    BY <1>2 DEF CanDepart
  <2>2. tx \in Seq(Message \cup {SingleMessage}) /\ Len(tx) \in Nat \ {0} /\ Len(tx) <= TxCapacity
    BY <2>1, EmptySeq DEF TypeInv
  <2>3. tx' \in Seq(Message \cup {SingleMessage}) /\ Len(tx') = Len(tx) - 1
    BY <2>1, <2>2, HeadTailProperties
  <2>4. TypeInv'
    BY SMTT(30), <2>1, <2>2, <2>3, CanFlowAssumption DEF TypeInv, PcTyped
  <2> QED
    BY <2>1, <2>4 DEF PlaceInv, ReaderAt, SenderAt
<1> QED
  BY <1>1, <1>2

(* Every step keeps the types and the places.                              *)
LEMMA TypedStep == TypeInv /\ PlaceInv /\ [Next]_vars => TypeInv' /\ PlaceInv'
<1> SUFFICES ASSUME TypeInv, PlaceInv, [Next]_vars PROVE TypeInv' /\ PlaceInv'
  OBVIOUS
<1>1. CASE UNCHANGED vars
  BY <1>1 DEF vars, TypeInv, PcTyped, PlaceInv, ReaderAt, SenderAt
<1>2. ASSUME NEW p \in Echo, EchoStep(p) PROVE TypeInv' /\ PlaceInv'
  BY <1>2, ReadTyped, EchoTyped, Modes DEF EchoStep
<1>3. ASSUME NEW p \in Monitor, MonitorStep(p) PROVE TypeInv' /\ PlaceInv'
  BY <1>3, ReadTyped, MonitorTyped, Modes DEF MonitorStep
<1>4. ASSUME NEW p \in Sender, SenderStep(p) PROVE TypeInv' /\ PlaceInv'
  BY <1>4, SenderTyped DEF SenderStep
<1>5. CASE CanArrive \/ CanDepart
  BY <1>5, McuTyped
<1> QED
  BY <1>1, <1>2, <1>3, <1>4, <1>5 DEF Next

(* Buffers, blocks and results have their types and sizes: a read never    *)
(* takes more than its block holds, and a write never more than there is   *)
(* room for (rearview_mcu.c:193-226).                                      *)
THEOREM FlowTypeCorrect == Spec => []CanTypeOK
<1>1. TypeInv /\ PlaceInv => CanTypeOK
  BY Modes DEF TypeInv, PcTyped, Place, PlaceInv, ReaderAt, SenderAt, CanTypeOK, Reader
<1> QED
  BY InitTyped, TypedStep, <1>1, PTL DEF Spec

-----------------------------------------------------------------------------
(* Order                                                                   *)

LEMMA InitOrdered == Init => OrderInv
<1> SUFFICES ASSUME Init PROVE OrderInv
  OBVIOUS
<1>1. rx = <<>> /\ (\A p \in Process : got[p] = <<>>) /\ (\A p \in Reader : buf[p] = <<>>)
  BY Modes DEF Init
<1> QED
  BY <1>1, EmptyOrder, Modes DEF OrderInv, Before

(* A step that takes nothing from rx and adds nothing to what is received  *)
(* keeps the order, when blocks only lose their front.                     *)
LEMMA OrderKept ==
  ASSUME OrderInv, UNCHANGED <<when, rx, got>>, \A p \in Reader : buf'[p] = buf[p] \/ Before(buf'[p])
  PROVE  OrderInv'
<1>1. \A s : Before(s) => Increasing(s) /\ Below(s, rx') /\ UpTo(s, Len(when'))
  BY DEF Before
<1>2. \A p \in Process : Before(got[p])'
  BY <1>1 DEF OrderInv, Before
<1>3. \A p \in Reader : Before(buf[p])'
  BY <1>1 DEF OrderInv, Before
<1> QED
  BY <1>2, <1>3 DEF OrderInv

(* What is behind the front of a block is still in order.                  *)
LEMMA FrontGone ==
  ASSUME TypeInv, NEW b \in Seq(Message), Before(b), NEW k \in 0 .. Len(b)
  PROVE  Before(SubSeq(b, k + 1, Len(b)))
<1>1. Message \in SUBSET Nat
  BY DEF Message
<1> QED
  BY <1>1, CutIncreases, CutBelow, CutUpTo DEF Before

(* A read takes the front of rx: what others have is before it.            *)
LEMMA TakeOrdered ==
  ASSUME TypeInv, PlaceInv, OrderInv, NEW p \in Reader, TakeRx(p)
  PROVE  OrderInv'
<1> DEFINE block == SubSeq(rx, 1, n[p])
           left == SubSeq(rx, n[p] + 1, Len(rx))
<1>0. /\ p \in Process /\ Message \in SUBSET Nat /\ rx \in Seq(Message)
      /\ got[p] \in Seq(Message) /\ Reader \subseteq Process /\ Len(rx) \in Nat
  BY Modes, LenProperties DEF TypeInv, Message
<1>1. when' = when /\ n[p] \in Nat \ {0}
  BY CanFlowAssumption DEF TakeRx, Goto, PlaceInv, ReaderAt
<1>2. CASE UNCHANGED <<buf, got>> /\ rx' = rx
  BY <1>1, <1>2, OrderKept
<1>3. CASE n[p] <= Len(rx)
  <2>0. n[p] \in 0 .. Len(rx)
    BY <1>0, <1>1, <1>3
  <2>1. /\ block \in Seq(Message) /\ left \in Seq(Message)
        /\ Increasing(block) /\ Increasing(left) /\ Below(block, left)
        /\ UpTo(block, Len(when)) /\ UpTo(left, Len(when))
    BY <1>0, <2>0, Cut, CutIncreases, CutUpTo DEF OrderInv
  <2>2. \A s : Below(s, rx) => Below(s, block) /\ Below(s, left)
    BY <1>0, <2>0, CutBelow
  <2> DEFINE more == got[p] \o block
  <2>3. Before(got[p]) /\ Below(got[p], block) /\ Below(got[p], left)
    BY <1>0, <2>2 DEF OrderInv, Before
  <2>4. Increasing(more) /\ Below(more, left) /\ UpTo(more, Len(when))
    BY <1>0, <2>1, <2>3, JoinedIncreases, JoinedBounds DEF Before
  <2>5. ToSet(more) = ToSet(got[p]) \cup ToSet(block)
    <3>1. got[p] \in Seq(Message) /\ block \in Seq(Message)
      BY <1>0, <2>1
    <3> HIDE DEF block
    <3> QED
      BY <3>1, JoinedSet
  <2>6. ASSUME NEW q \in Process, q # p PROVE ToSet(got[q]) \cap ToSet(more) = {}
    <3>1. ToSet(got[q]) \cap ToSet(got[p]) = {}
      BY <1>0, <2>6 DEF OrderInv
    <3>2. got[q] \in Seq(Message) /\ Below(got[q], block)
      BY <2>2, <2>6 DEF TypeInv, OrderInv, Before
    <3>3. ToSet(got[q]) \cap ToSet(block) = {}
      BY <1>0, <2>1, <3>2, BelowDisjoint
    <3> QED
      BY <2>5, <3>1, <3>3
  <2> HIDE DEF block, left, more
  <2>7. CASE /\ rx' = left /\ buf' = [buf EXCEPT ![p] = block]
             /\ got' = [got EXCEPT ![p] = more]
    <3>1. /\ got'[p] = more /\ \A q \in Process : q # p => got'[q] = got[q]
      BY <1>0, <2>7 DEF TypeInv
    <3>2. /\ buf'[p] = block /\ \A q \in Process : q # p => buf'[q] = buf[q]
      BY <1>0, <2>7 DEF TypeInv
    <3>3. \A q \in Process : Before(got[q])'
      BY <1>0, <1>1, <2>2, <2>4, <2>7, <3>1 DEF OrderInv, Before
    <3>4. \A q \in Reader : Before(buf[q])'
      BY <1>0, <1>1, <2>1, <2>2, <2>7, <3>2 DEF OrderInv, Before
    <3>5. \A q, r \in Process : q # r => ToSet(got'[q]) \cap ToSet(got'[r]) = {}
      BY <2>6, <3>1 DEF OrderInv
    <3> QED
      BY <1>1, <2>1, <2>7, <3>3, <3>4, <3>5 DEF OrderInv
  <2>8. CASE UNCHANGED <<buf, got>> /\ rx' = left
    <3>1. (\A q \in Process : Before(got[q])') /\ (\A q \in Reader : Before(buf[q])')
      BY <1>1, <2>2, <2>8 DEF OrderInv, Before
    <3> QED
      BY <1>1, <2>1, <2>8, <3>1 DEF OrderInv
  <2>9. \/ rx' = left /\ buf' = [buf EXCEPT ![p] = block] /\ got' = [got EXCEPT ![p] = more]
        \/ UNCHANGED <<buf, got>> /\ (rx' = left \/ rx' = rx)
    BY DEF TakeRx, RxAfter, block, left, more
  <2> QED
    BY <1>2, <2>7, <2>8, <2>9
<1>4. CASE ~(n[p] <= Len(rx))
  <2>1. UNCHANGED <<buf, got>> /\ rx' = rx
    BY <1>4 DEF TakeRx
  <2> QED
    BY <1>2, <2>1
<1> QED
  BY <1>3, <1>4

(* A message that arrives is after all that have arrived.                  *)
LEMMA ArriveOrdered ==
  ASSUME TypeInv, PlaceInv, OrderInv, CanArrive
  PROVE  OrderInv'
<1>0. /\ Message \in SUBSET Nat /\ rx \in Seq(Message) /\ Reader \subseteq Process
      /\ Len(when) \in Nat /\ Len(when') = Len(when) + 1 /\ Len(when') \in Message
  BY ArriveWhen, LenProperties, Modes, CanFlowAssumption DEF TypeInv, Message
<1>1. UNCHANGED <<buf, got>> /\ rx' = IF Len(rx) < RxCapacity THEN Append(rx, Len(when')) ELSE rx
  BY DEF CanArrive
<1>2. \A s \in Seq(Message) : UpTo(s, Len(when)) => UpTo(s, Len(when'))
  <2>1. ASSUME NEW s \in Seq(Message), UpTo(s, Len(when)) PROVE UpTo(s, Len(when'))
    <3>1. \A i \in DOMAIN s : s[i] \in Nat
      BY ZenonT(40), <1>0, LenProperties
    <3> QED
      BY <1>0, <2>1, <3>1 DEF UpTo
  <2> QED
    BY <2>1
<1>3. Increasing(rx') /\ UpTo(rx', Len(when'))
  <2>1. CASE rx' = rx
    BY <1>0, <1>2, <2>1 DEF OrderInv
  <2>2. CASE rx' = Append(rx, Len(when'))
    <3>1. Len(when) < Len(when') /\ UpTo(rx, Len(when)) /\ Increasing(rx)
      BY <1>0 DEF OrderInv
    <3> QED
      BY <1>0, <2>2, <3>1, AppendedLast
  <2> QED
    BY <1>1, <2>1, <2>2
<1>4. ASSUME NEW s \in Seq(Message), Before(s) PROVE Before(s)'
  <2>1. CASE rx' = rx
    BY <1>2, <1>4, <2>1 DEF Before
  <2>2. CASE rx' = Append(rx, Len(when'))
    <3>1. Len(when) < Len(when') /\ UpTo(rx, Len(when))
      BY <1>0 DEF OrderInv
    <3>2. Below(s, rx')
      BY <1>0, <1>4, <2>2, <3>1, AppendedLast DEF Before
    <3> QED
      BY <1>2, <1>4, <3>2 DEF Before
  <2> QED
    BY <1>1, <2>1, <2>2
<1>5. \A q \in Process : Before(got[q])'
  BY <1>1, <1>4 DEF TypeInv, OrderInv, Before
<1>6. \A q \in Reader : Before(buf[q])'
  BY <1>1, <1>4 DEF PlaceInv, ReaderAt, OrderInv, Before
<1> QED
  BY <1>1, <1>3, <1>5, <1>6 DEF OrderInv

(* Every step keeps the order.                                             *)
LEMMA OrderedStep == TypeInv /\ PlaceInv /\ OrderInv /\ [Next]_vars => OrderInv'
<1> SUFFICES ASSUME TypeInv, PlaceInv, OrderInv, [Next]_vars PROVE OrderInv'
  OBVIOUS
<1>1. CASE UNCHANGED <<when, rx, got, buf>>
  BY <1>1, OrderKept
<1>2. ASSUME NEW p \in Reader, QueryRx(p) \/ TakeRx(p) PROVE OrderInv'
  <2>1. CASE QueryRx(p)
    BY <1>1, <2>1 DEF QueryRx
  <2> QED
    BY <1>2, <2>1, TakeOrdered
<1>3. ASSUME NEW p \in Echo, PutTx(p) PROVE OrderInv'
  <2>1. UNCHANGED <<when, rx, got>> /\ pc[p] = "put"
        /\ (buf' = buf \/ buf' = [buf EXCEPT ![p] = Rest(p)])
    BY <1>3 DEF PutTx
  <2>2. p \in Reader /\ p \in Process /\ buf[p] \in Seq(Message) /\ n[p] \in 1 .. Len(buf[p])
    BY <2>1, Modes DEF PlaceInv, ReaderAt
  <2>3. Before(buf[p]) /\ n[p] \in 0 .. Len(buf[p])
    BY <2>2, LenProperties DEF OrderInv
  <2>4. Before(Rest(p))
    BY <2>2, <2>3, FrontGone DEF Rest
  <2>5. \A q \in Reader : buf'[q] = buf[q] \/ Before(buf'[q])
    BY <2>1, <2>2, <2>4, Modes DEF TypeInv
  <2> QED
    BY <2>1, <2>5, OrderKept
<1>4. ASSUME NEW p \in Monitor, PrintMessage(p) PROVE OrderInv'
  <2>1. UNCHANGED <<when, rx, got>> /\ pc[p] = "handle" /\ buf' = [buf EXCEPT ![p] = Tail(buf[p])]
    BY <1>4 DEF PrintMessage
  <2>2. p \in Reader /\ p \in Process /\ buf[p] \in Seq(Message) /\ buf[p] # <<>>
    BY <2>1, Modes DEF PlaceInv, ReaderAt
  <2>3. Before(buf[p]) /\ 1 \in 0 .. Len(buf[p])
    BY <2>2, EmptySeq DEF OrderInv
  <2>4. Before(Tail(buf[p]))
    <3>1. Tail(buf[p]) = SubSeq(buf[p], 1 + 1, Len(buf[p]))
      BY <2>2, TailIsSubSeq
    <3> QED
      BY <2>2, <2>3, <3>1, FrontGone
  <2>5. \A q \in Reader : buf'[q] = buf[q] \/ Before(buf'[q])
    BY <2>1, <2>2, <2>4, Modes DEF TypeInv
  <2> QED
    BY <2>1, <2>5, OrderKept
<1>5. ASSUME NEW p \in Monitor, CleanRxFifo(p) PROVE OrderInv'
  <2>1. UNCHANGED <<when, got, buf>> /\ (rx' = rx \/ rx' = <<>>)
    BY <1>5 DEF CleanRxFifo
  <2>2. CASE rx' = <<>>
    BY <2>1, <2>2, EmptyOrder DEF OrderInv, Before
  <2> QED
    BY <1>1, <2>1, <2>2
<1>6. ASSUME NEW p \in Process, QueryTx(p) \/ SendQuery(p) \/ SendPut(p) PROVE OrderInv'
  BY <1>1, <1>6 DEF QueryTx, SendQuery, SendPut
<1>7. CASE CanDepart \/ UNCHANGED vars
  BY <1>1, <1>7 DEF CanDepart, vars
<1>8. ASSUME NEW p \in Echo, EchoStep(p) PROVE OrderInv'
  BY <1>2, <1>3, <1>6, <1>8, Modes DEF EchoStep
<1>9. ASSUME NEW p \in Monitor, MonitorStep(p) PROVE OrderInv'
  BY <1>2, <1>4, <1>5, <1>9, Modes DEF MonitorStep
<1>10. ASSUME NEW p \in Sender, SenderStep(p) PROVE OrderInv'
  BY <1>6, <1>10, Modes DEF SenderStep
<1> QED
  BY <1>7, <1>8, <1>9, <1>10, ArriveOrdered DEF Next

LEMMA FlowInit == Init => FlowInv
BY InitTyped, InitOrdered DEF FlowInv

LEMMA FlowStep == FlowInv /\ [Next]_vars => FlowInv'
BY TypedStep, OrderedStep DEF FlowInv

(* No two processes receive the same message, and each receives in the     *)
(* order of arrival, whoever reads in between (run.c:378, 424): of two     *)
(* that found the same messages one takes them, and the other is refused.  *)
THEOREM ReceivedOnce == Spec => []EachReceivedOnce
<1>1. FlowInv => EachReceivedOnce
  BY DEF FlowInv, OrderInv, Before, Increasing, EachReceivedOnce
<1> QED
  BY FlowInit, FlowStep, <1>1, PTL DEF Spec

-----------------------------------------------------------------------------
(* The echo                                                                *)

(* s has the messages of g, none before an earlier one, and k of them      *)
(* again.                                                                  *)
Exact(s, g, k) ==
  /\ ToSet(s) = ToSet(g)
  /\ \A i \in DOMAIN s : \A m \in ToSet(g) :
       m < s[i] => \E j \in 1 .. i - 1 : s[j] = m
  /\ Len(s) = Len(g) + k

(* A new block, later than all, goes to the end of both.                   *)
LEMMA ExactMore ==
  ASSUME NEW S \in SUBSET Nat, NEW s \in Seq(S), NEW g \in Seq(S), NEW b \in Seq(S),
         NEW k \in Nat, Exact(s, g, k), Increasing(b), Below(g, b)
  PROVE  Exact(s \o b, g \o b, k)
<1> DEFINE sb == s \o b
<1>1. /\ sb \in Seq(S) /\ DOMAIN s = 1 .. Len(s) /\ DOMAIN b = 1 .. Len(b)
      /\ DOMAIN sb = 1 .. Len(s) + Len(b)
      /\ Len(s) \in Nat /\ Len(b) \in Nat
      /\ \A i \in 1 .. Len(s) : sb[i] = s[i]
      /\ \A i \in 1 .. Len(b) : sb[Len(s) + i] = b[i]
  BY Joined
<1>2. ToSet(sb) = ToSet(s) \cup ToSet(b) /\ ToSet(g \o b) = ToSet(g) \cup ToSet(b)
  BY JoinedSet
<1>3. Len(sb) = Len(s) + Len(b) /\ Len(g \o b) = Len(g) + Len(b) /\ Len(g) \in Nat
  BY ConcatProperties, LenProperties
<1>4. (\A i \in 1 .. Len(s) : s[i] \in Nat) /\ (\A i \in 1 .. Len(b) : b[i] \in Nat)
  BY LenProperties
<1>5. \A m \in ToSet(g), x \in ToSet(b) : m \in Nat /\ x \in Nat /\ m < x
  BY ZenonT(40), LenProperties DEF ToSet, Below
<1> HIDE DEF sb
<1>6. ASSUME NEW i \in DOMAIN sb, NEW m \in ToSet(g) \cup ToSet(b), m < sb[i]
      PROVE  \E j \in 1 .. i - 1 : sb[j] = m
  <2>1. CASE i <= Len(s)
    <3>1. i \in DOMAIN s /\ sb[i] = s[i] /\ s[i] \in ToSet(s) /\ s[i] \in Nat
      BY <1>1, <1>4, <1>6, <2>1 DEF ToSet
    <3>2. m \in ToSet(g)
      BY <1>5, <1>6, <3>1 DEF Exact
    <3>3. PICK j \in 1 .. i - 1 : s[j] = m
      BY <1>6, <3>1, <3>2 DEF Exact
    <3>4. sb[j] = m
      BY <1>1, <1>6, <2>1, <3>3
    <3> QED
      BY <3>4
  <2>2. CASE i > Len(s) /\ m \in ToSet(g)
    <3>1. PICK j \in DOMAIN s : s[j] = m
      BY <2>2 DEF Exact, ToSet
    <3>2. j \in 1 .. i - 1 /\ sb[j] = m
      BY <1>1, <1>6, <2>2, <3>1
    <3> QED
      BY <3>2
  <2>3. CASE i > Len(s) /\ m \in ToSet(b)
    <3>1. PICK j \in DOMAIN b : b[j] = m
      BY <2>3 DEF ToSet
    <3>2. i - Len(s) \in 1 .. Len(b) /\ sb[i] = sb[Len(s) + (i - Len(s))]
      BY <1>1, <1>6, <2>3
    <3>3. sb[i] = b[i - Len(s)]
      BY <1>1, <3>2
    <3>4. b[j] < b[i - Len(s)]
      BY <1>6, <3>1, <3>3
    <3>5. j < i - Len(s)
      <4> DEFINE h == i - Len(s)
      <4>1. h \in DOMAIN b /\ h \in Nat /\ j \in Nat /\ b[j] \in Nat /\ b[h] \in Nat /\ b[j] < b[h]
        BY <1>1, <1>4, <3>1, <3>2, <3>4
      <4> HIDE DEF h
      <4>2. h < j => b[h] < b[j]
        BY <3>1, <4>1 DEF Increasing
      <4>3. j < h
        BY <4>1, <4>2
      <4> QED
        BY <4>3 DEF h
    <3>6. Len(s) + j \in 1 .. i - 1 /\ sb[Len(s) + j] = m
      BY <1>1, <1>6, <3>1, <3>2, <3>5
    <3> QED
      BY <3>6
  <2> QED
    BY <1>1, <1>6, <2>1, <2>2, <2>3
<1>7. ToSet(sb) = ToSet(g \o b) /\ Len(sb) = Len(g \o b) + k
  BY <1>2, <1>3 DEF Exact, sb
<1>8. \A i \in DOMAIN sb : \A m \in ToSet(g \o b) : m < sb[i] => \E j \in 1 .. i - 1 : sb[j] = m
  BY <1>2, <1>6
<1>9. Exact(sb, g \o b, k)
  BY <1>7, <1>8 DEF Exact
<1> QED
  BY <1>9 DEF sb

(* The front of the rest goes out, and the rest stays the rest.            *)
LEMMA ExactAgain ==
  ASSUME NEW S \in SUBSET Nat, NEW u \in Seq(S), NEW b \in Seq(S), NEW g \in Seq(S),
         NEW k \in Nat, NEW j \in 0 .. Len(b), Exact(u \o b, g, k)
  PROVE  Exact((u \o SubSeq(b, 1, j)) \o b, g, k + j)
<1> DEFINE c == SubSeq(b, 1, j)
           s == u \o b
           uc == u \o c
           t == uc \o b
<1>1. c \in Seq(S) /\ Len(c) = j /\ (\A i \in 1 .. j : c[i] = b[i])
  BY Cut
<1>2. /\ s \in Seq(S) /\ Len(u) \in Nat /\ Len(b) \in Nat
      /\ DOMAIN u = 1 .. Len(u) /\ DOMAIN b = 1 .. Len(b) /\ DOMAIN s = 1 .. Len(u) + Len(b)
      /\ (\A i \in 1 .. Len(u) : s[i] = u[i]) /\ (\A i \in 1 .. Len(b) : s[Len(u) + i] = b[i])
  BY Joined
<1>3. /\ uc \in Seq(S) /\ DOMAIN uc = 1 .. Len(u) + j /\ Len(uc) = Len(u) + j
      /\ (\A i \in 1 .. Len(u) : uc[i] = u[i]) /\ (\A i \in 1 .. j : uc[Len(u) + i] = c[i])
  <2>1. /\ uc \in Seq(S) /\ DOMAIN uc = 1 .. Len(u) + Len(c) /\ Len(uc) = Len(u) + Len(c)
        /\ (\A i \in 1 .. Len(u) : uc[i] = u[i]) /\ (\A i \in 1 .. Len(c) : uc[Len(u) + i] = c[i])
    BY <1>1, Joined, ConcatProperties
  <2> QED
    BY <1>1, <2>1
<1>4. /\ t \in Seq(S) /\ DOMAIN t = 1 .. Len(uc) + Len(b)
      /\ (\A i \in 1 .. Len(uc) : t[i] = uc[i]) /\ (\A i \in 1 .. Len(b) : t[Len(uc) + i] = b[i])
  BY <1>3, Joined
<1>5. Len(s) = Len(u) + Len(b) /\ Len(t) = Len(u) + j + Len(b) /\ Len(g) \in Nat
  BY <1>2, <1>3, <1>4, LenProperties
<1>6. ToSet(c) \subseteq ToSet(b)
  <2>1. DOMAIN c = 1 .. j /\ \A i \in 1 .. j : i \in DOMAIN b
    BY <1>1, <1>2, LenProperties
  <2> QED
    BY <1>1, <2>1 DEF ToSet
<1>7. ToSet(t) = ToSet(s)
  <2>0. ToSet(uc) = ToSet(u) \cup ToSet(c)
    BY ZenonT(40), <1>1, JoinedSet
  <2>1. ToSet(t) = ToSet(uc) \cup ToSet(b)
    <3>1. uc \in Seq(S)
      BY <1>3
    <3> HIDE DEF uc
    <3> QED
      BY <3>1, JoinedSet
  <2>2. ToSet(s) = ToSet(u) \cup ToSet(b)
    BY JoinedSet
  <2> HIDE DEF c, s, uc, t
  <2> QED
    BY <1>6, <2>0, <2>1, <2>2
<1> HIDE DEF c, s, uc, t
<1>8. Exact(s, g, k)
  BY DEF s
<1>9. \A i \in 1 .. Len(u) + j : t[i] = s[i]
  <2> SUFFICES ASSUME NEW i \in 1 .. Len(u) + j PROVE t[i] = s[i]
    OBVIOUS
  <2>1. t[i] = uc[i]
    BY <1>3, <1>4
  <2>2. CASE i <= Len(u)
    BY <1>2, <1>3, <2>1, <2>2
  <2>3. CASE i > Len(u)
    <3>1. i - Len(u) \in 1 .. j /\ i - Len(u) \in 1 .. Len(b)
          /\ i = Len(u) + (i - Len(u))
      BY <1>2, <2>3
    <3>2. uc[i] = c[i - Len(u)] /\ s[i] = b[i - Len(u)]
      BY <1>2, <1>3, <3>1
    <3> QED
      BY <1>1, <2>1, <3>1, <3>2
  <2> QED
    BY <1>2, <2>2, <2>3
<1>10. ASSUME NEW i \in DOMAIN t, NEW m \in ToSet(g), m < t[i]
       PROVE  \E l \in 1 .. i - 1 : t[l] = m
  <2>1. CASE i <= Len(u) + j
    <3>1. i \in DOMAIN s /\ m < s[i]
      BY <1>2, <1>3, <1>4, <1>9, <1>10, <2>1
    <3>2. PICK l \in 1 .. i - 1 : s[l] = m
      BY <1>8, <3>1 DEF Exact
    <3>3. l \in 1 .. Len(u) + j
      BY <1>2, <2>1, <3>1, <3>2
    <3>4. t[l] = m
      BY <1>9, <3>2, <3>3
    <3> QED
      BY <3>2, <3>4
  <2>2. CASE i > Len(u) + j
    <3>1. i - Len(u) - j \in 1 .. Len(b) /\ t[i] = b[i - Len(u) - j]
      <4>1. i - Len(uc) \in 1 .. Len(b) /\ i = Len(uc) + (i - Len(uc))
        BY <1>2, <1>3, <1>4, <2>2
      <4>2. t[i] = b[i - Len(uc)] /\ i - Len(uc) = i - Len(u) - j
        BY SMTT(30), <1>2, <1>3, <1>4, <4>1
      <4> QED
        BY <4>1, <4>2
    <3>2. i - j \in DOMAIN s /\ s[i - j] = t[i]
      <4>1. i - j = Len(u) + (i - Len(u) - j) /\ i - j \in 1 .. Len(u) + Len(b)
        BY SMTT(30), <1>2, <1>4, <3>1
      <4> QED
        BY <1>2, <3>1, <4>1
    <3>3. PICK l \in 1 .. i - j - 1 : s[l] = m
      BY <1>8, <1>10, <3>2 DEF Exact
    <3>4. CASE l <= Len(u)
      <4>1. i \in Nat /\ l \in Nat /\ j \in Nat
        BY <1>2, <1>3, <1>4, <1>10, <3>3
      <4>2. l \in 1 .. i - 1 /\ l \in 1 .. Len(u) + j
        BY <1>2, <3>3, <3>4, <4>1
      <4>3. t[l] = m
        BY <1>9, <3>3, <4>2
      <4> QED
        BY <4>2, <4>3
    <3>5. CASE l > Len(u)
      <4>0. i \in Nat /\ l \in Nat /\ j \in Nat /\ l <= i - j - 1 /\ i - j <= Len(u) + Len(b)
        BY <1>2, <1>3, <1>4, <1>10, <3>2, <3>3
      <4>1. l - Len(u) \in 1 .. Len(b) /\ l = Len(u) + (l - Len(u))
        BY <1>2, <3>5, <4>0
      <4>2. b[l - Len(u)] = m
        BY <1>2, <3>3, <4>1
      <4>3. t[Len(uc) + (l - Len(u))] = m /\ Len(uc) + (l - Len(u)) = l + j
        <5>1. t[Len(uc) + (l - Len(u))] = m
          BY <1>4, <4>1, <4>2
        <5> QED
          BY <1>2, <1>3, <4>0, <5>1
      <4>4. l + j \in 1 .. i - 1
        BY <3>3, <4>0
      <4> QED
        BY <4>3, <4>4
    <3> QED
      BY <1>2, <3>3, <3>4, <3>5
  <2> QED
    BY <1>2, <1>3, <1>4, <2>1, <2>2
<1>11. ToSet(t) = ToSet(g) /\ Len(t) = Len(g) + (k + j)
  <2>1. ToSet(s) = ToSet(g) /\ Len(s) = Len(g) + k
    BY <1>8 DEF Exact
  <2>2. Len(t) = Len(g) + (k + j)
    <3>0. k \in Nat
      OBVIOUS
    <3>1. Len(u) \in Nat /\ Len(b) \in Nat /\ Len(g) \in Nat /\ j \in Nat /\ k \in Nat
      BY <1>2, <1>5, <3>0
    <3>2. Len(s) = Len(u) + Len(b) /\ Len(t) = Len(u) + j + Len(b)
      BY <1>5
    <3>3. Len(s) = Len(g) + k
      BY <2>1
    <3>4. Len(u) + Len(b) = Len(g) + k
      BY <3>2, <3>3, Zenon
    <3>5. Len(u) + j + Len(b) = Len(g) + (k + j)
      BY <3>1, <3>4
    <3> QED
      BY <3>2, <3>5, Zenon
  <2> QED
    BY <1>7, <2>1, <2>2
<1>12. Exact(t, g, k + j)
  BY <1>10, <1>11 DEF Exact
<1> QED
  BY <1>12 DEF t, uc, c

(* What has gone out, and then the rest: the whole as before.              *)
LEMMA SentStays ==
  ASSUME NEW S, NEW u \in Seq(S), NEW b \in Seq(S), NEW j \in 0 .. Len(b)
  PROVE  (u \o SubSeq(b, 1, j)) \o SubSeq(b, j + 1, Len(b)) = u \o b
<1>1. /\ SubSeq(b, 1, j) \in Seq(S) /\ SubSeq(b, j + 1, Len(b)) \in Seq(S)
      /\ SubSeq(b, 1, j) \o SubSeq(b, j + 1, Len(b)) = b
  BY Cut
<1>2. (u \o SubSeq(b, 1, j)) \o SubSeq(b, j + 1, Len(b))
        = u \o (SubSeq(b, 1, j) \o SubSeq(b, j + 1, Len(b)))
  <2> DEFINE c == SubSeq(b, 1, j)
             d == SubSeq(b, j + 1, Len(b))
  <2>1. c \in Seq(S) /\ d \in Seq(S)
    BY <1>1
  <2> HIDE DEF c, d
  <2>2. (u \o c) \o d = u \o (c \o d)
    BY SMTT(60), <2>1, ConcatAssociative
  <2> QED
    BY <2>2 DEF c, d
<1> QED
  BY <1>1, <1>2

EchoAt(p) == Exact(Sent(p), got[p], again[p])

(* A step that changes none of the four keeps the echo.                    *)
LEMMA EchoKept ==
  ASSUME EchoExact, NEW p \in Echo,
         put'[p] = put[p] /\ buf'[p] = buf[p] /\ got'[p] = got[p] /\ again'[p] = again[p]
  PROVE  EchoAt(p)'
<1>1. Exact(put[p] \o buf[p], got[p], again[p])
  BY Zenon DEF EchoExact, Exact, Sent
<1>2. Exact(put'[p] \o buf'[p], got'[p], again'[p])
  BY <1>1, Zenon
<1> QED
  BY <1>2, Zenon DEF EchoAt, Sent, Exact

(* What is taken is sent last.                                             *)
LEMMA EchoTake ==
  ASSUME FlowInv, EchoExact, NEW p \in Echo, TakeRx(p)
  PROVE  EchoAt(p)'
<1>0. /\ p \in Process /\ p \in Reader /\ Message \in SUBSET Nat
      /\ TypeInv /\ PlaceInv /\ OrderInv /\ ReaderAt(p)
  BY Modes DEF FlowInv, Message, PlaceInv
<1> DEFINE block == SubSeq(rx, 1, n[p])
           M == Message \cup {SingleMessage}
<1>1. UNCHANGED <<put, again>> /\ pc[p] = "take" /\ n[p] \in 1 .. Block /\ buf[p] = <<>>
  BY <1>0 DEF TakeRx, Goto, ReaderAt
<1>2. \/ UNCHANGED <<buf, got>>
      \/ /\ n[p] <= Len(rx) /\ buf' = [buf EXCEPT ![p] = block]
         /\ got' = [got EXCEPT ![p] = got[p] \o block]
  BY DEF TakeRx
<1>3. CASE UNCHANGED <<buf, got>>
  BY <1>1, <1>3, EchoKept
<1>4. CASE /\ n[p] <= Len(rx) /\ buf' = [buf EXCEPT ![p] = block]
           /\ got' = [got EXCEPT ![p] = got[p] \o block]
  <2>1. /\ rx \in Seq(Message) /\ n[p] \in 0 .. Len(rx) /\ got[p] \in Seq(Message)
        /\ put[p] \in Seq(M) /\ again[p] \in Nat /\ Increasing(rx) /\ Below(got[p], rx)
    BY <1>0, <1>1, <1>4, LenProperties, CanFlowAssumption DEF TypeInv, OrderInv, Before
  <2>2. block \in Seq(Message) /\ Increasing(block) /\ Below(got[p], block)
    BY <1>0, <2>1, Cut, CutIncreases, CutBelow
  <2>3. buf'[p] = block /\ got'[p] = got[p] \o block /\ put'[p] = put[p] /\ again'[p] = again[p]
    BY <1>0, <1>1, <1>4 DEF TypeInv
  <2> HIDE DEF block
  <2>4. M \in SUBSET Nat /\ block \in Seq(M) /\ got[p] \in Seq(M)
    BY <1>0, <2>1, <2>2, SeqMonotonic DEF SingleMessage
  <2> HIDE DEF M
  <2>5. Exact(put[p], got[p], again[p])
    <3>1. Sent(p) = put[p]
      BY <1>1, <2>1, ConcatEmptySeq DEF Sent
    <3> QED
      BY <3>1 DEF EchoExact, Exact
  <2>6. Exact(put[p] \o block, got[p] \o block, again[p])
    BY <2>1, <2>2, <2>4, <2>5, ExactMore
  <2>9. Exact(put'[p] \o buf'[p], got'[p], again'[p])
    BY <2>3, <2>6, Zenon
  <2> QED
    BY <2>9, Zenon DEF EchoAt, Sent, Exact
<1> QED
  BY <1>2, <1>3, <1>4

(* A write that succeeds moves the limit between sent and unsent; one that *)
(* was done and reported as failed leaves it, and sends again.             *)
LEMMA EchoPut ==
  ASSUME FlowInv, EchoExact, NEW p \in Echo, PutTx(p)
  PROVE  EchoAt(p)'
<1>0. /\ p \in Process /\ p \in Reader /\ TypeInv /\ ReaderAt(p)
  BY Modes DEF FlowInv, PlaceInv
<1> DEFINE M == Message \cup {SingleMessage}
           k == n[p]
           done == put[p] \o Written(p)
<1>1. pc[p] = "put" /\ got' = got
  BY DEF PutTx
<1>2. /\ M \in SUBSET Nat /\ put[p] \in Seq(M) /\ buf[p] \in Seq(M) /\ got[p] \in Seq(Message)
      /\ again[p] \in Nat /\ buf[p] \in Seq(Message)
  BY <1>0 DEF TypeInv, Message, SingleMessage, ReaderAt
<1>3. k \in 0 .. Len(buf[p])
  BY <1>0, <1>1, <1>2, LenProperties DEF ReaderAt
<1>4. got[p] \in Seq(M)
  BY <1>2, SeqMonotonic
<1> HIDE DEF M, k
<1>5. Exact(put[p] \o buf[p], got[p], again[p])
  BY DEF EchoExact, Exact, Sent
<1>6. CASE PutOk(p) /\ buf' = [buf EXCEPT ![p] = Rest(p)] /\ UNCHANGED again
  <2>1. put'[p] = done /\ buf'[p] = Rest(p) /\ again'[p] = again[p]
    BY <1>0, <1>6 DEF PutOk, TypeInv
  <2>2. done \o Rest(p) = put[p] \o buf[p]
    BY <1>2, <1>3, SentStays DEF Written, Rest, k
  <2>9. Exact(put'[p] \o buf'[p], got'[p], again'[p])
    BY <1>1, <1>5, <2>1, <2>2, Zenon
  <2> QED
    BY <2>9, Zenon DEF EchoAt, Sent, Exact
<1>7. CASE PutOk(p) /\ again' = [again EXCEPT ![p] = @ + n[p]] /\ UNCHANGED buf
  <2>1. put'[p] = done /\ buf'[p] = buf[p] /\ again'[p] = again[p] + n[p]
    BY <1>0, <1>7 DEF PutOk, TypeInv
  <2>2. Exact(done \o buf[p], got[p], again[p] + n[p])
    BY <1>2, <1>3, <1>4, <1>5, ExactAgain DEF Written, k
  <2>9. Exact(put'[p] \o buf'[p], got'[p], again'[p])
    BY <1>1, <2>1, <2>2, Zenon
  <2> QED
    BY <2>9, Zenon DEF EchoAt, Sent, Exact
<1>8. CASE UNCHANGED <<put, again, buf>>
  BY <1>1, <1>8, EchoKept
<1> QED
  BY <1>6, <1>7, <1>8 DEF PutTx, PutError

(* Every step keeps the echo.                                              *)
LEMMA EchoStepExact == FlowInv /\ EchoExact /\ [Next]_vars => EchoExact'
<1> SUFFICES ASSUME FlowInv, EchoExact, [Next]_vars, NEW p \in Echo PROVE EchoAt(p)'
  BY DEF EchoExact, EchoAt, Exact
<1>0. p \in Process /\ p \notin Monitor /\ p \notin Sender /\ TypeInv
  BY Modes DEF FlowInv
<1>1. CASE UNCHANGED <<put, buf, got, again>>
  BY <1>1, EchoKept
<1>2. ASSUME NEW q \in Reader, QueryRx(q) \/ TakeRx(q) PROVE EchoAt(p)'
  <2>1. CASE QueryRx(q)
    BY <1>1, <2>1 DEF QueryRx
  <2>2. CASE TakeRx(q) /\ q # p
    <3>1. UNCHANGED <<put, again>> /\ buf'[p] = buf[p] /\ got'[p] = got[p]
      BY <1>0, <2>2, Modes DEF TakeRx, TypeInv
    <3> QED
      BY <3>1, EchoKept
  <2> QED
    BY <1>2, <2>1, <2>2, EchoTake
<1>3. ASSUME NEW q \in Echo, PutTx(q) PROVE EchoAt(p)'
  <2>1. CASE q # p
    <3>1. /\ got'[p] = got[p] /\ buf'[p] = buf[p]
      BY <1>0, <1>3, <2>1, Modes DEF PutTx, TypeInv
    <3>2. put'[p] = put[p] /\ again'[p] = again[p]
      BY <1>0, <1>3, <2>1, Modes DEF PutTx, PutError, PutOk, TypeInv
    <3> QED
      BY <3>1, <3>2, EchoKept
  <2> QED
    BY <1>3, <2>1, EchoPut
<1>4. ASSUME NEW q \in Monitor, CleanRxFifo(q) \/ PrintMessage(q) PROVE EchoAt(p)'
  <2>1. UNCHANGED <<put, got, again>> /\ (buf' = buf \/ buf' = [buf EXCEPT ![q] = Tail(@)])
    BY <1>4 DEF CleanRxFifo, PrintMessage
  <2>2. buf'[p] = buf[p]
    BY <1>0, <2>1 DEF TypeInv
  <2> QED
    BY <2>1, <2>2, EchoKept
<1>5. ASSUME NEW q \in Sender, SendPut(q) PROVE EchoAt(p)'
  <2>1. UNCHANGED <<got, buf>> /\ put'[p] = put[p] /\ again'[p] = again[p]
    BY <1>0, <1>5 DEF SendPut, PutError, PutOk, TypeInv
  <2> QED
    BY <2>1, EchoKept
<1>6. ASSUME NEW q \in Process, QueryTx(q) \/ SendQuery(q) PROVE EchoAt(p)'
  BY <1>1, <1>6 DEF QueryTx, SendQuery
<1>7. CASE CanArrive \/ CanDepart \/ UNCHANGED vars
  BY <1>1, <1>7 DEF CanArrive, CanDepart, vars
<1>8. ASSUME NEW q \in Echo, EchoStep(q) PROVE EchoAt(p)'
  BY <1>2, <1>3, <1>6, <1>8, Modes DEF EchoStep
<1>9. ASSUME NEW q \in Monitor, MonitorStep(q) PROVE EchoAt(p)'
  BY <1>2, <1>4, <1>9, Modes DEF MonitorStep
<1>10. ASSUME NEW q \in Sender, SenderStep(q) PROVE EchoAt(p)'
  BY <1>5, <1>6, <1>10, Modes DEF SenderStep
<1> QED
  BY <1>7, <1>8, <1>9, <1>10 DEF Next

(* The echo test forgets none of the messages it has received, sends none  *)
(* before an earlier one, and sends again only those of writes that were   *)
(* done and reported as failed (run.c:438-448), whatever blocks its reads  *)
(* and its writes are cut to.                                              *)
THEOREM EchoIsExact == Spec => []EchoExact
<1>1. Init => EchoExact
  <2> SUFFICES ASSUME Init, NEW p \in Echo PROVE EchoAt(p)
    BY DEF EchoExact, EchoAt, Exact
  <2>1. put[p] = <<>> /\ buf[p] = <<>> /\ got[p] = <<>> /\ again[p] = 0
    BY Modes DEF Init
  <2>2. Sent(p) = <<>>
    BY <2>1, EmptySeq, ConcatEmptySeq DEF Sent
  <2>3. Len(<<>>) = 0 /\ \A i \in DOMAIN <<>> : FALSE
    BY EmptySeq
  <2> QED
    BY <2>1, <2>2, <2>3 DEF EchoAt, Exact
<1> QED
  BY <1>1, FlowInit, FlowStep, EchoStepExact, PTL DEF Spec

-----------------------------------------------------------------------------
(* Times                                                                   *)

LEMMA AboveOne ==
  ASSUME NEW m, NEW s
  PROVE  Below(<<m>>, s) <=> \A i \in DOMAIN s : m < s[i]
<1>1. DOMAIN <<m>> = {1} /\ <<m>>[1] = m
  OBVIOUS
<1> QED
  BY <1>1 DEF Below

(* The times of the messages do not go back.                               *)
LEMMA ClockStep == TypeInv /\ ClockInv /\ [Next]_vars => ClockInv'
<1> SUFFICES ASSUME TypeInv, ClockInv, [Next]_vars PROVE ClockInv'
  OBVIOUS
<1>1. CASE when' = when
  BY <1>1 DEF ClockInv
<1>2. CASE CanArrive
  <2>1. /\ when \in Seq(Nat) /\ Len(when) \in Nat /\ DOMAIN when = 1 .. Len(when)
        /\ \A i \in 1 .. Len(when) : when[i] \in Nat
    BY LenProperties DEF TypeInv
  <2>2. /\ when' \in Seq(Nat) /\ Len(when') = Len(when) + 1
        /\ \A i \in 1 .. Len(when) : when'[i] = when[i]
        /\ when # <<>> => when'[Len(when) + 1] >= when[Len(when)]
    BY <1>2, ArriveWhen
  <2>3. DOMAIN when' = 1 .. Len(when) + 1 /\ when'[Len(when) + 1] \in Nat
    BY <2>1, <2>2, LenProperties
  <2>4. ASSUME NEW i \in 1 .. Len(when) + 1, NEW j \in 1 .. Len(when) + 1, i < j
        PROVE  when'[i] <= when'[j]
    <3>1. CASE j <= Len(when)
      <4>1. i \in 1 .. Len(when) /\ j \in 1 .. Len(when)
        BY <2>1, <2>4, <3>1
      <4>2. when[i] <= when[j]
        BY <2>1, <2>4, <4>1 DEF ClockInv
      <4> QED
        BY <2>2, <4>1, <4>2
    <3>2. CASE j = Len(when) + 1
      <4>1. i \in 1 .. Len(when) /\ Len(when) \in 1 .. Len(when) /\ when # <<>>
        BY <2>1, <2>4, <3>2
      <4>2. when[i] <= when[Len(when)]
        <5>1. CASE i = Len(when)
          BY <2>1, <4>1, <5>1
        <5>2. CASE i < Len(when)
          BY SMTT(30), <2>1, <4>1, <5>2 DEF ClockInv
        <5>3. i = Len(when) \/ i < Len(when)
          <6>1. i \in Nat /\ Len(when) \in Nat /\ i <= Len(when)
            BY <2>1, <4>1
          <6> QED
            BY <6>1
        <5> QED
          BY <5>1, <5>2, <5>3
      <4> QED
        BY <2>1, <2>2, <2>3, <3>2, <4>1, <4>2
    <3> QED
      BY <2>1, <2>4, <3>1, <3>2
  <2> QED
    BY <2>3, <2>4 DEF ClockInv
<1>3. CASE ~CanArrive
  BY <1>1, <1>3 DEF Next, vars, CanDepart, EchoStep, MonitorStep, SenderStep, QueryRx, TakeRx,
     QueryTx, PutTx, CleanRxFifo, PrintMessage, SendQuery, SendPut
<1> QED
  BY <1>2, <1>3

(* What a monitor has printed stays before the rest, when the rest only    *)
(* loses messages, moves, or gets ones that arrive.                        *)
LEMMA PrintedKept ==
  ASSUME TypeInv, NEW p \in Monitor, PrintedInv(p), asc'[p] = asc[p],
         Len(when') \in Nat, Len(when) <= Len(when'),
         \A i \in 1 .. Len(when) : when'[i] = when[i],
         \A m \in 1 .. Len(when) : Below(<<m>>, buf[p]) /\ Below(<<m>>, rx)
            => Below(<<m>>, buf'[p]) /\ Below(<<m>>, rx')
  PROVE  PrintedInv(p)'
<1>1. PICK m \in 1 .. Len(when) : /\ asc[p].at = when[m] /\ asc[p].last = CanTime(m)
                                  /\ Below(<<m>>, buf[p]) /\ Below(<<m>>, rx)
  BY DEF PrintedInv
<1>2. m \in 1 .. Len(when')
  BY LenProperties DEF TypeInv
<1>3. when'[m] = when[m] /\ CanTime(m)' = CanTime(m)
  BY DEF CanTime
<1> QED
  BY <1>1, <1>2, <1>3, Zenon DEF PrintedInv

(* A time is the sum of the times between.                                 *)
LEMMA MicrosAdd ==
  ASSUME NEW a \in Nat, NEW b \in Nat, NEW c \in Nat
  PROVE  Micros(a - b) + Micros(c - a) = Micros(c - b)
BY DEF Micros

(* A monitor that prints: the message is one that has arrived, it is       *)
(* before the rest, and the time since the last one is right if it fits.   *)
LEMMA PrintTimed ==
  ASSUME FlowInv, TimeInv, NEW p \in Monitor, PrintMessage(p)
  PROVE  /\ PrintedInv(p)' /\ AscTyped'
         /\ Drifts(asc'[p])
         /\ \A q \in Monitor : q # p => asc'[q] = asc[q]
<1> DEFINE m == Head(buf[p])
           b == buf[p]
<1>0. /\ p \in Process /\ p \in Reader /\ Message \in SUBSET Nat
      /\ TypeInv /\ PlaceInv /\ OrderInv /\ ReaderAt(p)
  BY Modes DEF FlowInv, Message, PlaceInv
<1>1. /\ pc[p] = "handle" /\ UNCHANGED <<when, rx>>
      /\ buf' = [buf EXCEPT ![p] = Tail(@)]
      /\ asc' = [asc EXCEPT ![p] =
           IF asc[p].once
             THEN [asc[p] EXCEPT !.once = FALSE, !.rtime = 0, !.last = CanTime(m),
                                 !.first = when[m], !.at = when[m], !.later = 0]
             ELSE [asc[p] EXCEPT !.rtime = @ + Micros(TimePassed(CanTime(m), asc[p].last)) + 1,
                                 !.last = CanTime(m), !.at = when[m], !.later = @ + 1,
                                 !.fits = @ /\ when[m] - asc[p].at < Word]]
  BY DEF PrintMessage
<1>2. b \in Seq(Message) /\ b # <<>> /\ Len(b) \in Nat \ {0} /\ DOMAIN b = 1 .. Len(b)
  BY <1>0, <1>1, EmptySeq, LenProperties DEF ReaderAt
<1>3. m = b[1] /\ 1 \in 1 .. Len(b) /\ b[1] \in Message
  BY <1>2, ElementOfSeq
<1>4. Before(b)
  BY <1>0 DEF OrderInv
<1>5. /\ when \in Seq(Nat) /\ Len(when) \in Nat /\ DOMAIN when = 1 .. Len(when)
      /\ m \in 1 .. Len(when) /\ when[m] \in Nat
  <2>1. m <= Len(when) /\ m \in Nat /\ m >= 1
    BY <1>2, <1>3, <1>4 DEF Before, UpTo, Message
  <2>2. when \in Seq(Nat) /\ Len(when) \in Nat /\ DOMAIN when = 1 .. Len(when)
    BY <1>0, LenProperties DEF TypeInv
  <2>3. m \in 1 .. Len(when)
    BY <2>1, <2>2
  <2> QED
    BY <2>2, <2>3, ElementOfSeq
<1>6. buf'[p] = Tail(b) /\ Below(<<m>>, Tail(b)) /\ Below(<<m>>, rx)
  <2>1. /\ Tail(b) = SubSeq(b, 1 + 1, Len(b)) /\ 1 \in 0 .. Len(b)
    BY <1>2, TailIsSubSeq
  <2>2. Below(SubSeq(b, 1, 1), Tail(b))
    BY <1>0, <1>2, <1>4, <2>1, CutIncreases DEF Before
  <2>3. Len(SubSeq(b, 1, 1)) = 1 /\ SubSeq(b, 1, 1) \in Seq(Message) /\ SubSeq(b, 1, 1)[1] = b[1]
    BY <1>2, <2>1, Cut
  <2>4. \A i \in DOMAIN Tail(b) : m < Tail(b)[i]
    BY <1>3, <2>2, <2>3, LenProperties DEF Below
  <2>5. \A i \in DOMAIN rx : m < rx[i]
    BY <1>2, <1>3, <1>4 DEF Before, Below
  <2>6. buf'[p] = Tail(b)
    BY <1>0, <1>1 DEF TypeInv
  <2> QED
    BY <2>4, <2>5, <2>6, AboveOne
<1> HIDE DEF m, b
<1>7. CanTime(m) = when[m] % Word /\ CanTime(m) \in Nat /\ Word \in Nat \ {0}
  BY <1>5, CanFlowAssumption DEF CanTime
<1> DEFINE s == asc[p]
           t == asc'[p]
<1>8. s \in AscRecord
  BY DEF TimeInv, AscTyped
<1>9. /\ t = IF s.once
                THEN [s EXCEPT !.once = FALSE, !.rtime = 0, !.last = CanTime(m),
                               !.first = when[m], !.at = when[m], !.later = 0]
                ELSE [s EXCEPT !.rtime = @ + Micros(TimePassed(CanTime(m), s.last)) + 1,
                               !.last = CanTime(m), !.at = when[m], !.later = @ + 1,
                               !.fits = @ /\ when[m] - s.at < Word]
      /\ \A q \in Monitor : q # p => asc'[q] = asc[q]
  BY <1>1, Zenon DEF TimeInv, AscTyped
<1> HIDE DEF s, t
<1>10. /\ t.last = CanTime(m) /\ t.at = when[m] /\ t \in AscRecord
       /\ Drifts(t)
  <2>1. CASE s.once
    <3>1. /\ t.rtime = 0 /\ t.last = CanTime(m) /\ t.first = when[m] /\ t.at = when[m] /\ t.later = 0
          /\ t \in AscRecord
      BY <1>5, <1>7, <1>8, <1>9, <2>1 DEF AscRecord
    <3> QED
      BY <1>5, <3>1 DEF Drifts, Micros
  <2>2. CASE ~s.once
    <3> DEFINE d == TimePassed(CanTime(m), s.last)
               f == s.fits /\ when[m] - s.at < Word
    <3>1. d \in Nat /\ s.last \in Nat /\ s.at \in Nat /\ s.first \in Nat /\ s.rtime \in Nat
          /\ s.later \in Nat
      BY <1>7, <1>8 DEF TimePassed, AscRecord
    <3>2. f \in BOOLEAN
      BY <1>8, Zenon DEF AscRecord
    <3>3. t = [s EXCEPT !.rtime = s.rtime + Micros(d) + 1, !.last = CanTime(m), !.at = when[m],
                         !.later = s.later + 1, !.fits = f]
      BY <1>9, <2>2, Zenon
    <3>4. Drifts(s)
      BY DEF s, TimeInv, AscTimeDrift, Drifts
    <3>5. PICK l \in 1 .. Len(when) : /\ s.at = when[l] /\ s.last = CanTime(l)
                                      /\ Below(<<l>>, buf[p])
      BY <2>2 DEF s, TimeInv, PrintedInv
    <3>6. when[l] <= when[m]
      <4>1. l < m
        BY <1>2, <1>3, <3>5, AboveOne DEF b
      <4> QED
        BY <1>5, <3>5, <4>1 DEF TimeInv, ClockInv
    <3>7. when[l] \in Nat /\ (when[m] - when[l] < Word => d = when[m] - when[l])
      <4>1. when[l] \in Nat
        BY <3>1, <3>5
      <4>2. s.last = when[l] % Word
        BY <3>5 DEF CanTime
      <4>3. d = ((when[m] % Word) - (when[l] % Word)) % Word
        BY <1>7, <4>2 DEF TimePassed
      <4>4. when[m] - when[l] < Word
              => ((when[m] % Word) - (when[l] % Word)) % Word = when[m] - when[l]
        BY <1>5, <1>7, <3>6, <4>1, CutDifference
      <4> QED
        BY <4>1, <4>3, <4>4
    <3>8. f => s.fits /\ when[m] - s.at < Word
      OBVIOUS
    <3> HIDE DEF d, f
    <3>9. /\ t.rtime = s.rtime + Micros(d) + 1 /\ t.later = s.later + 1
          /\ t.last = CanTime(m) /\ t.first = s.first /\ t.at = when[m]
          /\ t.fits = f /\ t \in AscRecord
      <4>1. /\ t.rtime = s.rtime + Micros(d) + 1 /\ t.later = s.later + 1
            /\ t.last = CanTime(m) /\ t.first = s.first
            /\ t.at = when[m]
        BY <1>8, <3>3 DEF AscRecord
      <4>2. t.fits = f
        BY <1>8, <3>3, Zenon DEF AscRecord
      <4>3. s.rtime + Micros(d) + 1 \in Nat /\ s.later + 1 \in Nat
        BY <3>1 DEF Micros
      <4>4. t \in AscRecord
        BY <1>5, <1>7, <1>8, <3>2, <3>3, <4>3 DEF AscRecord
      <4> QED
        BY <4>1, <4>2, <4>4, Zenon
    <3>10. ASSUME t.fits PROVE t.rtime = Micros(t.at - t.first) + t.later
      <4>1. f
        BY <3>9, <3>10, Zenon
      <4>2. s.rtime = Micros(s.at - s.first) + s.later /\ d = when[m] - when[l] /\ s.at = when[l]
        BY <3>4, <3>5, <3>7, <3>8, <4>1 DEF Drifts
      <4>3. /\ t.rtime = s.rtime + Micros(d) + 1 /\ t.later = s.later + 1
            /\ t.first = s.first /\ t.at = when[m]
        BY <3>9
      <4> QED
        <5>1. Micros(s.at - s.first) + Micros(d) = Micros(when[m] - s.first)
          <6>1. d = when[m] - s.at
            BY <4>2
          <6>2. Micros(s.at - s.first) + Micros(when[m] - s.at) = Micros(when[m] - s.first)
            BY ZenonT(40), <1>5, <3>1, MicrosAdd
          <6> QED
            BY <6>1, <6>2
        <5>2. Micros(s.at - s.first) \in Int /\ Micros(d) \in Int
          BY <3>1 DEF Micros
        <5>3. t.rtime = Micros(when[m] - s.first) + (s.later + 1)
          BY <3>1, <4>2, <4>3, <5>1, <5>2
        <5> QED
          BY <4>3, <5>3
    <3> QED
      BY <3>9, <3>10, Zenon DEF Drifts
  <2> QED
    BY <2>1, <2>2
<1>11. AscTyped'
  <2>1. asc' = [asc EXCEPT ![p] = t] /\ asc \in [Monitor -> AscRecord]
    BY <1>1, Zenon DEF t, TimeInv, AscTyped
  <2>2. asc' \in [Monitor -> AscRecord]
    BY <1>10, <2>1
  <2> QED
    BY <2>2 DEF AscTyped
<1>12. PrintedInv(p)'
  <2>1. PICK x \in 1 .. Len(when) : x = m
    BY <1>5
  <2>2. when' = when /\ rx' = rx /\ CanTime(x)' = CanTime(x)
    BY <1>1 DEF CanTime
  <2>3. /\ asc'[p].at = when'[x] /\ asc'[p].last = CanTime(x)'
        /\ Below(<<x>>, buf'[p]) /\ Below(<<x>>, rx')
    BY <1>6, <1>10, <2>1, <2>2 DEF t, b, m
  <2>4. x \in 1 .. Len(when')
    BY <2>1, <2>2
  <2> QED
    BY <2>3, <2>4, Zenon DEF PrintedInv
<1> QED
  BY <1>9, <1>10, <1>11, <1>12 DEF t

(* A step that prints nothing keeps the times, if what is left to print    *)
(* was so before.                                                          *)
LEMMA TimesKept ==
  ASSUME TypeInv, TimeInv, [Next]_vars, asc' = asc, UNCHANGED when \/ CanArrive,
         NEW p \in Monitor,
         \A m \in 1 .. Len(when) : Below(<<m>>, buf[p]) /\ Below(<<m>>, rx)
            => Below(<<m>>, buf'[p]) /\ Below(<<m>>, rx')
  PROVE  ~asc'[p].once => PrintedInv(p)'
<1> SUFFICES ASSUME ~asc'[p].once PROVE PrintedInv(p)'
  OBVIOUS
<1>1. PrintedInv(p) /\ asc'[p] = asc[p]
  BY DEF TimeInv
<1>2. /\ Len(when) \in Nat /\ Len(when') \in Nat /\ Len(when) <= Len(when')
      /\ \A i \in 1 .. Len(when) : when'[i] = when[i]
  <2>1. Len(when) \in Nat
    BY LenProperties DEF TypeInv
  <2>2. CASE UNCHANGED when
    BY <2>1, <2>2
  <2>3. CASE CanArrive
    BY <2>1, <2>3, ArriveWhen
  <2> QED
    BY <2>2, <2>3
<1> QED
  BY <1>1, <1>2, PrintedKept

(* Every step keeps the times.                                             *)
LEMMA TimeStep == FlowInv /\ TimeInv /\ [Next]_vars => TimeInv'
<1> SUFFICES ASSUME FlowInv, TimeInv, [Next]_vars PROVE TimeInv'
  OBVIOUS
<1>0. TypeInv /\ PlaceInv /\ OrderInv /\ ClockInv'
  BY ClockStep DEF FlowInv, TimeInv
<1>1. ASSUME asc' = asc, UNCHANGED when \/ CanArrive,
             \A p \in Monitor : \A m \in 1 .. Len(when) :
               Below(<<m>>, buf[p]) /\ Below(<<m>>, rx) => Below(<<m>>, buf'[p]) /\ Below(<<m>>, rx')
      PROVE  TimeInv'
  <2>1. \A p \in Monitor : ~asc'[p].once => PrintedInv(p)'
    BY <1>0, <1>1, TimesKept
  <2>2. AscTyped' /\ AscTimeDrift'
    BY <1>1 DEF TimeInv, AscTyped, AscTimeDrift
  <2> QED
    BY <1>0, <2>1, <2>2 DEF TimeInv
<1>2. CASE UNCHANGED <<when, rx, buf, asc>>
  BY <1>1, <1>2
<1>3. ASSUME NEW q \in Reader, QueryRx(q) \/ TakeRx(q) PROVE TimeInv'
  <2>1. CASE QueryRx(q)
    BY <1>2, <2>1 DEF QueryRx
  <2>2. CASE TakeRx(q)
    <3>1. UNCHANGED <<when, asc>> /\ rx \in Seq(Message) /\ Len(rx) \in Nat
          /\ n[q] \in 1 .. Block /\ q \in Process
      BY <1>0, <2>2, LenProperties, Modes DEF TakeRx, Goto, PlaceInv, ReaderAt, TypeInv
    <3>2. CASE rx' = rx /\ buf' = buf
      BY <1>2, <3>1, <3>2
    <3>3. CASE /\ n[q] <= Len(rx) /\ rx' = SubSeq(rx, n[q] + 1, Len(rx))
               /\ (buf' = buf \/ buf' = [buf EXCEPT ![q] = SubSeq(rx, 1, n[q])])
      <4>1. n[q] \in 0 .. Len(rx)
        BY <3>1, <3>3, CanFlowAssumption
      <4>2. \A m : Below(<<m>>, rx) => Below(<<m>>, rx') /\ Below(<<m>>, SubSeq(rx, 1, n[q]))
        BY <3>1, <3>3, <4>1, CutBelow
      <4>3. \A p \in Monitor : buf'[p] = buf[p] \/ buf'[p] = SubSeq(rx, 1, n[q])
        BY <1>0, <3>1, <3>3, Modes DEF TypeInv
      <4> QED
        BY <1>1, <3>1, <4>2, <4>3
    <3> QED
      BY <2>2, <3>2, <3>3 DEF TakeRx, RxAfter
  <2> QED
    BY <1>3, <2>1, <2>2
<1>4. ASSUME NEW q \in Echo, PutTx(q) PROVE TimeInv'
  <2>1. UNCHANGED <<when, rx, asc>> /\ \A p \in Monitor : buf'[p] = buf[p]
    BY <1>0, <1>4, Modes DEF PutTx, TypeInv
  <2> QED
    BY <1>1, <2>1
<1>5. ASSUME NEW q \in Monitor, CleanRxFifo(q) PROVE TimeInv'
  <2>1. UNCHANGED <<when, buf, asc>> /\ (rx' = rx \/ rx' = <<>>)
    BY <1>5 DEF CleanRxFifo
  <2>2. \A m : Below(<<m>>, rx) => Below(<<m>>, rx')
    BY <2>1, EmptyOrder
  <2> QED
    BY <1>1, <2>1, <2>2
<1>6. ASSUME NEW q \in Monitor, PrintMessage(q) PROVE TimeInv'
  <2>1. /\ UNCHANGED <<when, rx>> /\ q \in Process
        /\ \A p \in Monitor : p # q => buf'[p] = buf[p]
    BY <1>0, <1>6, Modes DEF PrintMessage, TypeInv
  <2>2. /\ PrintedInv(q)' /\ AscTyped'
        /\ Drifts(asc'[q])
        /\ \A p \in Monitor : p # q => asc'[p] = asc[p]
    BY <1>6, PrintTimed
  <2>3. AscTimeDrift'
    <3>1. \A p \in Monitor : Drifts(asc[p])
      BY Zenon DEF TimeInv, AscTimeDrift, Drifts
    <3>2. \A p \in Monitor : Drifts(asc'[p])
      BY <2>2, <3>1, Zenon
    <3> QED
      BY <3>2, Zenon DEF AscTimeDrift, Drifts
  <2>4. ASSUME NEW p \in Monitor, p # q, ~asc'[p].once PROVE PrintedInv(p)'
    <3>1. PrintedInv(p) /\ asc'[p] = asc[p] /\ buf'[p] = buf[p]
      BY <2>1, <2>2, <2>4 DEF TimeInv
    <3>2. Len(when') \in Nat /\ Len(when) <= Len(when')
      BY <1>0, <2>1, LenProperties DEF TypeInv
    <3> QED
      BY <1>0, <2>1, <3>1, <3>2, PrintedKept
  <2> QED
    BY <1>0, <2>2, <2>3, <2>4 DEF TimeInv
<1>7. CASE CanArrive
  <2>1. /\ UNCHANGED <<buf, asc>> /\ rx \in Seq(Message) /\ Message \in SUBSET Nat
        /\ rx' = IF Len(rx) < RxCapacity THEN Append(rx, Len(when')) ELSE rx
    BY <1>0, <1>7 DEF CanArrive, TypeInv, Message
  <2>2. /\ Len(when') \in Message /\ Len(when) \in Nat /\ Len(when) < Len(when')
    <3>1. when \in Seq(Nat)
      BY <1>0 DEF TypeInv
    <3>2. Len(when) \in Nat
      BY <3>1, LenProperties
    <3>3. Len(when') = Len(when) + 1 /\ Len(when') <= MaxMsgs
      BY <1>0, <1>7, ArriveWhen
    <3> QED
      BY <3>2, <3>3, CanFlowAssumption DEF Message
  <2>3. ASSUME NEW m \in 1 .. Len(when), Below(<<m>>, rx) PROVE Below(<<m>>, rx')
    <3>1. m \in Message
      BY <2>2, CanFlowAssumption DEF Message
    <3>2. <<m>> \in Seq(Message) /\ UpTo(<<m>>, Len(when))
      <4>1. DOMAIN <<m>> = {1} /\ <<m>>[1] = m /\ <<m>> \in Seq(Message)
        BY <3>1
      <4> QED
        BY <4>1 DEF UpTo
    <3>3. Below(<<m>>, Append(rx, Len(when')))
      BY <1>0, <2>1, <2>2, <2>3, <3>2, AppendedLast DEF OrderInv
    <3> QED
      BY <2>1, <2>3, <3>3
  <2> QED
    BY <1>1, <1>7, <2>1, <2>3
<1>8. ASSUME NEW q \in Process, QueryTx(q) \/ SendQuery(q) \/ SendPut(q) PROVE TimeInv'
  BY <1>2, <1>8 DEF QueryTx, SendQuery, SendPut
<1>9. CASE CanDepart \/ UNCHANGED vars
  BY <1>2, <1>9 DEF CanDepart, vars
<1>10. ASSUME NEW q \in Echo, EchoStep(q) PROVE TimeInv'
  BY <1>3, <1>4, <1>8, <1>10, Modes DEF EchoStep
<1>11. ASSUME NEW q \in Monitor, MonitorStep(q) PROVE TimeInv'
  BY <1>3, <1>5, <1>6, <1>11, Modes DEF MonitorStep
<1>12. ASSUME NEW q \in Sender, SenderStep(q) PROVE TimeInv'
  BY <1>8, <1>12, Modes DEF SenderStep
<1> QED
  BY <1>7, <1>9, <1>10, <1>11, <1>12 DEF Next

(* The time the monitor prints is the time since its first message, ahead  *)
(* of it by one microsecond for each later message, for any width of       *)
(* can_time, as long as no two messages it prints in a row are a whole     *)
(* turn of it apart (run.c:388-409): what it adds are the differences of   *)
(* cut times, and the 0.000001 of run.c:396.                               *)
THEOREM TimesDrift == Spec => []AscTimeDrift
<1>1. Init => TimeInv
  <2> SUFFICES ASSUME Init PROVE TimeInv
    OBVIOUS
  <2>1. AscTyped
    <3>1. 0 \in Nat
      OBVIOUS
    <3> QED
      BY <3>1, Zenon DEF Init, AscTyped, AscRecord
  <2>2. ClockInv
    BY DEF Init, ClockInv
  <2>3. ASSUME NEW p \in Monitor PROVE asc[p].once /\ Drifts(asc[p])
    BY DEF Init, Drifts, Micros
  <2>4. AscTimeDrift
    BY <2>3, Zenon DEF AscTimeDrift, Drifts
  <2> QED
    BY <2>1, <2>2, <2>3, <2>4 DEF TimeInv
<1>2. TimeInv => AscTimeDrift
  BY DEF TimeInv
<1> QED
  BY <1>1, <1>2, FlowInit, FlowStep, TimeStep, PTL DEF Spec

=============================================================================
