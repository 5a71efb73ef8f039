-------------------------- MODULE StreamCacheProofs --------------------------
(***************************************************************************)
(* The readers of a batch, however many, share one physical reader and one     *)
(* cache whose count of bytes is right, and none of them reads once Close has   *)
(* returned (StreamCache!Shared).  First what the weight of a cache is worth,   *)
(* by induction over its length: the induction principle is the well-founded    *)
(* order of the numbers, applied to a set instead of a predicate.              *)
(***************************************************************************)
EXTENDS StreamCache, TLAPS, FiniteSetTheorems, SequenceTheorems

(* A set of numbers that has 0 and every successor has them all. *)
LEMMA NumbersByInduction ==
    ASSUME NEW S, 0 \in S, \A n \in Nat : n \in S => n + 1 \in S
    PROVE  Nat \subseteq S
<1> DEFINE R == {ss \in Nat \X Nat : ss[1] < ss[2]}
<1>1. IsWellFoundedOn(R, Nat)
  BY NatLessThanWellFounded DEF OpToRel
<1>2. \A n \in Nat : <<n, n + 1>> \in R
  OBVIOUS
<1> HIDE DEF R
<1>3. SUFFICES ASSUME Nat \ S # {} PROVE FALSE
  OBVIOUS
<1>4. PICK x \in Nat \ S : \A y \in Nat \ S : <<y, x>> \notin R
  BY <1>1, <1>3, WFMin
<1>5. x - 1 \in Nat /\ (x - 1) + 1 = x
  BY <1>4
<1>6. x - 1 \notin S
  BY <1>5
<1> QED
  BY <1>2, <1>4, <1>5, <1>6

-----------------------------------------------------------------------------
(* The weight of a cache *)

LEMMA SizeType == \A k \in Keys : Size[k] \in Nat
BY StreamAssumption

(* The sums of a sequence are the ones their equation asks for. *)
LEMMA SumsDefined ==
    ASSUME NEW keys \in Seq(Keys)
    PROVE  Sums(keys) = [i \in 0..Len(keys) |->
               IF i = 0 THEN 0 ELSE Sums(keys)[i - 1] + Size[keys[i]]]
<1> DEFINE Equation(f, n) == f = [i \in 0..n |->
               IF i = 0 THEN 0 ELSE f[i - 1] + Size[keys[i]]]
           S == {n \in Nat : \E f : Equation(f, n)}
<1>1. 0 \in S
  <2>1. Equation([i \in 0..0 |-> 0], 0)
    OBVIOUS
  <2> QED  BY <2>1
<1>2. ASSUME NEW n \in Nat, n \in S PROVE n + 1 \in S
  <2>1. PICK f : Equation(f, n)
    BY <1>2
  <2> DEFINE g == [i \in 0..(n + 1) |->
                     IF i \in 0..n THEN f[i] ELSE f[n] + Size[keys[n + 1]]]
  <2>2. Equation(g, n + 1)
    <3>1. ASSUME NEW i \in 0..(n + 1)
          PROVE  g[i] = IF i = 0 THEN 0 ELSE g[i - 1] + Size[keys[i]]
      <4>1. CASE i = 0
        <5>1. g[i] = f[0] /\ f[0] = 0
          BY <4>1, <2>1
        <5> QED  BY <4>1, <5>1
      <4>2. CASE i \in 1..n
        <5>1. g[i] = f[i] /\ g[i - 1] = f[i - 1]
          BY <4>2
        <5>2. f[i] = f[i - 1] + Size[keys[i]]
          BY <4>2, <2>1
        <5> QED  BY <4>2, <5>1, <5>2
      <4>3. CASE i = n + 1
        <5>1. g[i] = f[n] + Size[keys[n + 1]] /\ g[i - 1] = f[n]
          BY <4>3
        <5> QED  BY <4>3, <5>1
      <4> QED  BY <4>1, <4>2, <4>3
    <3> HIDE DEF g
    <3>2. g = [i \in 0..(n + 1) |-> g[i]]
      BY DEF g
    <3> QED  BY <3>1, <3>2
  <2> HIDE DEF Equation
  <2> QED  BY <2>2
<1>3. Len(keys) \in S
  <2> HIDE DEF S
  <2>1. Nat \subseteq S
    BY <1>1, <1>2, NumbersByInduction
  <2> QED  BY <2>1
<1>4. PICK f : Equation(f, Len(keys))
  BY <1>3
<1>5. Sums(keys) = CHOOSE sum : Equation(sum, Len(keys))
  BY DEF Sums
<1>6. Equation(Sums(keys), Len(keys))
  BY <1>4, <1>5
<1> QED  BY <1>6

LEMMA SumsStep ==
    ASSUME NEW keys \in Seq(Keys)
    PROVE  /\ Sums(keys)[0] = 0
           /\ \A i \in 1..Len(keys) :
                  Sums(keys)[i] = Sums(keys)[i - 1] + Size[keys[i]]
<1> DEFINE sum == Sums(keys)
           equation == [i \in 0..Len(keys) |->
                           IF i = 0 THEN 0 ELSE sum[i - 1] + Size[keys[i]]]
<1>1. sum = equation
  BY SumsDefined
<1> HIDE DEF sum
<1>2. /\ equation[0] = 0
      /\ \A i \in 1..Len(keys) : equation[i] = sum[i - 1] + Size[keys[i]]
  OBVIOUS
<1> HIDE DEF equation
<1>3. sum[0] = 0 /\ \A i \in 1..Len(keys) : sum[i] = sum[i - 1] + Size[keys[i]]
  BY <1>1, <1>2
<1> QED  BY <1>3 DEF sum

LEMMA SumsType ==
    ASSUME NEW keys \in Seq(Keys)
    PROVE  \A i \in 0..Len(keys) : Sums(keys)[i] \in Nat
<1> DEFINE S == {n \in Nat : n <= Len(keys) => Sums(keys)[n] \in Nat}
<1>1. 0 \in S
  BY SumsStep
<1>2. ASSUME NEW n \in Nat, n \in S PROVE n + 1 \in S
  <2>1. SUFFICES ASSUME n + 1 <= Len(keys) PROVE Sums(keys)[n + 1] \in Nat
    OBVIOUS
  <2>2. n + 1 \in 1..Len(keys) /\ (n + 1) - 1 = n
    BY <2>1
  <2>3. Sums(keys)[n + 1] = Sums(keys)[n] + Size[keys[n + 1]]
    BY <2>2, SumsStep
  <2>4. Sums(keys)[n] \in Nat
    BY <1>2, <2>1
  <2>5. Size[keys[n + 1]] \in Nat
    BY <2>2, SizeType
  <2> QED  BY <2>3, <2>4, <2>5
<1>3. Nat \subseteq S
  <2> HIDE DEF S
  <2> QED  BY <1>1, <1>2, NumbersByInduction
<1> QED  BY <1>3

(* m blocks of s after the a-th are the m blocks of t after the b-th. *)
Alike(s, a, t, b, m) ==
    /\ s \in Seq(Keys) /\ t \in Seq(Keys) /\ a \in Nat /\ b \in Nat /\ m \in Nat
    /\ a + m <= Len(s) /\ b + m <= Len(t)
    /\ \A j \in 1..m : s[a + j] = t[b + j]

(* Where two sequences agree, their sums grow alike. *)
LEMMA SumsAgree ==
    ASSUME NEW s, NEW a, NEW t, NEW b, NEW m, Alike(s, a, t, b, m)
    PROVE  Sums(s)[a + m] + Sums(t)[b] = Sums(t)[b + m] + Sums(s)[a]
<1> DEFINE S == {n \in Nat : n <= m =>
               Sums(s)[a + n] + Sums(t)[b] = Sums(t)[b + n] + Sums(s)[a]}
<1> /\ s \in Seq(Keys) /\ t \in Seq(Keys) /\ a \in Nat /\ b \in Nat /\ m \in Nat
    /\ a + m <= Len(s) /\ b + m <= Len(t)
    /\ \A j \in 1..m : s[a + j] = t[b + j]
  BY DEF Alike
<1>0. /\ \A i \in 0..Len(s) : Sums(s)[i] \in Nat
      /\ \A i \in 0..Len(t) : Sums(t)[i] \in Nat
  BY SumsType
<1>1. 0 \in S
  <2>1. Sums(s)[a] \in Nat /\ Sums(t)[b] \in Nat
    BY <1>0
  <2>2. a + 0 = a /\ b + 0 = b
    OBVIOUS
  <2> QED  BY <2>1, <2>2
<1>2. ASSUME NEW n \in Nat, n \in S PROVE n + 1 \in S
  <2>1. SUFFICES ASSUME n + 1 <= m
                 PROVE  Sums(s)[a + (n + 1)] + Sums(t)[b]
                          = Sums(t)[b + (n + 1)] + Sums(s)[a]
    OBVIOUS
  <2>2. /\ a + (n + 1) \in 1..Len(s) /\ (a + (n + 1)) - 1 = a + n
        /\ b + (n + 1) \in 1..Len(t) /\ (b + (n + 1)) - 1 = b + n
        /\ n + 1 \in 1..m
    BY <2>1
  <2>3. /\ Sums(s)[a + (n + 1)] = Sums(s)[a + n] + Size[s[a + (n + 1)]]
        /\ Sums(t)[b + (n + 1)] = Sums(t)[b + n] + Size[t[b + (n + 1)]]
    BY <2>2, SumsStep
  <2>4. s[a + (n + 1)] = t[b + (n + 1)]
    BY <2>2
  <2>5. Size[t[b + (n + 1)]] \in Nat
    <3>1. t[b + (n + 1)] \in Keys
      BY ONLY t \in Seq(Keys), <2>2
    <3> QED  BY ONLY <3>1, SizeType
  <2>6. /\ Sums(s)[a + n] \in Nat /\ Sums(s)[a] \in Nat
        /\ Sums(t)[b + n] \in Nat /\ Sums(t)[b] \in Nat
    <3>1. a + n \in 0..Len(s) /\ a \in 0..Len(s) /\ b + n \in 0..Len(t) /\ b \in 0..Len(t)
      BY <2>1
    <3> QED  BY ONLY <1>0, <3>1
  <2>7. Sums(s)[a + n] + Sums(t)[b] = Sums(t)[b + n] + Sums(s)[a]
    BY <1>2, <2>1
  <2> DEFINE x == Sums(s)[a + n]  y == Sums(t)[b + n]
             u == Sums(s)[a]  v == Sums(t)[b]  k == Size[t[b + (n + 1)]]
  <2>8. x \in Nat /\ y \in Nat /\ u \in Nat /\ v \in Nat /\ k \in Nat /\ x + v = y + u
    BY <2>5, <2>6, <2>7
  <2>9. /\ Sums(s)[a + (n + 1)] = x + k
        /\ Sums(t)[b + (n + 1)] = y + k
    BY <2>3, <2>4
  <2> HIDE DEF x, y, u, v, k
  <2>10. (x + k) + v = (y + k) + u
    BY <2>8
  <2> QED  BY <2>9, <2>10 DEF u, v
<1>3. m \in S
  <2> HIDE DEF S
  <2> QED  BY <1>1, <1>2, NumbersByInduction
<1> QED  BY <1>3

LEMMA WeightType ==
    ASSUME NEW keys \in Seq(Keys) PROVE Weight(keys) \in Nat
<1>1. Len(keys) \in 0..Len(keys)
  OBVIOUS
<1> QED  BY <1>1, SumsType DEF Weight

LEMMA WeightOfNothing == Weight(<<>>) = 0
<1>1. <<>> \in Seq(Keys) /\ Len(<<>>) = 0
  OBVIOUS
<1> QED  BY <1>1, SumsStep DEF Weight

LEMMA WeightWithFirst ==
    ASSUME NEW k \in Keys, NEW keys \in Seq(Keys)
    PROVE  /\ <<k>> \o keys \in Seq(Keys)
           /\ Weight(<<k>> \o keys) = Weight(keys) + Size[k]
<1> DEFINE t == <<k>> \o keys  n == Len(keys)
<1>1. /\ t \in Seq(Keys) /\ Len(t) = n + 1 /\ n \in Nat /\ t[1] = k
      /\ \A j \in 1..n : keys[0 + j] = t[1 + j]
  OBVIOUS
<1> HIDE DEF t
<1>2. Sums(keys)[0 + n] + Sums(t)[1] = Sums(t)[1 + n] + Sums(keys)[0]
  <2>1. Alike(keys, 0, t, 1, n)
    BY <1>1 DEF Alike
  <2> QED  BY ONLY <2>1, SumsAgree
<1>3. Sums(t)[1] = 0 + Size[k] /\ Sums(keys)[0] = 0
  <2>1. 1 \in 1..Len(t) /\ 1 - 1 = 0
    BY <1>1
  <2> QED  BY <1>1, <2>1, SumsStep
<1>4. Weight(t) \in Nat /\ Weight(keys) \in Nat /\ Size[k] \in Nat
  BY <1>1, WeightType, SizeType
<1>5. Weight(t) = Sums(t)[1 + n] /\ Weight(keys) = Sums(keys)[0 + n]
  <2>1. 0 + n = n /\ 1 + n = Len(t)
    BY <1>1
  <2> QED  BY <2>1 DEF Weight
<1>6. Weight(keys) + Size[k] = Weight(t)
  BY <1>2, <1>3, <1>4, <1>5
<1> QED  BY <1>1, <1>6 DEF t

(* What a block that moves to the front leaves as it was. *)
LEMMA MovedToFront ==
    ASSUME NEW S, NEW keys \in Seq(S), NEW i \in 1..Len(keys)
    PROVE  LET t == <<keys[i]>> \o RemoveAt(keys, i) IN
           /\ t \in Seq(S) /\ Len(t) = Len(keys) /\ t[1] = keys[i]
           /\ \A j \in 1..(i - 1) : t[1 + j] = keys[j]
           /\ \A j \in (i + 1)..Len(keys) : t[j] = keys[j]
<1> DEFINE before == SubSeq(keys, 1, i - 1)
           after == SubSeq(keys, i + 1, Len(keys))
           n == Len(keys)
<1>1. n \in Nat /\ i \in 1..n /\ keys[i] \in S
  OBVIOUS
<1>2. /\ before \in Seq(S) /\ Len(before) = i - 1
      /\ \A j \in 1..(i - 1) : before[j] = keys[j]
  BY <1>1
<1>3. /\ after \in Seq(S) /\ Len(after) = n - i
      /\ \A j \in 1..(n - i) : after[j] = keys[i + j]
  BY <1>1
<1>4. RemoveAt(keys, i) = before \o after
  BY DEF RemoveAt
<1> HIDE DEF before, after
<1> DEFINE rest == before \o after
<1>5. /\ rest \in Seq(S) /\ Len(rest) = n - 1
      /\ \A j \in 1..(i - 1) : rest[j] = keys[j]
      /\ \A j \in i..(n - 1) : rest[j] = keys[j + 1]
  <2>1. /\ rest \in Seq(S) /\ Len(rest) = (i - 1) + (n - i)
        /\ \A j \in 1..Len(rest) :
               rest[j] = IF j <= i - 1 THEN before[j] ELSE after[j - (i - 1)]
    <3>1. /\ rest \in Seq(S) /\ Len(rest) = Len(before) + Len(after)
          /\ \A j \in 1..(Len(before) + Len(after)) : rest[j] =
                 IF j <= Len(before) THEN before[j] ELSE after[j - Len(before)]
      BY ONLY <1>2, <1>3, ConcatProperties, Zenon
    <3> QED  BY ONLY <3>1, <1>2, <1>3
  <2>2. ASSUME NEW j \in 1..(i - 1) PROVE rest[j] = keys[j]
    <3>1. rest[j] = before[j]
      BY <1>1, <2>1
    <3> QED  BY <1>2, <3>1
  <2>3. ASSUME NEW j \in i..(n - 1) PROVE rest[j] = keys[j + 1]
    <3>1. rest[j] = after[j - (i - 1)]
      BY <1>1, <2>1
    <3>2. j - (i - 1) \in 1..(n - i) /\ i + (j - (i - 1)) = j + 1
      BY <1>1
    <3> QED  BY <1>3, <3>1, <3>2
  <2> QED  BY <1>1, <2>1, <2>2, <2>3, SMTT(40)
<1> HIDE DEF rest
<1> DEFINE t == <<keys[i]>> \o rest
<1>6. t \in Seq(S) /\ Len(t) = n /\ t[1] = keys[i]
  BY <1>1, <1>5
<1>7. \A j \in 1..(n - 1) : t[1 + j] = rest[j]
  BY <1>1, <1>5
<1>8. \A j \in 1..(i - 1) : t[1 + j] = keys[j]
  BY <1>1, <1>5, <1>7
<1>9. ASSUME NEW j \in (i + 1)..n PROVE t[j] = keys[j]
  <2>1. j - 1 \in i..(n - 1) /\ j - 1 \in 1..(n - 1) /\ 1 + (j - 1) = j /\ (j - 1) + 1 = j
    BY <1>1
  <2>2. t[1 + (j - 1)] = rest[j - 1] /\ rest[j - 1] = keys[(j - 1) + 1]
    BY ONLY <1>5, <1>7, <2>1
  <2> QED  BY <2>1, <2>2
<1> QED  BY <1>4, <1>6, <1>8, <1>9 DEF rest

LEMMA WeightWhenMoved ==
    ASSUME NEW keys \in Seq(Keys), NEW i \in 1..Len(keys)
    PROVE  Weight(<<keys[i]>> \o RemoveAt(keys, i)) = Weight(keys)
<1> DEFINE t == <<keys[i]>> \o RemoveAt(keys, i)  n == Len(keys)
<1>1. /\ t \in Seq(Keys) /\ Len(t) = n /\ t[1] = keys[i]
      /\ \A j \in 1..(i - 1) : t[1 + j] = keys[j]
      /\ \A j \in (i + 1)..n : t[j] = keys[j]
  BY MovedToFront
<1>2. n \in Nat /\ i \in 1..n
  OBVIOUS
<1> HIDE DEF t, n
<1>3. Sums(keys)[i - 1] + Sums(t)[1] = Sums(t)[i] + Sums(keys)[0]
  <2> DEFINE m == i - 1
  <2>1. m \in Nat /\ 0 + m = i - 1 /\ 1 + m = i
    BY <1>2
  <2>2. Alike(keys, 0, t, 1, m)
    BY <1>1, <1>2 DEF Alike, n
  <2> HIDE DEF m
  <2>3. Sums(keys)[0 + m] + Sums(t)[1] = Sums(t)[1 + m] + Sums(keys)[0]
    BY ONLY <2>2, SumsAgree
  <2> QED  BY <2>1, <2>3
<1>4. Sums(keys)[n] + Sums(t)[i] = Sums(t)[n] + Sums(keys)[i]
  <2> DEFINE m == n - i
  <2>1. i + m = n
    BY <1>2
  <2>2. Alike(keys, i, t, i, m)
    BY <1>1, <1>2 DEF Alike, n
  <2> HIDE DEF m
  <2>3. Sums(keys)[i + m] + Sums(t)[i] = Sums(t)[i + m] + Sums(keys)[i]
    BY ONLY <2>2, SumsAgree
  <2> QED  BY <2>1, <2>3
<1>5. /\ i - 1 \in 0..n /\ i \in 0..n /\ n \in 0..n /\ 0 \in 0..n
      /\ 1 \in 1..n /\ 1 - 1 = 0
  BY <1>2
<1>6. /\ Sums(t)[1] = Sums(t)[0] + Size[t[1]] /\ Sums(t)[0] = 0
      /\ Sums(keys)[i] = Sums(keys)[i - 1] + Size[keys[i]] /\ Sums(keys)[0] = 0
  <2>1. Sums(t)[1] = Sums(t)[1 - 1] + Size[t[1]] /\ Sums(t)[0] = 0
    BY <1>1, <1>5, SumsStep
  <2>2. Sums(keys)[i] = Sums(keys)[i - 1] + Size[keys[i]] /\ Sums(keys)[0] = 0
    BY SumsStep
  <2> QED  BY <1>5, <2>1, <2>2
<1>7. /\ Sums(keys)[i - 1] \in Nat /\ Sums(keys)[n] \in Nat
      /\ Sums(t)[i] \in Nat /\ Sums(t)[n] \in Nat /\ Size[keys[i]] \in Nat
  <2>1. /\ \A j \in 0..n : Sums(keys)[j] \in Nat
        /\ \A j \in 0..n : Sums(t)[j] \in Nat
    BY <1>1, SumsType DEF n
  <2>2. Size[keys[i]] \in Nat
    BY <1>1, <1>2, SizeType DEF n
  <2> QED  BY ONLY <1>5, <2>1, <2>2
<1>8. Sums(t)[n] = Sums(keys)[n]
  <2> DEFINE k0 == Sums(keys)[i - 1]  ki == Sums(keys)[i]  kn == Sums(keys)[n]
             t1 == Sums(t)[1]  ti == Sums(t)[i]  tn == Sums(t)[n]
             size == Size[keys[i]]
  <2>1. /\ k0 \in Nat /\ kn \in Nat /\ ti \in Nat /\ tn \in Nat /\ size \in Nat
        /\ t1 = 0 + size /\ ki = k0 + size
        /\ k0 + t1 = ti + 0 /\ kn + ti = tn + ki
    BY <1>1, <1>3, <1>4, <1>6, <1>7
  <2> HIDE DEF k0, ki, kn, t1, ti, tn, size
  <2>2. tn = kn
    BY ONLY <2>1
  <2> QED  BY <2>2 DEF tn, kn
<1> QED  BY <1>1, <1>8 DEF Weight, t, n

(* The part that is kept is the front of the cache, and fits. *)
LEMMA KeptFits ==
    ASSUME NEW keys \in Seq(Keys), NEW room \in Nat
    PROVE  /\ \E n \in 0..Len(keys) : Fitting(keys, room) = SubSeq(keys, 1, n)
           /\ Weight(Fitting(keys, room)) <= room
<1> DEFINE W(n) == Weight(SubSeq(keys, 1, n))
           Fits(n) == W(n) <= room /\ (n < Len(keys) => W(n + 1) > room)
<1>1. \E n \in 0..Len(keys) : Fits(n)
  <2> SUFFICES ASSUME \A n \in 0..Len(keys) : ~Fits(n) PROVE FALSE
    OBVIOUS
  <2> DEFINE S == {n \in Nat : n <= Len(keys) => W(n) <= room}
  <2>1. 0 \in S
    <3>1. SubSeq(keys, 1, 0) = <<>>
      OBVIOUS
    <3>2. W(0) = 0
      BY <3>1, WeightOfNothing
    <3> HIDE DEF W
    <3> QED  BY <3>2
  <2>2. ASSUME NEW n \in Nat, n \in S PROVE n + 1 \in S
    <3>1. SUFFICES ASSUME n + 1 <= Len(keys) PROVE W(n + 1) <= room
      OBVIOUS
    <3>2. SubSeq(keys, 1, n + 1) \in Seq(Keys)
      BY <3>1
    <3>3. W(n + 1) \in Nat
      BY <3>2, WeightType
    <3>4. n \in 0..Len(keys) /\ n < Len(keys) /\ W(n) <= room
      BY <2>2, <3>1
    <3> HIDE DEF W
    <3> QED  BY <3>3, <3>4
  <2>3. Len(keys) \in S
    <3> HIDE DEF S
    <3>1. Nat \subseteq S
      BY <2>1, <2>2, NumbersByInduction
    <3> QED  BY <3>1
  <2>4. Fits(Len(keys))
    BY <2>3
  <2> QED  BY <2>4
<1> DEFINE kept == CHOOSE n \in 0..Len(keys) : Fits(n)
<1>2. kept \in 0..Len(keys) /\ Fits(kept)
  BY <1>1
<1>3. Fitting(keys, room) = SubSeq(keys, 1, kept)
  BY DEF Fitting
<1> HIDE DEF kept
<1> QED  BY <1>2, <1>3

-----------------------------------------------------------------------------
(* Who reads holds the lock, and what it reads is not in the cache.           *)
Held == \A a \in Actors : pc[a] = "read" => mu = a
Wanted == \A r \in Readers :
    pc[r] \in {"slot", "want", "read", "copy"} => want[r] \in Keys
Missing == \A r \in Readers :
    pc[r] = "read" => \A i \in 1..Len(cache) : cache[i] # want[r]

(* Close cancels first, and frees the cache under the lock. *)
Ended == close # "open" => cancelled

IInv == TypeOK /\ Held /\ Wanted /\ Missing /\ Ended /\ Accounted /\ Joined

LEMMA InitIInv == Init => IInv
<1> SUFFICES ASSUME Init PROVE IInv
  OBVIOUS
<1> USE DEF Init
<1>1. TypeOK
  <2>1. mu \in Actors \cup {None} /\ err \in BOOLEAN /\ cancelled \in BOOLEAN /\ bytes \in Nat
    OBVIOUS
  <2>2. cache \in Seq(Keys) /\ prefetch \in Seq(Keys) /\ Len(prefetch) <= QueueUnits
    BY StreamAssumption
  <2>3. pc \in [Actors -> {"idle", "slot", "want", "read", "copy", "ended", "gone"}]
    OBVIOUS
  <2>4. want \in [Readers -> Keys \cup {None}]
    OBVIOUS
  <2> QED  BY <2>1, <2>2, <2>3, <2>4 DEF TypeOK
<1>2. Accounted
  BY WeightOfNothing, StreamAssumption DEF Accounted
<1>3. Held /\ Wanted /\ Missing /\ Ended /\ Joined
  BY DEF Held, Wanted, Missing, Ended, Joined, Readers, Actors
<1> QED  BY <1>1, <1>2, <1>3 DEF IInv

(* Steps that leave lock, cache and count alone, and after which nobody reads   *)
(* who did not before.                                                        *)
LEMMA QuietStep ==
    ASSUME TypeOK, Held, Missing, Accounted, Joined,
           TypeOK', UNCHANGED <<mu, cache, bytes>>,
           close' = "closed" <=> close = "closed",
           \A a \in Actors : pc'[a] = "read" => pc[a] = "read",
           \A r \in Readers : pc'[r] = "read" => want'[r] = want[r]
    PROVE  Held' /\ Missing' /\ Accounted' /\ Joined'
<1>0. mu' = mu /\ cache' = cache /\ bytes' = bytes
  OBVIOUS
<1>1. Held'
  BY <1>0 DEF Held
<1>2. Missing'
  BY <1>0 DEF Missing, Readers, Actors
<1>3. Joined'
  BY DEF Joined
<1>4. Accounted'
  <2>1. Weight(cache)' = Weight(cache)
    BY <1>0
  <2> QED  BY <1>0, <2>1 DEF Accounted
<1> QED  BY <1>1, <1>2, <1>3, <1>4

(* Lookup: what was found becomes the most recent, what was not will be read.  *)
LEMMA LookupStep ==
    ASSUME IInv, NEW r \in Readers, Lookup(r) PROVE IInv'
<1> USE DEF IInv
<1>1. /\ r \in Actors /\ r # None /\ want[r] \in Keys /\ mu = None
      /\ UNCHANGED <<bytes, err, prefetch, want, cancelled, close>>
  BY StreamAssumption DEF Lookup, Wanted, Readers, Actors
<1>2. Wanted' /\ Ended'
  <2>1. pc'[r] \in {"idle", "ended", "copy", "read"} /\ \A a \in Actors \ {r} : pc'[a] = pc[a]
    BY <1>1 DEF Lookup, Goes, ToFront, Returned, Failed, TypeOK
  <2> QED  BY <1>1, <2>1 DEF Wanted, Ended, Readers, Actors
<1>3. \A a \in Actors : pc[a] # "read"
  BY <1>1, StreamAssumption DEF Held, Actors, Readers
<1>4. CASE cancelled
  <2>1. UNCHANGED <<mu, cache>> /\ pc' = [pc EXCEPT ![r] = Failed(r)]
    BY <1>4 DEF Lookup, Goes
  <2>2. TypeOK'
    BY <1>1, <2>1 DEF TypeOK, Failed
  <2>3. Failed(r) # "read"
    BY DEF Failed
  <2>4. Held' /\ Missing' /\ Accounted' /\ Joined'
    BY <1>1, <2>1, <2>2, <2>3, QuietStep DEF TypeOK
  <2> QED  BY <1>2, <2>2, <2>4
<1>5. CASE ~cancelled /\ Contains(cache, want[r])
  <2>1. /\ UNCHANGED mu /\ pc' = [pc EXCEPT ![r] = Returned(r)]
        /\ ToFront(want[r])
    BY <1>5 DEF Lookup, Goes
  <2>2. PICK i \in 1..Len(cache) :
            cache[i] = want[r] /\ cache' = <<cache[i]>> \o RemoveAt(cache, i)
    <3>1. DOMAIN cache = 1..Len(cache)
      BY DEF TypeOK
    <3> QED  BY ONLY <2>1, <3>1 DEF ToFront
  <2>3. cache \in Seq(Keys) /\ Len(cache) \in Nat
    BY DEF TypeOK
  <2>4. /\ cache' \in Seq(Keys) /\ Len(cache') = Len(cache) /\ cache'[1] = cache[i]
        /\ \A j \in 1..(i - 1) : cache'[1 + j] = cache[j]
        /\ \A j \in (i + 1)..Len(cache) : cache'[j] = cache[j]
    BY <2>2, <2>3, MovedToFront
  <2>5. TypeOK'
    BY <1>1, <2>1, <2>4 DEF TypeOK, Returned
  <2>6. \A a \in Actors : pc'[a] # "read"
    BY <1>1, <1>3, <2>1 DEF TypeOK, Returned
  <2>7. Held' /\ Missing' /\ Joined'
    BY <2>6 DEF Held, Missing, Joined, Readers, Actors
  <2>8. Accounted'
    <3> SUFFICES ASSUME close # "closed"
                 PROVE  /\ bytes' = Weight(cache') /\ bytes' <= CacheUnits
                        /\ \A j, k \in 1..Len(cache') : cache'[j] = cache'[k] => j = k
      BY <1>1 DEF Accounted
    <3>1. /\ bytes = Weight(cache) /\ bytes <= CacheUnits
          /\ \A j, k \in 1..Len(cache) : cache[j] = cache[k] => j = k
      BY DEF Accounted
    <3>2. Weight(cache') = Weight(cache)
      BY <2>2, <2>3, WeightWhenMoved
    <3> DEFINE From(j) == IF j = 1 THEN i ELSE IF j <= i THEN j - 1 ELSE j
    <3>3. ASSUME NEW j \in 1..Len(cache)
          PROVE  From(j) \in 1..Len(cache) /\ cache'[j] = cache[From(j)]
      <4>1. CASE j = 1
        BY <2>4, <4>1
      <4>2. CASE j # 1 /\ j <= i
        <5>1. j - 1 \in 1..(i - 1) /\ 1 + (j - 1) = j
          BY <2>3, <4>2
        <5>2. cache'[1 + (j - 1)] = cache[j - 1]
          BY <2>4, <5>1
        <5> QED  BY <2>3, <4>2, <5>1, <5>2
      <4>3. CASE j > i
        <5>1. j \in (i + 1)..Len(cache) /\ From(j) = j
          BY <2>3, <4>3
        <5> QED  BY <2>4, <5>1
      <4> QED  BY <2>3, <4>1, <4>2, <4>3
    <3>4. \A j, k \in 1..Len(cache) : From(j) = From(k) => j = k
      BY <2>3
    <3> HIDE DEF From
    <3>5. \A j, k \in 1..Len(cache) : cache'[j] = cache'[k] => j = k
      BY <3>1, <3>3, <3>4
    <3> QED  BY <1>1, <2>4, <3>1, <3>2, <3>5
  <2> QED  BY <1>2, <2>5, <2>7, <2>8
<1>6. CASE ~cancelled /\ ~Contains(cache, want[r])
  <2>1. mu' = r /\ UNCHANGED cache /\ pc' = [pc EXCEPT ![r] = "read"]
    BY <1>6 DEF Lookup, Goes
  <2>2. TypeOK'
    BY <1>1, <2>1 DEF TypeOK
  <2>3. \A a \in Actors : pc'[a] = "read" => a = r
    BY <1>3, <2>1 DEF TypeOK
  <2>4. Held'
    BY <2>1, <2>3 DEF Held
  <2>5. Missing'
    BY <1>1, <1>6, <2>1, <2>3 DEF Missing, Contains, Readers, Actors
  <2>6. close # "closed"
    BY <1>6 DEF Ended
  <2>7. Weight(cache)' = Weight(cache)
    BY <2>1
  <2>8. Joined' /\ Accounted'
    BY <1>1, <2>1, <2>6, <2>7 DEF Joined, Accounted
  <2> QED  BY <1>2, <2>2, <2>4, <2>5, <2>8
<1> QED  BY <1>4, <1>5, <1>6

(* Store: the oldest that are dropped make room for what was read.            *)
LEMMA StoreStep ==
    ASSUME IInv, NEW r \in Readers, Store(r) PROVE IInv'
<1> USE DEF IInv
<1> DEFINE k == want[r]
           kept == Fitting(cache, CacheUnits - Size[k])
<1>1. /\ r \in Actors /\ k \in Keys /\ mu = r /\ pc[r] = "read"
      /\ UNCHANGED <<err, prefetch, want, cancelled, close>>
      /\ mu' = None /\ pc' = [pc EXCEPT ![r] = Returned(r)]
      /\ cache' = <<k>> \o kept
      /\ bytes' = (bytes + Weight(kept) + Size[k]) - Weight(cache)
  BY DEF Store, Wanted, Held, Goes, Readers, Actors
<1>2. close # "closed"
  BY <1>1 DEF Joined
<1>3. Size[k] \in Nat /\ CacheUnits \in Nat /\ CacheUnits - Size[k] \in Nat
  BY <1>1, SizeType, StreamAssumption
<1>4. cache \in Seq(Keys) /\ Len(cache) \in Nat
  BY DEF TypeOK
<1>5. PICK n \in 0..Len(cache) : kept = SubSeq(cache, 1, n)
  BY <1>3, <1>4, KeptFits
<1>6. Weight(kept) <= CacheUnits - Size[k]
  BY <1>3, <1>4, KeptFits
<1>7. kept \in Seq(Keys) /\ Len(kept) = n /\ \A j \in 1..n : kept[j] = cache[j]
  BY <1>4, <1>5
<1> HIDE DEF kept, k
<1>8. Weight(kept) \in Nat /\ Weight(cache) \in Nat
  BY <1>4, <1>7, WeightType
<1>9. cache' \in Seq(Keys) /\ Weight(cache') = Weight(kept) + Size[k]
  BY <1>1, <1>7, WeightWithFirst
<1>10. bytes = Weight(cache) /\ \A i, j \in 1..Len(cache) : cache[i] = cache[j] => i = j
  BY <1>2 DEF Accounted
<1>11. bytes' = Weight(cache') /\ bytes' <= CacheUnits /\ bytes' \in Nat
  BY ONLY <1>1, <1>3, <1>6, <1>8, <1>9, <1>10
<1>12. TypeOK'
  BY <1>1, <1>9, <1>11 DEF TypeOK, Returned
<1>13. \A a \in Actors : pc'[a] # "read"
  BY <1>1 DEF Held, TypeOK, Returned
<1>14. Held' /\ Missing' /\ Joined'
  BY <1>13 DEF Held, Missing, Joined, Readers, Actors
<1>15. Accounted'
  <2>1. \A i \in 1..Len(cache) : cache[i] # k
    BY <1>1 DEF Missing, k
  <2>2. /\ Len(cache') = n + 1 /\ cache'[1] = k
        /\ \A j \in 2..(n + 1) : cache'[j] = kept[j - 1]
    BY <1>1, <1>5, <1>7
  <2>3. \A j \in 2..(n + 1) : j - 1 \in 1..Len(cache) /\ cache'[j] = cache[j - 1]
    BY <1>4, <1>5, <1>7, <2>2
  <2>4. ASSUME NEW i \in 1..(n + 1), NEW j \in 1..(n + 1), cache'[i] = cache'[j]
        PROVE  i = j
    <3>1. CASE i = 1 \/ j = 1
      BY <2>1, <2>2, <2>3, <2>4, <3>1
    <3>2. CASE i # 1 /\ j # 1
      <4>1. i \in 2..(n + 1) /\ j \in 2..(n + 1)
        BY <3>2
      <4>2. cache[i - 1] = cache[j - 1] /\ i - 1 \in 1..Len(cache) /\ j - 1 \in 1..Len(cache)
        BY <2>3, <2>4, <4>1
      <4>3. i - 1 = j - 1
        BY <1>10, <4>2
      <4> QED  BY <4>3
    <3> QED  BY <3>1, <3>2
  <2> QED  BY <1>11, <2>2, <2>4 DEF Accounted
<1>16. Wanted' /\ Ended'
  BY <1>1, <1>13 DEF Wanted, Ended, TypeOK, Returned, Readers, Actors, k
<1> QED  BY <1>12, <1>14, <1>15, <1>16

LEMMA ReadFailsStep ==
    ASSUME IInv, NEW r \in Readers, ReadFails(r) PROVE IInv'
<1> USE DEF IInv
<1>1. /\ r \in Actors /\ mu = r /\ err' = TRUE /\ mu' = None
      /\ pc' = [pc EXCEPT ![r] = Failed(r)]
      /\ UNCHANGED <<cache, bytes, prefetch, want, cancelled, close>>
  BY DEF ReadFails, Goes, Held, Readers, Actors
<1>2. TypeOK'
  BY <1>1 DEF TypeOK, Failed
<1>3. \A a \in Actors : pc'[a] # "read"
  BY <1>1 DEF Held, TypeOK, Failed
<1>4. Held' /\ Missing' /\ Joined' /\ Ended'
  BY <1>1, <1>3 DEF Held, Missing, Joined, Ended, Readers, Actors
<1>5. Wanted'
  BY <1>1 DEF Wanted, TypeOK, Failed, Readers, Actors
<1>6. Weight(cache)' = Weight(cache)
  BY <1>1
<1>7. Accounted'
  BY <1>1, <1>6 DEF Accounted
<1> QED  BY <1>2, <1>4, <1>5, <1>7

(* What is read ahead fits into the channel. *)
LEMMA HintStep ==
    ASSUME NEW k \in Keys, prefetch \in Seq(Keys), Len(prefetch) <= QueueUnits, Hint(k)
    PROVE  prefetch' \in Seq(Keys) /\ Len(prefetch') <= QueueUnits
<1>1. QueueUnits \in Nat /\ Len(prefetch) \in Nat
  BY StreamAssumption
<1>2. /\ Append(prefetch, k) \in Seq(Keys)
      /\ Len(Append(prefetch, k)) = Len(prefetch) + 1
  OBVIOUS
<1> QED  BY <1>1, <1>2 DEF Hint

(* Steps that move one actor to a place where nothing is read.                *)
LEMMA PlaceStep ==
    ASSUME IInv, TypeOK', NEW a \in Actors,
           NEW place \in {"idle", "slot", "want", "copy", "ended", "gone"},
           pc' = [pc EXCEPT ![a] = place], UNCHANGED <<mu, cache, bytes, close>>,
           \A r \in Readers \ {a} : want'[r] = want[r],
           a \in Readers /\ place \in {"slot", "want", "copy"} => want'[a] \in Keys
    PROVE  Held' /\ Missing' /\ Accounted' /\ Joined' /\ Wanted'
<1> USE DEF IInv
<1>1. /\ \A b \in Actors : pc'[b] = "read" => pc[b] = "read"
      /\ \A r \in Readers : pc'[r] = "read" => want'[r] = want[r]
  BY DEF TypeOK, Readers, Actors
<1>2. Held' /\ Missing' /\ Accounted' /\ Joined'
  BY <1>1, QuietStep
<1>3. Wanted'
  BY DEF Wanted, TypeOK, Readers, Actors
<1> QED  BY <1>2, <1>3

LEMMA ReaderStep ==
    ASSUME IInv, NEW r \in Requests, Ask(r) \/ Serve(r) \/ Leave(r) PROVE IInv'
<1> USE DEF IInv
<1>1. r \in Readers /\ r \in Actors /\ r # "prefetcher"
  BY StreamAssumption DEF Readers, Actors
<1>2. CASE Ask(r)
  <2>1. PICK k \in Keys : want' = [want EXCEPT ![r] = k]
    BY <1>2 DEF Ask
  <2>2. /\ pc' = [pc EXCEPT ![r] = "slot"]
        /\ UNCHANGED <<mu, cache, bytes, err, prefetch, cancelled, close>>
    BY <1>2 DEF Ask, Goes
  <2>3. TypeOK'
    BY <1>1, <2>1, <2>2 DEF TypeOK
  <2>4. want'[r] \in Keys /\ \A q \in Readers \ {r} : want'[q] = want[q]
    BY <1>1, <2>1 DEF TypeOK
  <2> QED  BY <1>1, <2>2, <2>3, <2>4, PlaceStep DEF Ended
<1>3. CASE Admit(r)
  <2>1. PICK place \in {"want", "ended"} : pc' = [pc EXCEPT ![r] = place]
    BY <1>3 DEF Admit, Goes
  <2>2. /\ want[r] \in Keys
        /\ UNCHANGED <<mu, cache, bytes, err, prefetch, want, cancelled, close>>
    BY <1>1, <1>3 DEF Admit, Wanted
  <2>3. TypeOK'
    BY <1>1, <2>1, <2>2 DEF TypeOK
  <2> QED  BY <1>1, <2>1, <2>2, <2>3, PlaceStep DEF Ended
<1>4. CASE Lookup(r)
  BY <1>1, <1>4, LookupStep
<1>5. CASE Store(r)
  BY <1>1, <1>5, StoreStep
<1>6. CASE ReadFails(r)
  BY <1>1, <1>6, ReadFailsStep
<1>7. CASE Copy(r)
  <2>1. want[r] \in Keys /\ UNCHANGED <<mu, cache, bytes, err, cancelled, close>>
    BY <1>1, <1>7 DEF Copy, Wanted
  <2>2. CASE Next1(want[r]) \in Keys
    <3>1. /\ pc' = [pc EXCEPT ![r] = "want"] /\ Hint(Next1(want[r]))
          /\ want' = [want EXCEPT ![r] = Next1(want[r])]
      BY <1>7, <2>2 DEF Copy, Goes
    <3>2. prefetch' \in Seq(Keys) /\ Len(prefetch') <= QueueUnits
      BY <2>2, <3>1, HintStep DEF TypeOK
    <3>3. TypeOK'
      BY <1>1, <2>1, <2>2, <3>1, <3>2 DEF TypeOK
    <3>4. want'[r] \in Keys /\ \A q \in Readers \ {r} : want'[q] = want[q]
      BY <1>1, <2>2, <3>1 DEF TypeOK
    <3> QED  BY <1>1, <2>1, <3>1, <3>3, <3>4, PlaceStep DEF Ended
  <2>3. CASE Next1(want[r]) \notin Keys
    <3>1. pc' = [pc EXCEPT ![r] = "ended"] /\ UNCHANGED <<prefetch, want>>
      BY <1>7, <2>3 DEF Copy, Goes
    <3>2. TypeOK'
      BY <1>1, <2>1, <3>1 DEF TypeOK
    <3> QED  BY <1>1, <2>1, <3>1, <3>2, PlaceStep DEF Ended
  <2> QED  BY <2>2, <2>3
<1>8. CASE End(r)
  <2>1. /\ pc' = [pc EXCEPT ![r] = "idle"] /\ want' = [want EXCEPT ![r] = None]
        /\ UNCHANGED <<mu, cache, bytes, err, prefetch, cancelled, close>>
    BY <1>8 DEF End, Goes
  <2>2. TypeOK'
    BY <1>1, <2>1 DEF TypeOK
  <2>3. \A q \in Readers \ {r} : want'[q] = want[q]
    BY <2>1 DEF TypeOK
  <2> QED  BY <1>1, <2>1, <2>2, <2>3, PlaceStep DEF Ended
<1>9. CASE Leave(r)
  <2>1. /\ pc' = [pc EXCEPT ![r] = "ended"]
        /\ UNCHANGED <<mu, cache, bytes, err, prefetch, want, cancelled, close>>
    BY <1>9 DEF Leave, Goes
  <2>2. TypeOK'
    BY <1>1, <2>1 DEF TypeOK
  <2> QED  BY <1>1, <2>1, <2>2, PlaceStep DEF Ended
<1> QED  BY <1>2, <1>3, <1>4, <1>5, <1>6, <1>7, <1>8, <1>9 DEF Serve, Block

LEMMA PrefetcherStep == ASSUME IInv, Prefetcher PROVE IInv'
<1> USE DEF IInv
<1> DEFINE p == "prefetcher"
<1>1. p \in Readers /\ p \in Actors
  BY DEF Readers, Actors
<1>2. CASE Take
  <2>1. /\ pc' = [pc EXCEPT ![p] = "want"] /\ prefetch # <<>>
        /\ want' = [want EXCEPT ![p] = Head(prefetch)] /\ prefetch' = Tail(prefetch)
        /\ UNCHANGED <<mu, cache, bytes, err, cancelled, close>>
    BY <1>2 DEF Take, Goes
  <2>2. Head(prefetch) \in Keys /\ prefetch' \in Seq(Keys) /\ Len(prefetch') <= QueueUnits
    <3>1. prefetch \in Seq(Keys) /\ Len(prefetch) <= QueueUnits /\ QueueUnits \in Nat
      BY StreamAssumption DEF TypeOK
    <3>2. Head(prefetch) \in Keys
      BY <2>1, <3>1
    <3>3. Tail(prefetch) \in Seq(Keys) /\ Len(Tail(prefetch)) = Len(prefetch) - 1
      BY <2>1, <3>1
    <3> QED  BY <2>1, <3>1, <3>2, <3>3
  <2>3. TypeOK'
    BY <1>1, <2>1, <2>2 DEF TypeOK
  <2>4. want'[p] \in Keys /\ \A q \in Readers \ {p} : want'[q] = want[q]
    BY <1>1, <2>1, <2>2 DEF TypeOK
  <2> QED  BY <1>1, <2>1, <2>3, <2>4, PlaceStep DEF Ended
<1>3. CASE Quit
  <2>1. /\ pc' = [pc EXCEPT ![p] = "gone"]
        /\ UNCHANGED <<mu, cache, bytes, err, prefetch, want, cancelled, close>>
    BY <1>3 DEF Quit, Goes
  <2>2. TypeOK'
    BY <1>1, <2>1 DEF TypeOK
  <2> QED  BY <1>1, <2>1, <2>2, PlaceStep DEF Ended
<1>4. CASE Block(p)
  BY <1>1, <1>4, LookupStep, StoreStep, ReadFailsStep DEF Block
<1> QED  BY <1>2, <1>3, <1>4 DEF Prefetcher

LEMMA CopierStep ==
    ASSUME IInv, NEW c \in Copiers, Borrow(c) \/ GiveBack(c) PROVE IInv'
<1> USE DEF IInv
<1>1. c \in Actors /\ c # None /\ c \notin Readers
  BY StreamAssumption DEF Readers, Actors
<1>2. CASE Borrow(c)
  <2>1. /\ close = "open" /\ mu = None /\ mu' = c /\ pc' = [pc EXCEPT ![c] = "read"]
        /\ UNCHANGED <<cache, bytes, err, prefetch, want, cancelled, close>>
    BY <1>2 DEF Borrow, Goes
  <2>2. TypeOK'
    BY <1>1, <2>1 DEF TypeOK
  <2>3. \A a \in Actors : pc[a] # "read"
    BY <2>1, StreamAssumption DEF Held, Actors, Readers
  <2>4. \A a \in Actors : pc'[a] = "read" => a = c
    BY <2>1, <2>3 DEF TypeOK
  <2>5. Held' /\ Missing' /\ Joined' /\ Ended'
    BY <1>1, <2>1, <2>4 DEF Held, Missing, Joined, Ended, Readers, Actors
  <2>6. Wanted'
    BY <1>1, <2>1 DEF Wanted, TypeOK, Readers, Actors
  <2>7. Weight(cache)' = Weight(cache)
    BY <2>1
  <2>8. Accounted'
    BY <2>1, <2>7 DEF Accounted
  <2> QED  BY <2>2, <2>5, <2>6, <2>8
<1>3. CASE GiveBack(c)
  <2>1. /\ mu = c /\ mu' = None /\ pc' = [pc EXCEPT ![c] = "idle"]
        /\ UNCHANGED <<cache, bytes, err, prefetch, want, cancelled, close>>
    BY <1>1, <1>3 DEF GiveBack, Goes, Held
  <2>2. TypeOK'
    BY <1>1, <2>1 DEF TypeOK
  <2>3. \A a \in Actors : pc'[a] # "read"
    BY <2>1 DEF Held, TypeOK
  <2>4. Held' /\ Missing' /\ Joined' /\ Ended'
    BY <2>1, <2>3 DEF Held, Missing, Joined, Ended, Readers, Actors
  <2>5. Wanted'
    BY <1>1, <2>1 DEF Wanted, TypeOK, Readers, Actors
  <2>6. Weight(cache)' = Weight(cache)
    BY <2>1
  <2>7. Accounted'
    BY <2>1, <2>6 DEF Accounted
  <2> QED  BY <2>2, <2>4, <2>5, <2>7
<1> QED  BY <1>2, <1>3

(* Close waits for the lock before it frees the cache, so nobody reads then. *)
LEMMA CloseStep ==
    ASSUME IInv, Cancel \/ CloseBegins \/ Close PROVE IInv'
<1> USE DEF IInv
<1>1. CASE Cancel \/ CloseBegins \/ CloseServer \/ Join
  <2>1. /\ UNCHANGED <<mu, cache, bytes, err, prefetch, pc, want>>
        /\ close' # "closed" \/ UNCHANGED close
        /\ close = "closed" => UNCHANGED close
        /\ cancelled' \in BOOLEAN /\ (cancelled => cancelled')
        /\ close' \in {"open", "cancelled", "joining", "joined", "closed"}
        /\ close' # "open" => cancelled'
    BY <1>1 DEF Cancel, CloseBegins, CloseServer, Join, Ended, TypeOK
  <2>2. TypeOK' /\ Ended' /\ Wanted'
    BY <2>1 DEF TypeOK, Ended, Wanted, Readers, Actors
  <2>3. Held' /\ Missing' /\ Accounted' /\ Joined'
    BY <2>1, <2>2, QuietStep
  <2> QED  BY <2>2, <2>3
<1>2. CASE CloseEnds
  <2>1. /\ mu = None /\ close' = "closed" /\ cache' = <<>> /\ cancelled
        /\ UNCHANGED <<mu, bytes, err, prefetch, pc, want, cancelled>>
    BY <1>2 DEF CloseEnds, Ended
  <2>2. TypeOK' /\ Ended' /\ Wanted'
    BY <2>1 DEF TypeOK, Ended, Wanted, Readers, Actors
  <2>3. \A a \in Actors : pc[a] # "read"
    BY <2>1, StreamAssumption DEF Held, Actors, Readers
  <2> QED  BY <2>1, <2>2, <2>3 DEF Held, Missing, Joined, Accounted, Readers, Actors
<1> QED  BY <1>1, <1>2 DEF Close

LEMMA NextIInv == IInv /\ [Next]_vars => IInv'
<1> SUFFICES ASSUME IInv, [Next]_vars PROVE IInv'
  OBVIOUS
<1>1. CASE \E r \in Requests : Ask(r) \/ Serve(r) \/ Leave(r)
  BY <1>1, ReaderStep
<1>2. CASE Prefetcher
  BY <1>2, PrefetcherStep
<1>3. CASE Foresee
  <2>1. PICK f \in Files : Hint(<<f, 0>>)
    BY <1>3 DEF Foresee
  <2>2. UNCHANGED <<mu, cache, bytes, err, pc, want, cancelled, close>>
    BY <1>3 DEF Foresee
  <2>3. <<f, 0>> \in Keys
    BY StreamAssumption DEF Keys
  <2>4. prefetch' \in Seq(Keys) /\ Len(prefetch') <= QueueUnits
    BY <2>1, <2>3, HintStep DEF IInv, TypeOK
  <2>5. TypeOK' /\ Wanted' /\ Ended'
    BY <2>2, <2>4 DEF IInv, TypeOK, Wanted, Ended
  <2>6. Held' /\ Missing' /\ Accounted' /\ Joined'
    BY <2>2, <2>5, QuietStep DEF IInv, Actors, Readers
  <2> QED  BY <2>5, <2>6 DEF IInv
<1>4. CASE \E c \in Copiers : Borrow(c) \/ GiveBack(c)
  BY <1>4, CopierStep
<1>5. CASE Cancel \/ CloseBegins \/ Close
  BY <1>5, CloseStep
<1>6. CASE UNCHANGED vars
  <2>1. UNCHANGED <<mu, cache, bytes, err, prefetch, pc, want, cancelled, close>>
    BY <1>6 DEF vars
  <2>2. TypeOK' /\ Wanted' /\ Ended'
    BY <2>1 DEF IInv, TypeOK, Wanted, Ended
  <2>3. Held' /\ Missing' /\ Accounted' /\ Joined'
    BY <2>1, <2>2, QuietStep DEF IInv, Actors, Readers
  <2> QED  BY <2>2, <2>3 DEF IInv
<1> QED  BY <1>1, <1>2, <1>3, <1>4, <1>5, <1>6 DEF Next

LEMMA OneHolder == TypeOK /\ Held => OneReader
<1> SUFFICES ASSUME TypeOK, Held PROVE OneReader
  OBVIOUS
<1> DEFINE reading == {a \in Actors : pc[a] = "read"}
<1>1. reading \subseteq {mu}
  BY DEF Held
<1>2. IsFiniteSet({mu}) /\ Cardinality({mu}) = 1
  BY FS_Singleton
<1>3. Cardinality(reading) <= Cardinality({mu})
  BY <1>1, <1>2, FS_Subset
<1> QED  BY <1>2, <1>3 DEF OneReader

(* Whatever the encoders, the prefetcher and the raw copies of a batch do and   *)
(* in whatever order, at most one of them reads the source, the cache holds    *)
(* every block once and what it is counted to hold, never more than its limit, *)
(* and once Close has returned nobody reads any more (stream.go:137-196).      *)
THEOREM ReadersShare == Spec => []Shared
<1>1. IInv => Shared
  BY OneHolder DEF IInv, Shared
<1> QED
  BY InitIInv, NextIInv, <1>1, PTL DEF Spec
=============================================================================
