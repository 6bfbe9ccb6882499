-------------------------- MODULE PageSplitProofs ---------------------------
(***************************************************************************)
(* bt_psplit (db.1.85/bt_split.c) for pages of any size with any number of *)
(* records: its loop cuts where Cut says, both halves fit when records are *)
(* small, and the cursor follows its record where it does.                 *)
(***************************************************************************)
EXTENDS PageSplit, FiniteSetTheorems, TLAPS

\* Every non-empty set of natural numbers has a least element.
LEMMA LeastNumber ==
  ASSUME NEW S, S \subseteq Nat, S # {}
  PROVE  \E x \in S : \A y \in S : x <= y
<1> DEFINE R == {ss \in Nat \X Nat : ss[1] < ss[2]}
<1>1. IsWellFoundedOn(R, Nat)
  BY NatLessThanWellFounded, Zenon DEF OpToRel
<1>2. PICK x \in S : \A y \in S : ~(<<y, x>> \in R)
  <2> HIDE DEF R
  <2> QED
    BY <1>1, WFMin
<1>3. ASSUME NEW y \in S PROVE x <= y
  <2>1. x \in Nat /\ y \in Nat
    OBVIOUS
  <2>2. ~(<<y, x>>[1] < <<y, x>>[2])
    BY <1>2, <2>1
  <2>3. QED
    BY <2>1, <2>2
<1>4. QED
  BY <1>3

\* A set that counting stays in holds all that is counted: induction, for sums
\* over the records of a page.
LEMMA Counting ==
  ASSUME NEW S, NEW n \in Nat, 0 \in S, \A i \in 0 .. n : i # n /\ i \in S => i + 1 \in S
  PROVE  \A i \in 0 .. n : i \in S
<1> DEFINE T == {i \in 0 .. n : i \notin S}
<1>1. SUFFICES ASSUME T # {} PROVE FALSE
  OBVIOUS
<1>2. T \subseteq Nat
  OBVIOUS
<1>3. PICK x \in T : \A y \in T : x <= y
  BY <1>1, <1>2, LeastNumber
<1>4. x \in 0 .. n /\ x # 0 /\ x \notin S
  OBVIOUS
<1>5. x - 1 \in 0 .. n /\ x - 1 # n /\ (x - 1) + 1 = x /\ ~(x <= x - 1)
  BY <1>4
<1>6. x - 1 \in S
  BY <1>3, <1>5
<1>7. QED
  BY <1>4, <1>5, <1>6

(* f is the table of sums that Used reads.                                 *)
IsSum(s, n, f) == f = [i \in 0 .. n |-> IF i = 0 THEN 0 ELSE f[i - 1] + s[i]]

LEMMA SumExists ==
  ASSUME NEW s, NEW n \in Nat
  PROVE  \E f : IsSum(s, n, f)
<1> DEFINE S == {m \in Nat : \E f : IsSum(s, m, f)}
<1>1. 0 \in S
  <2>1. IsSum(s, 0, [i \in 0 .. 0 |-> 0])
    BY DEF IsSum
  <2>2. QED
    BY <2>1
<1>2. ASSUME NEW m \in 0 .. n, m # n, m \in S PROVE m + 1 \in S
  <2>1. PICK f : IsSum(s, m, f)
    BY <1>2
  <2>2. PICK g : g = [i \in 0 .. m + 1 |-> IF i = m + 1 THEN f[m] + s[m + 1] ELSE f[i]]
    OBVIOUS
  <2>3. ASSUME NEW i \in 0 .. m + 1 PROVE g[i] = IF i = 0 THEN 0 ELSE g[i - 1] + s[i]
    <3>1. CASE i = m + 1
      <4>1. i # 0 /\ i - 1 = m /\ m \in 0 .. m + 1 /\ m # m + 1
        BY <3>1
      <4>2. g[i] = f[m] + s[i] /\ g[i - 1] = f[m]
        BY <2>2, <3>1, <4>1
      <4>3. QED
        BY <4>1, <4>2
    <3>2. CASE i # m + 1
      <4>1. i \in 0 .. m /\ g[i] = f[i]
        BY <2>2, <3>2
      <4>2. f[i] = IF i = 0 THEN 0 ELSE f[i - 1] + s[i]
        BY <2>1, <4>1 DEF IsSum
      <4>3. i # 0 => g[i - 1] = f[i - 1]
        BY <2>2, <4>1
      <4>4. QED
        BY <4>1, <4>2, <4>3
    <3>3. QED
      BY <3>1, <3>2
  <2>4. IsSum(s, m + 1, g)
    BY <2>2, <2>3 DEF IsSum
  <2>5. QED
    BY <2>4
<1> HIDE DEF S
<1>3. n \in S
  BY <1>1, <1>2, Counting
<1>4. QED
  BY <1>3 DEF S

LEMMA UsedIs ==
  ASSUME NEW s, NEW n \in Nat
  PROVE  \E f : IsSum(s, n, f) /\ Used(s, n) = f[n]
<1>1. Used(s, n) = (CHOOSE g : g = [i \in 0 .. n |-> IF i = 0 THEN 0 ELSE g[i - 1] + s[i]])[n]
  BY DEF Used
<1>2. PICK h : h = CHOOSE g : g = [i \in 0 .. n |-> IF i = 0 THEN 0 ELSE g[i - 1] + s[i]]
  OBVIOUS
<1>3. IsSum(s, n, h)
  BY <1>2, SumExists DEF IsSum
<1>4. Used(s, n) = h[n]
  BY <1>1, <1>2
<1>5. QED
  BY <1>3, <1>4

LEMMA SumsAgree ==
  ASSUME NEW s, NEW n \in Nat, NEW f, IsSum(s, n, f), NEW m \in Nat, NEW g, IsSum(s, m, g), n <= m
  PROVE  \A i \in 0 .. n : f[i] = g[i]
<1> DEFINE S == {i \in 0 .. n : f[i] = g[i]}
<1>1. 0 \in S
  BY DEF IsSum
<1>2. ASSUME NEW i \in 0 .. n, i # n, i \in S PROVE i + 1 \in S
  <2>1. i + 1 \in 0 .. n /\ i + 1 \in 0 .. m /\ i + 1 # 0 /\ (i + 1) - 1 = i
    BY <1>2
  <2>2. f[i + 1] = f[i] + s[i + 1] /\ g[i + 1] = g[i] + s[i + 1]
    BY <2>1 DEF IsSum
  <2>3. QED
    BY <1>2, <2>1, <2>2
<1> HIDE DEF S
<1>3. \A i \in 0 .. n : i \in S
  BY <1>1, <1>2, Counting
<1>4. QED
  BY <1>3 DEF S

\* What Used computes: nothing at first, and a record more at each step
LEMMA UsedStep ==
  ASSUME NEW s
  PROVE  /\ Used(s, 0) = 0
         /\ \A n \in Nat : Used(s, n + 1) = Used(s, n) + s[n + 1]
<1>1. Used(s, 0) = 0
  BY UsedIs DEF IsSum
<1>2. ASSUME NEW n \in Nat PROVE Used(s, n + 1) = Used(s, n) + s[n + 1]
  <2>1. PICK f : IsSum(s, n, f) /\ Used(s, n) = f[n]
    BY UsedIs
  <2>2. n + 1 \in Nat
    OBVIOUS
  <2>3. PICK g : IsSum(s, n + 1, g) /\ Used(s, n + 1) = g[n + 1]
    BY <2>2, UsedIs
  <2>4. n \in 0 .. n /\ n + 1 \in 0 .. n + 1 /\ n + 1 # 0 /\ (n + 1) - 1 = n /\ n <= n + 1
    OBVIOUS
  <2>5. f[n] = g[n]
    BY <2>1, <2>2, <2>3, <2>4, SumsAgree
  <2>6. g[n + 1] = g[n] + s[n + 1]
    BY <2>3, <2>4 DEF IsSum
  <2>7. QED
    BY <2>1, <2>3, <2>5, <2>6
<1>3. QED
  BY <1>1, <1>2

LEMMA UsedType ==
  ASSUME NEW s \in Seq(Nat), NEW n \in 0 .. Len(s)
  PROVE  Used(s, n) \in Nat
<1> DEFINE S == {i \in 0 .. Len(s) : Used(s, i) \in Nat}
<1>1. 0 \in S
  BY UsedStep, SMTT(60)
<1>2. ASSUME NEW i \in 0 .. Len(s), i # Len(s), i \in S PROVE i + 1 \in S
  <2>1. i \in Nat /\ i + 1 \in 0 .. Len(s) /\ s[i + 1] \in Nat
    BY <1>2
  <2>2. Used(s, i + 1) = Used(s, i) + s[i + 1]
    BY <2>1, UsedStep
  <2>3. QED
    BY <1>2, <2>1, <2>2
<1> HIDE DEF S
<1>9. Len(s) \in Nat
  OBVIOUS
<1>3. \A i \in 0 .. Len(s) : i \in S
  BY <1>1, <1>2, <1>9, Counting
<1>4. QED
  BY <1>3 DEF S

LEMMA UsedNext ==
  ASSUME NEW s \in Seq(Nat), NEW n \in 1 .. Len(s)
  PROVE  Used(s, n) = Used(s, n - 1) + s[n] /\ Used(s, n - 1) \in Nat /\ Used(s, n) \in Nat /\ s[n] \in Nat
<1>1. n - 1 \in Nat /\ (n - 1) + 1 = n /\ n - 1 \in 0 .. Len(s) /\ n \in 0 .. Len(s)
  OBVIOUS
<1>2. Used(s, (n - 1) + 1) = Used(s, n - 1) + s[(n - 1) + 1]
  BY <1>1, UsedStep
<1>3. QED
  BY <1>1, <1>2, UsedType

\* The sum of a stretch of t that is a stretch of s
LEMMA UsedShift ==
  ASSUME NEW s \in Seq(Nat), NEW t \in Seq(Nat), NEW c \in 0 .. Len(s), NEW d \in 0 .. Len(t), NEW n \in Nat,
         c + n <= Len(s), d + n <= Len(t), \A i \in 1 .. n : t[d + i] = s[c + i]
  PROVE  Used(t, d + n) = Used(t, d) + (Used(s, c + n) - Used(s, c))
<1> DEFINE S == {i \in 0 .. n : Used(t, d + i) = Used(t, d) + (Used(s, c + i) - Used(s, c))}
<1>0. Used(t, d) \in Nat /\ Used(s, c) \in Nat
  BY UsedType
<1>1. 0 \in S
  <2>1. d + 0 = d /\ c + 0 = c
    OBVIOUS
  <2>2. QED
    BY <1>0, <2>1
<1>2. ASSUME NEW i \in 0 .. n, i # n, i \in S PROVE i + 1 \in S
  <2>1. /\ i + 1 \in 0 .. n /\ i + 1 \in 1 .. n /\ d + (i + 1) = (d + i) + 1 /\ c + (i + 1) = (c + i) + 1
        /\ d + i \in Nat /\ c + i \in Nat /\ d + i \in 0 .. Len(t) /\ c + i \in 0 .. Len(s)
        /\ (d + i) + 1 \in 1 .. Len(t) /\ (c + i) + 1 \in 1 .. Len(s)
    BY <1>2
  <2>2. Used(t, (d + i) + 1) = Used(t, d + i) + t[(d + i) + 1] /\ Used(s, (c + i) + 1) = Used(s, c + i) + s[(c + i) + 1]
    BY <2>1, UsedStep
  <2>3. t[(d + i) + 1] = s[(c + i) + 1] /\ s[(c + i) + 1] \in Nat
    <3>1. t[d + (i + 1)] = s[c + (i + 1)]
      BY <2>1
    <3>2. s[(c + i) + 1] \in Nat
      BY <2>1
    <3>3. QED
      BY <2>1, <3>1, <3>2
  <2>4. Used(t, d + i) \in Nat /\ Used(s, c + i) \in Nat
    BY <2>1, UsedType
  <2>5. Used(t, d + i) = Used(t, d) + (Used(s, c + i) - Used(s, c))
    BY <1>2
  <2>6. Used(t, (d + i) + 1) = Used(t, d) + (Used(s, (c + i) + 1) - Used(s, c))
    <3>1. PICK a \in Nat : a = Used(t, d + i)
      BY <2>4
    <3>2. PICK b \in Nat : b = Used(s, c + i)
      BY <2>4
    <3>3. PICK u \in Nat : u = Used(t, d)
      BY <1>0
    <3>4. PICK v \in Nat : v = Used(s, c)
      BY <1>0
    <3>5. PICK x \in Nat : x = s[(c + i) + 1]
      BY <2>3
    <3>6. a = u + (b - v)
      BY <2>5, <3>1, <3>2, <3>3, <3>4
    <3>7. a + x = u + ((b + x) - v)
      BY <3>6
    <3>8. Used(t, (d + i) + 1) = a + x /\ Used(s, (c + i) + 1) = b + x
      BY <2>2, <2>3, <3>1, <3>2, <3>5
    <3>9. QED
      BY <3>3, <3>4, <3>7, <3>8
  <2>7. QED
    BY <2>1, <2>6
<1> HIDE DEF S
<1>9. \A i \in 0 .. n : i \in S
  BY <1>1, <1>2, Counting
<1>3. n \in S
  BY <1>9
<1>4. QED
  BY <1>3 DEF S

\* More records use more bytes, three times their slots at least
LEMMA UsedGrows ==
  ASSUME NEW s \in Seq(Nat), NEW n \in 0 .. Len(s), NEW m \in 0 .. Len(s), n <= m
  PROVE  Used(s, n) <= Used(s, m)
<1> DEFINE S == {i \in 0 .. Len(s) : n <= i => Used(s, n) <= Used(s, i)}
<1>0. Used(s, n) \in Nat
  BY UsedType
<1>1. 0 \in S
  BY <1>0
<1>2. ASSUME NEW i \in 0 .. Len(s), i # Len(s), i \in S PROVE i + 1 \in S
  <2>1. i + 1 \in 1 .. Len(s) /\ i + 1 \in 0 .. Len(s) /\ (i + 1) - 1 = i
    BY <1>2
  <2>2. Used(s, i + 1) = Used(s, i) + s[i + 1] /\ Used(s, i) \in Nat /\ s[i + 1] \in Nat
    BY <2>1, UsedNext
  <2>3. CASE n = i + 1
    BY <2>1, <2>3, <1>0
  <2>4. CASE n <= i
    BY <1>2, <1>0, <2>1, <2>2, <2>4
  <2>5. CASE ~(n <= i + 1)
    BY <2>1, <2>5
  <2>6. QED
    BY <2>3, <2>4, <2>5
<1> HIDE DEF S
<1>9. Len(s) \in Nat
  OBVIOUS
<1>10. \A i \in 0 .. Len(s) : i \in S
  BY <1>1, <1>2, <1>9, Counting
<1>3. m \in S
  BY <1>10
<1>4. QED
  BY <1>3 DEF S

LEMMA UsedSlots ==
  ASSUME NEW s \in Seq(Nat), \A i \in 1 .. Len(s) : 3 * Slot <= s[i], NEW n \in 0 .. Len(s)
  PROVE  3 * (Slot * n) <= Used(s, n) /\ Slot * n \in Nat
<1> DEFINE S == {i \in 0 .. Len(s) : 3 * (Slot * i) <= Used(s, i)}
<1>0. Slot \in Nat
  BY LayoutAssumption
<1>1. 0 \in S
  <2>1. Slot * 0 = 0
    BY <1>0
  <2>2. Used(s, 0) = 0 /\ 0 \in 0 .. Len(s) /\ 3 * 0 <= 0
    BY UsedStep
  <2>3. QED
    BY <2>1, <2>2
<1>2. ASSUME NEW i \in 0 .. Len(s), i # Len(s), i \in S PROVE i + 1 \in S
  <2>1. i + 1 \in 1 .. Len(s) /\ i + 1 \in 0 .. Len(s) /\ (i + 1) - 1 = i /\ i \in Nat
    BY <1>2
  <2>2. Used(s, i + 1) = Used(s, i) + s[i + 1] /\ Used(s, i) \in Nat /\ s[i + 1] \in Nat /\ 3 * Slot <= s[i + 1]
    BY <2>1, UsedNext
  <2>3. Slot * (i + 1) = Slot * i + Slot /\ Slot * i \in Nat
    BY <1>0, <2>1
  <2>4. 3 * (Slot * i) <= Used(s, i)
    BY <1>2
  <2>5. 3 * (Slot * (i + 1)) <= Used(s, i + 1)
    BY <1>0, <2>2, <2>3, <2>4
  <2>6. QED
    BY <2>1, <2>5
<1> HIDE DEF S
<1>9. Len(s) \in Nat
  OBVIOUS
<1>10. \A i \in 0 .. Len(s) : i \in S
  BY <1>1, <1>2, <1>9, Counting
<1>3. n \in S
  BY <1>10
<1>4. Slot * n \in Nat
  BY <1>0
<1>5. QED
  BY <1>3, <1>4 DEF S
-----------------------------------------------------------------------------
(* The page with the new record in its place *)

Inserted(s, k, x, t) ==
    /\ t \in Seq(Nat) /\ Len(t) = Len(s) + 1 /\ t[k] = x
    /\ \A i \in 1 .. k - 1 : t[i] = s[i]
    /\ \A i \in k .. Len(s) : t[i + 1] = s[i]

LEMMA Concat ==
  ASSUME NEW a \in Seq(Nat), NEW b \in Seq(Nat)
  PROVE  /\ a \o b \in Seq(Nat) /\ Len(a \o b) = Len(a) + Len(b)
         /\ \A i \in 1 .. Len(a) : (a \o b)[i] = a[i]
         /\ \A i \in 1 .. Len(b) : (a \o b)[Len(a) + i] = b[i]
<1>1. a \o b \in Seq(Nat) /\ Len(a \o b) = Len(a) + Len(b) /\ Len(a) \in Nat /\ Len(b) \in Nat
  OBVIOUS
<1>2. ASSUME NEW i \in 1 .. Len(a) PROVE (a \o b)[i] = a[i]
  OBVIOUS
<1>3. ASSUME NEW i \in 1 .. Len(b) PROVE (a \o b)[Len(a) + i] = b[i]
  OBVIOUS
<1>4. QED
  BY <1>1, <1>2, <1>3

LEMMA Insertion ==
  ASSUME NEW s \in Seq(Nat), NEW x \in Nat, NEW k \in 1 .. Len(s) + 1
  PROVE  Inserted(s, k, x, InsertAt(s, k, x))
<1>1. PICK a : a = SubSeq(s, 1, k - 1)
  OBVIOUS
<1>2. PICK b : b = SubSeq(s, k, Len(s))
  OBVIOUS
<1>3. Len(s) \in Nat /\ k \in Nat /\ 1 <= k /\ k <= Len(s) + 1
  OBVIOUS
<1>4. a \in Seq(Nat) /\ Len(a) = k - 1 /\ \A i \in 1 .. k - 1 : a[i] = s[i]
  BY <1>1, <1>3
<1>5. b \in Seq(Nat) /\ Len(b) = Len(s) + 1 - k /\ \A i \in 1 .. Len(s) + 1 - k : b[i] = s[k + i - 1]
  BY <1>2, <1>3
<1>6. PICK c : c = a \o <<x>>
  OBVIOUS
<1>7. c \in Seq(Nat) /\ Len(c) = k /\ c[k] = x /\ \A i \in 1 .. k - 1 : c[i] = s[i]
  <2>1. PICK e : e = <<x>>
    OBVIOUS
  <2>2. e \in Seq(Nat) /\ Len(e) = 1 /\ e[1] = x /\ 1 \in 1 .. Len(e)
    BY <2>1
  <2>3. /\ c \in Seq(Nat) /\ Len(c) = Len(a) + Len(e)
        /\ \A i \in 1 .. Len(a) : c[i] = a[i]
        /\ c[Len(a) + 1] = e[1]
    BY <1>4, <1>6, <2>1, <2>2, Concat, ZenonT(60)
  <2>4. Len(a) + 1 = k
    BY <1>3, <1>4
  <2>5. QED
    BY <1>4, <2>2, <2>3, <2>4
<1>8. PICK t : t = c \o b
  OBVIOUS
<1>9. InsertAt(s, k, x) = t
  BY <1>1, <1>2, <1>6, <1>8 DEF InsertAt
<1>10. /\ t \in Seq(Nat) /\ Len(t) = Len(c) + Len(b)
       /\ \A i \in 1 .. Len(c) : t[i] = c[i]
       /\ \A i \in 1 .. Len(b) : t[Len(c) + i] = b[i]
  BY <1>5, <1>7, <1>8, Concat
<1>11. Len(t) = Len(s) + 1
  BY <1>3, <1>5, <1>7, <1>10
<1>12. \A i \in 1 .. k : t[i] = c[i]
  BY <1>7, <1>10
<1>13. ASSUME NEW i \in k .. Len(s) PROVE t[i + 1] = s[i]
  <2>1. i + 1 - k \in 1 .. Len(b) /\ k + (i + 1 - k) = i + 1 /\ k + (i + 1 - k) - 1 = i
    BY <1>3, <1>5
  <2>2. t[Len(c) + (i + 1 - k)] = b[i + 1 - k]
    BY <1>10, <2>1
  <2>3. b[i + 1 - k] = s[k + (i + 1 - k) - 1]
    BY <1>5, <2>1
  <2>4. QED
    BY <1>7, <2>1, <2>2, <2>3
<1>14. k \in 1 .. k /\ \A i \in 1 .. k - 1 : i \in 1 .. k
  BY <1>3
<1>15. t[k] = x /\ \A i \in 1 .. k - 1 : t[i] = s[i]
  BY <1>7, <1>12, <1>14
<1>16. QED
  BY <1>9, <1>10, <1>11, <1>13, <1>15 DEF Inserted

\* All the records together, whatever the place of the new one
LEMMA UsedInserted ==
  ASSUME NEW s \in Seq(Nat), NEW x \in Nat, NEW k \in 1 .. Len(s) + 1, NEW t, Inserted(s, k, x, t)
  PROVE  Used(t, Len(s) + 1) = Used(s, Len(s)) + x
<1>1. PICK n : n = Len(s)
  OBVIOUS
<1>2. /\ n \in Nat /\ k \in Nat /\ 1 <= k /\ k <= n + 1 /\ t \in Seq(Nat) /\ Len(t) = n + 1 /\ Len(s) = n
      /\ k - 1 \in Nat /\ k - 1 \in 0 .. n /\ k \in 1 .. n + 1 /\ k \in 0 .. n + 1 /\ n \in 0 .. n
      /\ n - (k - 1) \in Nat
  BY <1>1 DEF Inserted
<1>3. Used(t, k - 1) = Used(s, k - 1)
  <2>1. /\ 0 \in 0 .. Len(s) /\ 0 \in 0 .. Len(t) /\ 0 + (k - 1) <= Len(s) /\ 0 + (k - 1) <= Len(t)
        /\ 0 + (k - 1) = k - 1
    BY <1>2
  <2>2. \A i \in 1 .. k - 1 : t[0 + i] = s[0 + i]
    BY <1>2 DEF Inserted
  <2>3. Used(t, 0 + (k - 1)) = Used(t, 0) + (Used(s, 0 + (k - 1)) - Used(s, 0))
    BY <1>2, <2>1, <2>2, UsedShift, ZenonT(60)
  <2>4. Used(t, 0) = 0 /\ Used(s, 0) = 0 /\ Used(s, k - 1) \in Nat
    BY <1>2, UsedStep, UsedType
  <2>5. QED
    BY <2>1, <2>3, <2>4
<1>4. Used(t, k) = Used(t, k - 1) + x
  BY <1>2, UsedNext DEF Inserted
<1>5. Used(t, n + 1) = Used(t, k) + (Used(s, n) - Used(s, k - 1))
  <2>1. (k - 1) + (n - (k - 1)) = n /\ k + (n - (k - 1)) = n + 1
    BY <1>2
  <2>2. ASSUME NEW i \in 1 .. n - (k - 1) PROVE t[k + i] = s[(k - 1) + i]
    <3>1. (k - 1) + i \in k .. Len(s) /\ ((k - 1) + i) + 1 = k + i
      BY <1>2
    <3>2. QED
      BY <3>1 DEF Inserted
  <2>3. Used(t, k + (n - (k - 1))) = Used(t, k) + (Used(s, (k - 1) + (n - (k - 1))) - Used(s, k - 1))
    <3>1. PICK j \in Nat : j = n - (k - 1)
      BY <1>2
    <3>2. k - 1 \in 0 .. Len(s) /\ k \in 0 .. Len(t) /\ (k - 1) + j <= Len(s) /\ k + j <= Len(t)
      BY <1>2, <3>1
    <3>3. Used(t, k + j) = Used(t, k) + (Used(s, (k - 1) + j) - Used(s, k - 1))
      BY <1>2, <2>2, <3>1, <3>2, UsedShift, ZenonT(60)
    <3>4. QED
      BY <3>1, <3>3
  <2>4. QED
    BY <2>1, <2>3
<1>6. Used(s, n) \in Nat /\ Used(s, k - 1) \in Nat
  BY <1>2, UsedType
<1>7. QED
  BY <1>1, <1>2, <1>3, <1>4, <1>5, <1>6
-----------------------------------------------------------------------------
(* The inductive invariant.  While the loop runs, off slots are on the     *)
(* left page, nxt counts the new record only when it is behind it, and no  *)
(* front of them was enough; afterwards what matters of nxt is whether the *)
(* record under the cursor is among the first nxt.                         *)

Page ==
    /\ sizes \in Seq(Record) /\ ilen \in Record /\ skip \in 1 .. Len(sizes) + 1 /\ record \in 1 .. Len(sizes)
    /\ Fits(sizes) /\ ~Fits(Append(sizes, ilen))

Copying ==
    pc = "copy" =>
        /\ off \in 0 .. Len(sizes) + 1 /\ nxt \in 0 .. Len(sizes)
        /\ nxt = IF skip <= off THEN off - 1 ELSE off
        /\ used = Used(Slots, off)
        /\ NoBigKey => \A m \in 1 .. off : ~Half(Used(Slots, m))

Copied ==
    pc # "copy" =>
        /\ off \in Nat /\ nxt \in Nat
        /\ skip > off => nxt = off
        /\ skip <= off => nxt >= skip - 1

CursorInv == pc # "done" => cursor = [page |-> "h", index |-> record]

IInv == Page /\ Copying /\ Copied /\ CursorInv /\ LoopIsCut /\ SmallRecordsSplit /\ CursorFollowsApart

LEMMA Halves ==
  /\ Full \in Nat /\ Full \div 2 \in Nat /\ 2 * (Full \div 2) <= Full /\ Full <= 2 * (Full \div 2) + 1
  /\ Full \div 4 \in Nat /\ 4 * (Full \div 4) <= Full /\ Full \div 4 <= Full \div 2
BY LayoutAssumption

LEMMA RecordSizes ==
  /\ Record \subseteq Nat /\ \A r \in Record : 3 * Slot <= r
BY SplitAssumption

LEMMA RecordSeq ==
  ASSUME NEW s \in Seq(Record)
  PROVE  s \in Seq(Nat) /\ \A i \in 1 .. Len(s) : s[i] \in Record
<1>1. \A i \in 1 .. Len(s) : s[i] \in Record
  OBVIOUS
<1>2. \A i \in 1 .. Len(s) : s[i] \in Nat
  BY <1>1, RecordSizes
<1>3. s = [i \in 1 .. Len(s) |-> s[i]] /\ Len(s) \in Nat
  OBVIOUS
<1>4. s \in Seq(Nat)
  BY <1>2, <1>3
<1>5. QED
  BY <1>1, <1>4

LEMMA SlotFacts ==
  ASSUME Page
  PROVE  /\ sizes \in Seq(Nat) /\ Len(sizes) \in Nat /\ Inserted(sizes, skip, ilen, Slots)
         /\ Slots \in Seq(Nat) /\ Len(Slots) = Len(sizes) + 1 /\ DOMAIN Slots = 1 .. Len(sizes) + 1
         /\ \A i \in 1 .. Len(Slots) : 3 * Slot <= Slots[i]
<1>1. sizes \in Seq(Nat) /\ ilen \in Nat /\ skip \in 1 .. Len(sizes) + 1 /\ Len(sizes) \in Nat
  BY RecordSeq, RecordSizes DEF Page
<1>2. PICK t : t = Slots
  OBVIOUS
<1>3. Inserted(sizes, skip, ilen, t)
  BY <1>1, <1>2, Insertion DEF Slots
<1>4. t \in Seq(Nat) /\ Len(t) = Len(sizes) + 1
  BY <1>3 DEF Inserted
<1>5. ASSUME NEW i \in 1 .. Len(t) PROVE t[i] \in Record
  <2>1. i \in Nat /\ skip \in Nat /\ Len(sizes) \in Nat
    BY <1>1, <1>4
  <2>2. CASE i = skip
    BY <2>2, <1>3 DEF Inserted, Page
  <2>3. CASE i < skip
    <3>1. i \in 1 .. skip - 1 /\ i \in 1 .. Len(sizes)
      BY <2>1, <2>3, <1>1
    <3>2. t[i] = sizes[i]
      BY <3>1, <1>3 DEF Inserted
    <3>3. QED
      BY <3>1, <3>2, RecordSeq DEF Page
  <2>4. CASE i > skip
    <3>1. i - 1 \in skip .. Len(sizes) /\ i - 1 \in 1 .. Len(sizes) /\ (i - 1) + 1 = i
      BY <2>1, <2>4, <1>1, <1>4
    <3>2. t[(i - 1) + 1] = sizes[i - 1]
      BY <3>1, <1>3 DEF Inserted
    <3>3. QED
      BY <3>1, <3>2, RecordSeq DEF Page
  <2>5. QED
    BY <2>1, <2>2, <2>3, <2>4
<1>6. \A i \in 1 .. Len(t) : 3 * Slot <= t[i]
  BY <1>5, RecordSizes
<1>7. DOMAIN t = 1 .. Len(sizes) + 1
  BY <1>4
<1>8. QED
  BY <1>1, <1>2, <1>3, <1>4, <1>6, <1>7

\* All the records together are more than three quarters of the page
LEMMA TooMuch ==
  ASSUME Page
  PROVE  /\ Used(Slots, Len(sizes) + 1) = Used(sizes, Len(sizes)) + ilen
         /\ Used(sizes, Len(sizes)) \in Nat /\ ilen \in Nat /\ Used(Slots, Len(sizes) + 1) \in Nat
         /\ 3 * Full < 4 * Used(Slots, Len(sizes) + 1)
<1>1. PICK n : n = Len(sizes)
  OBVIOUS
<1>2. /\ sizes \in Seq(Nat) /\ n \in Nat /\ ilen \in Nat /\ n = Len(sizes) /\ n \in 0 .. n /\ n + 1 \in 1 .. Len(sizes) + 1
      /\ Inserted(sizes, skip, ilen, Slots) /\ skip \in 1 .. Len(sizes) + 1
  BY <1>1, SlotFacts, RecordSizes DEF Page
<1>3. Used(Slots, n + 1) = Used(sizes, n) + ilen
  BY <1>2, UsedInserted
<1>4. Used(sizes, n) \in Nat
  BY <1>2, UsedType
<1>5. PICK a : a = Append(sizes, ilen)
  OBVIOUS
<1>6. a \in Seq(Nat) /\ Len(a) = n + 1 /\ Inserted(sizes, n + 1, ilen, a)
  BY <1>2, <1>5 DEF Inserted
<1>7. Used(a, n + 1) = Used(sizes, n) + ilen
  BY <1>2, <1>6, UsedInserted
<1>8. PICK u \in Nat : u = Used(a, n + 1)
  BY <1>2, <1>4, <1>7
<1>9. 3 * (Slot * (n + 1)) <= u /\ Slot * (n + 1) \in Nat
  <2>1. ASSUME NEW i \in 1 .. Len(a) PROVE 3 * Slot <= a[i]
    <3>1. a \in Seq(Record) /\ a[i] \in Record
      BY <1>5 DEF Page
    <3>2. QED
      BY <3>1, RecordSizes
  <2>2. n + 1 \in 0 .. Len(a)
    BY <1>2, <1>6
  <2>3. QED
    BY <1>6, <1>8, <2>1, <2>2, UsedSlots
<1>10. ~(u + Slot * (n + 1) <= Full)
  BY <1>5, <1>6, <1>8 DEF Page, Fits, Room
<1>11. PICK v \in Nat : v = Slot * (n + 1)
  BY <1>9
<1>12. 3 * Full < 4 * u
  BY <1>9, <1>10, <1>11, Halves
<1>13. QED
  BY <1>1, <1>2, <1>3, <1>4, <1>7, <1>8, <1>12

LEMMA BytesIs ==
  ASSUME Page, Copying, pc = "copy", nxt < Len(sizes)
  PROVE  /\ off \in 0 .. Len(sizes) /\ off + 1 \in 1 .. Len(Slots)
         /\ Bytes = Slots[off + 1] /\ used + Bytes = Used(Slots, off + 1)
<1>1. PICK t : t = Slots
  OBVIOUS
<1>2. PICK n : n = Len(sizes)
  OBVIOUS
<1>3. /\ t \in Seq(Nat) /\ Len(t) = n + 1 /\ n \in Nat /\ skip \in 1 .. n + 1
      /\ Inserted(sizes, skip, ilen, t)
  BY <1>1, <1>2, SlotFacts DEF Page
<1>4. off \in 0 .. n + 1 /\ nxt \in 0 .. n /\ nxt = (IF skip <= off THEN off - 1 ELSE off) /\ nxt < n /\ used = Used(t, off)
  BY <1>1, <1>2 DEF Copying
<1>5. off \in 0 .. n /\ off + 1 \in 1 .. n + 1 /\ off \in Nat
  BY <1>3, <1>4
<1>6. Bytes = t[off + 1]
  <2>1. CASE skip = off + 1
    BY <2>1, <1>3 DEF Bytes, Inserted
  <2>2. CASE skip <= off
    <3>1. off \in skip .. Len(sizes) /\ nxt + 1 = off /\ skip # off + 1
      BY <2>2, <1>2, <1>3, <1>4, <1>5
    <3>2. t[off + 1] = sizes[off]
      BY <3>1, <1>3 DEF Inserted
    <3>3. QED
      BY <3>1, <3>2 DEF Bytes
  <2>3. CASE skip > off + 1
    <3>1. off + 1 \in 1 .. skip - 1 /\ nxt = off /\ skip # off + 1
      BY <2>3, <1>3, <1>4, <1>5
    <3>2. t[off + 1] = sizes[off + 1]
      BY <3>1, <1>3 DEF Inserted
    <3>3. QED
      BY <3>1, <3>2 DEF Bytes
  <2>4. QED
    BY <2>1, <2>2, <2>3, <1>3, <1>5
<1>7. Used(t, off + 1) = Used(t, off) + t[off + 1]
  BY <1>5, UsedStep
<1>8. QED
  BY <1>1, <1>2, <1>3, <1>4, <1>5, <1>6, <1>7

\* Where Cut cuts
LEMMA CutIs ==
  ASSUME NEW t \in Seq(Nat), NEW k \in 1 .. Len(t), NEW n \in 1 .. Len(t),
         \A m \in 1 .. n - 1 : ~Half(Used(t, m)), Half(Used(t, n)) \/ n = Len(t)
  PROVE  Cut(t, k) = IF k <= n /\ ~(k = n /\ n = Len(t)) /\ Used(t, n) >= Full THEN n - 1 ELSE n
<1> DEFINE enough == {i \in 1 .. Len(t) : Used(t, i) >= Full \div 2}
           c == IF enough = {} THEN Len(t) ELSE CHOOSE i \in enough : \A m \in enough : i <= m
<1>1. Cut(t, k) = IF k <= c /\ ~(k = c /\ c = Len(t)) /\ Used(t, c) >= Full THEN c - 1 ELSE c
  BY DEF Cut
<1>2. \A i : i \in enough <=> i \in 1 .. Len(t) /\ Half(Used(t, i))
  BY DEF Half
<1> HIDE DEF enough
<1>7. c = IF enough = {} THEN Len(t) ELSE CHOOSE i \in enough : \A m \in enough : i <= m
  OBVIOUS
<1> HIDE DEF c
<1>3. \A i \in enough : i \in 1 .. Len(t) /\ n <= i
  <2>1. SUFFICES ASSUME NEW i \in 1 .. Len(t), Half(Used(t, i)), ~(n <= i) PROVE FALSE
    BY <1>2
  <2>2. i \in 1 .. n - 1
    BY <2>1
  <2>3. QED
    BY <2>1, <2>2
<1>4. CASE Half(Used(t, n))
  <2>1. n \in enough
    BY <1>2, <1>4
  <2>2. \A i \in enough : (\A m \in enough : i <= m) => i = n
    <3>1. SUFFICES ASSUME NEW i \in enough, \A m \in enough : i <= m PROVE i = n
      OBVIOUS
    <3>2. i <= n /\ n <= i /\ i \in 1 .. Len(t)
      BY <2>1, <3>1, <1>3
    <3>3. QED
      BY <3>2
  <2>3. \E i \in enough : \A m \in enough : i <= m
    BY <2>1, <1>3
  <2>4. c = n
    BY <1>7, <2>1, <2>2, <2>3
  <2>5. QED
    BY <1>1, <2>4
<1>5. CASE ~Half(Used(t, n))
  <2>1. n = Len(t)
    BY <1>5
  <2>2. enough = {}
    <3>1. SUFFICES ASSUME NEW i \in enough PROVE FALSE
      OBVIOUS
    <3>2. i \in 1 .. Len(t) /\ n <= i /\ Half(Used(t, i))
      BY <1>2, <1>3
    <3>3. i = n
      BY <2>1, <3>2
    <3>4. QED
      BY <1>5, <3>2, <3>3
  <2>3. c = n
    BY <1>7, <2>1, <2>2
  <2>4. QED
    BY <1>1, <2>3
<1>6. QED
  BY <1>4, <1>5

\* The records of a page are small: none has an overflow key or takes more
\* than a quarter of it
Small == NoBigKey /\ \A i \in DOMAIN Slots : Slots[i] <= Full \div 4

\* The first n records that are half a page are neither all of them nor a page
LEMMA NearHalf ==
  ASSUME Page, Small, NEW n \in 1 .. Len(sizes) + 1, \A m \in 1 .. n - 1 : ~Half(Used(Slots, m))
  PROVE  /\ Used(Slots, n) \in Nat /\ Used(Slots, n) + 1 <= Full \div 2 + Full \div 4
         /\ n <= Len(sizes) /\ Used(Slots, n) < Full
<1>1. PICK t : t = Slots
  OBVIOUS
<1>2. PICK l \in Nat : l = Len(sizes)
  BY SlotFacts
<1>3. t \in Seq(Nat) /\ Len(t) = l + 1 /\ n \in 1 .. Len(t) /\ n \in Nat /\ 1 <= n /\ n <= l + 1
  BY <1>1, <1>2, SlotFacts
<1>4. PICK h \in Nat : h = Full \div 2
  BY Halves
<1>5. PICK q \in Nat : q = Full \div 4
  BY Halves
<1>6. Full \in Nat /\ 2 * h <= Full /\ 4 * q <= Full
  BY <1>4, <1>5, Halves
<1>7. 1 <= h
  BY <1>4, SplitAssumption, LayoutAssumption DEF Page
<1>8. Used(t, n) = Used(t, n - 1) + t[n] /\ Used(t, n - 1) \in Nat /\ Used(t, n) \in Nat /\ t[n] \in Nat
  BY <1>3, UsedNext
<1>9. t[n] <= q
  <2>1. n \in DOMAIN Slots
    BY <1>2, SlotFacts
  <2>2. QED
    BY <1>1, <1>5, <2>1 DEF Small
<1>10. Used(t, n - 1) + 1 <= h
  <2>1. CASE n = 1
    <3>1. Used(t, n - 1) = 0
      BY <2>1, UsedStep
    <3>2. QED
      BY <3>1, <1>7
  <2>2. CASE n # 1
    <3>1. n - 1 \in 1 .. n - 1
      BY <2>2, <1>3
    <3>2. ~(Used(t, n - 1) >= h)
      BY <3>1, <1>1, <1>4 DEF Half
    <3>3. QED
      BY <3>2, <1>8
  <2>3. QED
    BY <2>1, <2>2
<1>11. PICK u \in Nat : u = Used(t, n)
  BY <1>8
<1>12. u + 1 <= h + q
  <2>1. PICK v \in Nat : v = Used(t, n - 1)
    BY <1>8
  <2>2. PICK x \in Nat : x = t[n]
    BY <1>8
  <2>3. u = v + x /\ x <= q /\ v + 1 <= h
    BY <1>8, <1>9, <1>10, <1>11, <2>1, <2>2
  <2>4. QED
    BY <2>3
<1>13. 4 * u < 3 * Full /\ u < Full
  BY <1>6, <1>12
<1>14. n # l + 1
  <2>1. 3 * Full < 4 * Used(Slots, l + 1)
    BY <1>2, TooMuch
  <2>2. SUFFICES ASSUME n = l + 1 PROVE FALSE
    OBVIOUS
  <2>3. 3 * Full < 4 * u
    BY <1>1, <1>11, <2>1, <2>2
  <2>4. QED
    BY <1>6, <1>13, <2>3
<1>15. n <= l
  BY <1>3, <1>14
<1>16. QED
  BY <1>1, <1>2, <1>4, <1>5, <1>11, <1>12, <1>13, <1>15

\* Cut there, both pages have records and room for them
LEMMA HalfIsGood ==
  ASSUME Page, Small, NEW c \in 1 .. Len(sizes), Half(Used(Slots, c)), Used(Slots, c) \in Nat,
         Used(Slots, c) + 1 <= Full \div 2 + Full \div 4
  PROVE  /\ SubSeq(Slots, 1, c) # <<>> /\ Fits(SubSeq(Slots, 1, c))
         /\ SubSeq(Slots, c + 1, Len(Slots)) # <<>> /\ Fits(SubSeq(Slots, c + 1, Len(Slots)))
<1>1. PICK t : t = Slots
  OBVIOUS
<1>2. PICK l \in Nat : l = Len(sizes)
  BY SlotFacts
<1>3. t \in Seq(Nat) /\ Len(t) = l + 1 /\ c \in 1 .. l /\ c \in Nat /\ l + 1 - c \in Nat
  BY <1>1, <1>2, SlotFacts
<1>4. PICK h \in Nat : h = Full \div 2
  BY Halves
<1>5. PICK q \in Nat : q = Full \div 4
  BY Halves
<1>6. Full \in Nat /\ 2 * h <= Full /\ Full <= 2 * h + 1 /\ 4 * q <= Full
  BY <1>4, <1>5, Halves
<1>7. PICK u \in Nat : u = Used(t, c)
  BY <1>1
<1>8. h <= u /\ u + 1 <= h + q
  BY <1>1, <1>4, <1>5, <1>7 DEF Half
<1>9. PICK a : a = SubSeq(t, 1, c)
  OBVIOUS
<1>10. PICK b : b = SubSeq(t, c + 1, l + 1)
  OBVIOUS
<1>11. a \in Seq(Nat) /\ Len(a) = c /\ \A i \in 1 .. c : a[i] = t[i]
  <2>1. a \in Seq(Nat)
    BY <1>3, <1>9, SMTT(60)
  <2>2. Len(a) = c
    BY <1>3, <1>9
  <2>3. \A i \in 1 .. c : a[i] = t[i]
    BY <1>3, <1>9
  <2>4. QED
    BY <2>1, <2>2, <2>3
<1>12. b \in Seq(Nat) /\ Len(b) = l + 1 - c /\ \A i \in 1 .. l + 1 - c : b[i] = t[c + i]
  <2>1. b \in Seq(Nat)
    BY <1>3, <1>10, SMTT(60)
  <2>2. Len(b) = l + 1 - c
    BY <1>3, <1>10
  <2>3. ASSUME NEW i \in 1 .. l + 1 - c PROVE b[i] = t[c + i]
    <3>1. b[i] = t[(c + 1) + i - 1] /\ (c + 1) + i - 1 = c + i
      BY <1>3, <1>10
    <3>2. QED
      BY <3>1
  <2>4. QED
    BY <2>1, <2>2, <2>3
<1>13. Fits(a)
  <2>1. Used(a, c) = u
    <3>1. /\ 0 \in 0 .. Len(t) /\ 0 \in 0 .. Len(a) /\ 0 + c <= Len(t) /\ 0 + c <= Len(a) /\ 0 + c = c
      BY <1>3, <1>11
    <3>2. \A i \in 1 .. c : a[0 + i] = t[0 + i]
      BY <1>11
    <3>3. Used(a, 0 + c) = Used(a, 0) + (Used(t, 0 + c) - Used(t, 0))
      BY <1>3, <1>11, <3>1, <3>2, UsedShift, ZenonT(60)
    <3>4. Used(a, 0) = 0 /\ Used(t, 0) = 0
      BY UsedStep
    <3>5. QED
      BY <1>7, <3>1, <3>3, <3>4
  <2>2. 3 * (Slot * c) <= u /\ Slot * c \in Nat
    <3>1. c \in 0 .. Len(t) /\ \A i \in 1 .. Len(t) : 3 * Slot <= t[i]
      BY <1>1, <1>3, SlotFacts
    <3>2. QED
      BY <1>3, <1>7, <3>1, UsedSlots
  <2>3. PICK v \in Nat : v = Slot * c
    BY <2>2
  <2>4. u + v <= Full
    BY <1>6, <1>8, <2>2, <2>3
  <2>5. QED
    BY <1>11, <2>1, <2>3, <2>4 DEF Fits, Room
<1>14. Fits(b)
  <2>1. PICK w \in Nat : w = Used(t, l + 1)
    BY <1>1, <1>2, TooMuch
  <2>2. PICK d \in Nat : d = l + 1 - c
    BY <1>3
  <2>3. Used(b, d) = w - u
    <3>1. /\ c \in 0 .. Len(t) /\ 0 \in 0 .. Len(b) /\ c + d <= Len(t) /\ 0 + d <= Len(b) /\ 0 + d = d /\ c + d = l + 1
      <4>1. Len(t) = l + 1 /\ Len(b) = d /\ c \in 1 .. l
        BY <1>3, <1>12, <2>2
      <4>2. d = l + 1 - c
        BY <2>2
      <4>3. QED
        BY <4>1, <4>2
    <3>2. \A i \in 1 .. d : b[0 + i] = t[c + i]
      BY <1>12, <2>2
    <3>3. Used(b, 0 + d) = Used(b, 0) + (Used(t, c + d) - Used(t, c))
      BY <1>3, <1>12, <3>1, <3>2, UsedShift, ZenonT(60)
    <3>4. Used(b, 0) = 0
      BY UsedStep
    <3>5. Used(b, d) = 0 + (w - u)
      BY <1>7, <2>1, <3>1, <3>3, <3>4
    <3>6. QED
      BY <3>5
  <2>4. PICK s \in Nat : s = Used(sizes, l)
    BY <1>2, TooMuch
  <2>5. w = s + ilen /\ ilen \in Nat /\ ilen <= q
    <3>1. w = s + ilen /\ ilen \in Nat
      BY <1>1, <1>2, <2>1, <2>4, TooMuch
    <3>2. skip \in DOMAIN Slots /\ Slots[skip] = ilen
      BY SlotFacts DEF Page, Inserted
    <3>3. QED
      BY <1>5, <3>1, <3>2 DEF Small
  <2>6. Slot \in Nat /\ Slot * d \in Nat /\ Slot * l \in Nat /\ Slot * d <= Slot * l
    <3>1. Slot \in Nat
      BY LayoutAssumption
    <3>2. PICK e \in Nat : l = d + e
      BY <1>3, <2>2
    <3>3. Slot * l = Slot * d + Slot * e /\ Slot * d \in Nat /\ Slot * e \in Nat
      BY <3>1, <3>2
    <3>4. QED
      BY <3>1, <3>3
  <2>7. s + Slot * l <= Full
    BY <1>2, <2>4 DEF Page, Fits, Room
  <2>8. PICK v \in Nat : v = Slot * d
    BY <2>6
  <2>9. PICK z \in Nat : z = Slot * l
    BY <2>6
  <2>10. (w - u) + v <= Full
    BY <1>6, <1>8, <2>5, <2>6, <2>7, <2>8, <2>9
  <2>11. QED
    BY <1>12, <2>2, <2>3, <2>8, <2>10 DEF Fits, Room
<1>15. a # <<>> /\ b # <<>>
  BY <1>3, <1>11, <1>12
<1>16. QED
  BY <1>1, <1>2, <1>3, <1>9, <1>10, <1>13, <1>14, <1>15
-----------------------------------------------------------------------------
(* The steps *)

\* The page does not change, nor does what is said of it
LEMMA PageKept ==
  ASSUME Page, UNCHANGED <<sizes, ilen, skip, record>>
  PROVE  Page' /\ Slots' = Slots /\ NoBigKey' = NoBigKey /\ Small' = Small
<1>1. Slots' = Slots
  BY DEF Slots
<1>2. NoBigKey' = NoBigKey
  BY <1>1 DEF NoBigKey
<1>3. Small' = Small
  BY <1>1, <1>2 DEF Small
<1>4. Page'
  BY ZenonT(60) DEF Page, Fits, Room, Used
<1>5. QED
  BY <1>1, <1>2, <1>3, <1>4

\* A turn of the loop takes the next slot to the left page
LEMMA CopyStep ==
  ASSUME IInv, Copy
  PROVE  IInv'
<1>1. Page' /\ Slots' = Slots /\ NoBigKey' = NoBigKey /\ Small' = Small
  BY PageKept DEF IInv, Copy
<1>2. PICK t : t = Slots
  OBVIOUS
<1>3. PICK l \in Nat : l = Len(sizes)
  BY SlotFacts DEF IInv
<1>4. PICK n \in Nat : n = off + 1
  BY BytesIs DEF IInv, Copy
<1>5. /\ t \in Seq(Nat) /\ Len(t) = l + 1 /\ n \in 1 .. l + 1 /\ skip \in 1 .. l + 1
      /\ Bytes = t[n] /\ used + Bytes = Used(t, n) /\ DOMAIN t = 1 .. l + 1
  BY <1>2, <1>3, <1>4, SlotFacts, BytesIs DEF IInv, Copy, Page
<1>6. /\ off \in 0 .. l /\ off = n - 1 /\ nxt \in 0 .. l /\ nxt < l
      /\ nxt = (IF skip <= off THEN off - 1 ELSE off)
      /\ NoBigKey => \A m \in 1 .. n - 1 : ~Half(Used(t, m))
  <2>1. off \in 0 .. l /\ off = n - 1
    BY <1>3, <1>4, BytesIs DEF IInv, Copy
  <2>2. QED
    BY <1>2, <1>3, <2>1 DEF IInv, Copying, Copy
<1>7. /\ pc = "copy" /\ off' = n /\ used' = Used(t, n) /\ cursor' = cursor /\ record' = record /\ sizes' = sizes /\ skip' = skip
      /\ nxt' = (IF skip = n THEN nxt ELSE nxt + 1)
      /\ pc' = (IF Half(used') /\ ~Avoid THEN "adjust" ELSE "copy")
      /\ ~(skip <= n /\ Used(t, n) >= Full)
  BY <1>4, <1>5 DEF Copy, Overrun
<1>8. NoBigKey => pc' = (IF Half(Used(t, n)) THEN "adjust" ELSE "copy")
  <2>1. NoBigKey => ~Avoid
    BY <1>2, <1>5 DEF NoBigKey, Avoid
  <2>2. QED
    BY <1>7, <2>1
<1>9. nxt' \in 0 .. l /\ nxt' = IF skip <= n THEN n - 1 ELSE n
  BY <1>5, <1>6, <1>7
<1>10. Copying'
  <2>1. SUFFICES ASSUME pc' = "copy" PROVE Copying'
    BY DEF Copying
  <2>2. NoBigKey => \A m \in 1 .. n : ~Half(Used(t, m))
    <3>1. SUFFICES ASSUME NoBigKey, NEW m \in 1 .. n PROVE ~Half(Used(t, m))
      OBVIOUS
    <3>2. ~Half(Used(t, n))
      BY <1>8, <2>1, <3>1
    <3>3. m = n \/ m \in 1 .. n - 1
      BY <1>5
    <3>4. QED
      BY <1>6, <3>1, <3>2, <3>3
  <2>3. off' \in 0 .. Len(sizes') + 1 /\ nxt' \in 0 .. Len(sizes')
    BY <1>3, <1>5, <1>7, <1>9
  <2>4. nxt' = IF skip' <= off' THEN off' - 1 ELSE off'
    BY <1>7, <1>9
  <2>5. used' = Used(Slots', off')
    BY <1>1, <1>2, <1>7
  <2>6. NoBigKey' => \A m \in 1 .. off' : ~Half(Used(Slots', m))
    BY <1>1, <1>2, <1>7, <2>2
  <2>7. QED
    BY <2>3, <2>4, <2>5, <2>6 DEF Copying, Half
<1>11. Copied'
  BY <1>5, <1>7, <1>9 DEF Copied
<1>12. CursorInv' /\ CursorFollowsApart'
  BY <1>7 DEF IInv, CursorInv, CursorFollowsApart
<1>13. LoopIsCut'
  <2>1. SUFFICES ASSUME pc' # "copy", NoBigKey PROVE off' = Cut(Slots', skip')
    BY <1>1 DEF LoopIsCut
  <2>2. Half(Used(t, n))
    BY <1>8, <2>1
  <2>3. Cut(t, skip) = IF skip <= n /\ ~(skip = n /\ n = Len(t)) /\ Used(t, n) >= Full THEN n - 1 ELSE n
    <3>1. skip \in 1 .. Len(t) /\ n \in 1 .. Len(t)
      BY <1>5
    <3>2. QED
      BY <1>5, <1>6, <2>1, <2>2, <3>1, CutIs
  <2>4. Cut(t, skip) = n
    BY <1>7, <2>3
  <2>5. QED
    BY <1>1, <1>2, <1>7, <2>4
<1>14. SmallRecordsSplit'
  <2>1. CASE pc' = "copy"
    BY <2>1 DEF SmallRecordsSplit
  <2>2. CASE pc' # "copy" /\ ~Small
    BY <1>1, <2>2 DEF SmallRecordsSplit, Small
  <2>3. CASE pc' # "copy" /\ Small
    <3>1. NoBigKey /\ Half(Used(t, n))
      BY <1>8, <2>3 DEF Small
    <3>2. n \in 1 .. Len(sizes) + 1 /\ \A m \in 1 .. n - 1 : ~Half(Used(Slots, m))
      BY <1>2, <1>3, <1>5, <1>6, <3>1
    <3>3. Used(t, n) \in Nat /\ Used(t, n) + 1 <= Full \div 2 + Full \div 4 /\ n <= Len(sizes)
      BY <1>2, <2>3, <3>2, NearHalf DEF IInv
    <3>4. n \in 1 .. Len(sizes)
      BY <1>3, <1>5, <3>3
    <3>5. /\ SubSeq(Slots, 1, n) # <<>> /\ Fits(SubSeq(Slots, 1, n))
          /\ SubSeq(Slots, n + 1, Len(Slots)) # <<>> /\ Fits(SubSeq(Slots, n + 1, Len(Slots)))
      BY <1>2, <2>3, <3>1, <3>3, <3>4, HalfIsGood DEF IInv
    <3>6. Left' = SubSeq(Slots, 1, n) /\ Right' = SubSeq(Slots, n + 1, Len(Slots))
      BY <1>1, <1>7 DEF Left, Right
    <3>7. GoodSplit'
      BY <3>5, <3>6 DEF GoodSplit, Fits, Room, Used
    <3>8. QED
      BY <3>7 DEF SmallRecordsSplit
  <2>4. QED
    BY <2>1, <2>2, <2>3
<1>15. QED
  BY <1>1, <1>10, <1>11, <1>12, <1>13, <1>14 DEF IInv

\* The loop stops before a slot that would overrun the left page
LEMMA StopStep ==
  ASSUME IInv, Stop
  PROVE  IInv'
<1>1. Page' /\ Slots' = Slots /\ NoBigKey' = NoBigKey /\ Small' = Small
  BY PageKept DEF IInv, Stop
<1>2. PICK t : t = Slots
  OBVIOUS
<1>3. PICK l \in Nat : l = Len(sizes)
  BY SlotFacts DEF IInv
<1>4. PICK n \in Nat : n = off + 1
  BY BytesIs DEF IInv, Stop
<1>5. /\ t \in Seq(Nat) /\ Len(t) = l + 1 /\ n \in 1 .. l + 1 /\ skip \in 1 .. l + 1
      /\ used + Bytes = Used(t, n)
  BY <1>2, <1>3, <1>4, SlotFacts, BytesIs DEF IInv, Stop, Page
<1>6. /\ off \in 0 .. l /\ off = n - 1 /\ nxt \in 0 .. l /\ nxt < l
      /\ nxt = (IF skip <= off THEN off - 1 ELSE off)
      /\ NoBigKey => \A m \in 1 .. n - 1 : ~Half(Used(t, m))
  <2>1. off \in 0 .. l /\ off = n - 1
    BY <1>3, <1>4, BytesIs DEF IInv, Stop
  <2>2. QED
    BY <1>2, <1>3, <2>1 DEF IInv, Copying, Stop
<1>7. /\ pc' = "adjust" /\ off' = off /\ nxt' = nxt /\ cursor' = cursor /\ record' = record /\ skip' = skip
      /\ pc = "copy" /\ skip <= n /\ Used(t, n) >= Full
  BY <1>4, <1>5 DEF Stop, Overrun
<1>8. Copying'
  BY <1>7 DEF Copying
<1>9. Copied'
  BY <1>5, <1>6, <1>7 DEF Copied
<1>10. CursorInv' /\ CursorFollowsApart'
  BY <1>7 DEF IInv, CursorInv, CursorFollowsApart
<1>11. LoopIsCut'
  <2>1. SUFFICES ASSUME NoBigKey PROVE off' = Cut(Slots', skip')
    BY <1>1 DEF LoopIsCut
  <2>2. Half(Used(t, n))
    <3>1. Used(t, n) \in Nat
      BY <1>5, UsedNext
    <3>2. PICK u \in Nat : u = Used(t, n)
      BY <3>1
    <3>3. u >= Full \div 2
      BY <1>7, <3>2, Halves
    <3>4. QED
      BY <3>2, <3>3 DEF Half
  <2>3. Cut(t, skip) = IF skip <= n /\ ~(skip = n /\ n = Len(t)) /\ Used(t, n) >= Full THEN n - 1 ELSE n
    <3>1. skip \in 1 .. Len(t) /\ n \in 1 .. Len(t)
      BY <1>5
    <3>2. QED
      BY <1>5, <1>6, <2>1, <2>2, <3>1, CutIs
  <2>4. ~(skip = n /\ n = l + 1)
    BY <1>5, <1>6
  <2>5. Cut(t, skip) = n - 1
    BY <1>5, <1>7, <2>3, <2>4
  <2>6. QED
    BY <1>1, <1>2, <1>6, <1>7, <2>5
<1>12. SmallRecordsSplit'
  <2>1. ~Small
    <3>1. SUFFICES ASSUME Small PROVE FALSE
      OBVIOUS
    <3>2. n \in 1 .. Len(sizes) + 1 /\ \A m \in 1 .. n - 1 : ~Half(Used(Slots, m))
      BY <1>2, <1>3, <1>5, <1>6, <3>1 DEF Small
    <3>3. Used(t, n) \in Nat /\ Used(t, n) < Full
      BY <1>2, <3>1, <3>2, NearHalf DEF IInv
    <3>4. QED
      BY <1>7, <3>3, Halves
  <2>2. QED
    BY <1>1, <2>1 DEF SmallRecordsSplit, Small
<1>13. QED
  BY <1>1, <1>8, <1>9, <1>10, <1>11, <1>12 DEF IInv

\* The loop runs out of records: the new one is the last, or an overflow key
\* was avoided until there was no record left
LEMMA RunOutStep ==
  ASSUME IInv, RunOut
  PROVE  IInv'
<1>1. Page' /\ Slots' = Slots /\ NoBigKey' = NoBigKey /\ Small' = Small
  BY PageKept DEF IInv, RunOut
<1>2. PICK t : t = Slots
  OBVIOUS
<1>3. PICK l \in Nat : l = Len(sizes)
  BY SlotFacts DEF IInv
<1>4. t \in Seq(Nat) /\ Len(t) = l + 1 /\ skip \in 1 .. l + 1
  BY <1>2, <1>3, SlotFacts DEF IInv, Page
<1>5. /\ off \in 0 .. l + 1 /\ nxt = l
      /\ nxt = (IF skip <= off THEN off - 1 ELSE off)
      /\ NoBigKey => \A m \in 1 .. off : ~Half(Used(t, m))
  BY <1>2, <1>3 DEF IInv, Copying, RunOut
<1>6. /\ pc' = "adjust" /\ off' = off + 1 /\ nxt' = nxt /\ cursor' = cursor /\ record' = record /\ skip' = skip
      /\ pc = "copy"
  BY DEF RunOut
<1>7. Copying'
  BY <1>6 DEF Copying
<1>8. Copied'
  BY <1>4, <1>5, <1>6 DEF Copied
<1>9. CursorInv' /\ CursorFollowsApart'
  BY <1>6 DEF IInv, CursorInv, CursorFollowsApart
<1>10. NoBigKey => off = l /\ skip = l + 1
  <2>1. SUFFICES ASSUME NoBigKey, skip <= off PROVE FALSE
    BY <1>4, <1>5
  <2>2. off = l + 1 /\ l + 1 \in 1 .. off
    BY <1>5, <2>1
  <2>3. ~Half(Used(t, l + 1))
    BY <1>5, <2>1, <2>2
  <2>4. PICK u \in Nat : u = Used(t, l + 1) /\ 3 * Full < 4 * u
    BY <1>2, <1>3, TooMuch DEF IInv
  <2>5. u >= Full \div 2
    BY <2>4, Halves
  <2>6. QED
    BY <2>3, <2>4, <2>5 DEF Half
<1>11. LoopIsCut'
  <2>1. SUFFICES ASSUME NoBigKey PROVE off' = Cut(Slots', skip')
    BY <1>1 DEF LoopIsCut
  <2>2. /\ off' = l + 1 /\ skip = l + 1 /\ skip \in 1 .. Len(t) /\ l + 1 \in 1 .. Len(t)
        /\ \A m \in 1 .. (l + 1) - 1 : ~Half(Used(t, m))
    BY <1>4, <1>5, <1>6, <1>10, <2>1
  <2>3. Cut(t, skip) = IF skip <= l + 1 /\ ~(skip = l + 1 /\ l + 1 = Len(t)) /\ Used(t, l + 1) >= Full THEN (l + 1) - 1 ELSE l + 1
    BY <1>4, <2>2, CutIs
  <2>4. Cut(t, skip) = l + 1
    BY <1>4, <2>2, <2>3
  <2>5. QED
    BY <1>1, <1>2, <1>6, <2>2, <2>4
<1>12. SmallRecordsSplit'
  <2>1. ~Small
    <3>1. SUFFICES ASSUME Small PROVE FALSE
      OBVIOUS
    <3>2. l + 1 \in 1 .. Len(sizes) + 1 /\ \A m \in 1 .. (l + 1) - 1 : ~Half(Used(Slots, m))
      BY <1>2, <1>3, <1>5, <1>10, <3>1 DEF Small
    <3>3. l + 1 <= Len(sizes)
      BY <3>1, <3>2, NearHalf DEF IInv
    <3>4. QED
      BY <1>3, <3>3
  <2>2. QED
    BY <1>1, <2>1 DEF SmallRecordsSplit, Small
<1>13. QED
  BY <1>1, <1>7, <1>8, <1>9, <1>11, <1>12 DEF IInv

\* The cursor is moved to where its record is, the new record being on the
\* right page or after it
LEMMA AdjustStep ==
  ASSUME IInv, Adjust
  PROVE  IInv'
<1>1. Page' /\ Slots' = Slots /\ NoBigKey' = NoBigKey /\ Small' = Small
  BY PageKept DEF IInv, Adjust
<1>2. /\ pc = "adjust" /\ pc' = "done" /\ off' = off /\ nxt' = nxt /\ skip' = skip /\ record' = record
      /\ cursor' = IF Moved <= nxt THEN [page |-> "l", index |-> Moved] ELSE [page |-> "r", index |-> Moved - nxt]
  BY DEF Adjust
<1>3. Copying' /\ Copied' /\ CursorInv'
  BY <1>2 DEF IInv, Copying, Copied, CursorInv
<1>4. LoopIsCut' /\ SmallRecordsSplit'
  <2>1. LoopIsCut'
    <3>1. SUFFICES ASSUME NoBigKey PROVE off' = Cut(Slots', skip')
      BY <1>1 DEF LoopIsCut
    <3>2. off = Cut(Slots, skip)
      BY <1>2, <3>1 DEF IInv, LoopIsCut
    <3>3. QED
      BY <1>1, <1>2, <3>2
  <2>2. SmallRecordsSplit'
    <3>1. Left' = Left /\ Right' = Right
      BY <1>1, <1>2 DEF Left, Right
    <3>2. Small => GoodSplit
      BY <1>2 DEF IInv, SmallRecordsSplit, Small
    <3>3. GoodSplit => GoodSplit'
      BY <3>1 DEF GoodSplit, Fits, Room, Used
    <3>4. QED
      BY <1>1, <3>2, <3>3 DEF SmallRecordsSplit, Small
  <2>3. QED
    BY <2>1, <2>2
<1>5. CursorFollowsApart'
  <2>1. SUFFICES ASSUME skip > off \/ record < skip PROVE cursor' = SameRecord'
    BY <1>2 DEF CursorFollowsApart
  <2>2. PICK place : place = IF record >= skip THEN record + 1 ELSE record
    OBVIOUS
  <2>3. Moved = place
    BY <1>2, <2>2 DEF IInv, CursorInv, Moved
  <2>4. SameRecord' = IF place <= off THEN [page |-> "l", index |-> place] ELSE [page |-> "r", index |-> place - off]
    BY <1>2, <2>2 DEF SameRecord
  <2>5. PICK l \in Nat : l = Len(sizes)
    BY SlotFacts DEF IInv
  <2>6. /\ record \in 1 .. l /\ skip \in 1 .. l + 1 /\ off \in Nat /\ nxt \in Nat
        /\ (skip > off => nxt = off) /\ (skip <= off => nxt >= skip - 1)
    BY <1>2, <2>5 DEF IInv, Page, Copied
  <2>7. CASE skip > off
    BY <1>2, <2>3, <2>4, <2>6, <2>7
  <2>8. CASE skip <= off
    <3>1. record < skip /\ place = record /\ place <= nxt /\ place <= off
      BY <2>1, <2>2, <2>6, <2>8
    <3>2. QED
      BY <1>2, <2>3, <2>4, <3>1
  <2>9. QED
    BY <2>6, <2>7, <2>8
<1>6. QED
  BY <1>1, <1>3, <1>4, <1>5 DEF IInv
-----------------------------------------------------------------------------
(* The inductive invariant of bt_psplit (bt_split.c:614-742) holds in the  *)
(* page it is given and after every turn of its loop, whatever the page    *)
(* size, the records and the overflow keys among them.                     *)
THEOREM Invariance == Spec => []IInv
<1>1. Init => IInv
  <2>1. SUFFICES ASSUME Init PROVE IInv
    OBVIOUS
  <2>2. pc = "copy" /\ off = 0 /\ nxt = 0 /\ used = 0 /\ cursor = [page |-> "h", index |-> record]
    BY <2>1 DEF Init
  <2>3. PICK n \in 1 .. MaxRecords : sizes \in [1 .. n -> Record]
    BY <2>1 DEF Init
  <2>4. sizes \in Seq(Record) /\ Len(sizes) = n /\ DOMAIN sizes = 1 .. n
    BY <2>3, SplitAssumption
  <2>5. Page
    BY <2>1, <2>4 DEF Init, Page
  <2>6. PICK l \in Nat : l = Len(sizes) /\ skip \in 1 .. l + 1
    BY <2>5, SlotFacts DEF Page
  <2>7. Copying
    <3>1. Used(Slots, 0) = 0
      BY UsedStep
    <3>2. 0 \in 0 .. l + 1 /\ 0 \in 0 .. l /\ ~(skip <= 0) /\ \A m \in 1 .. 0 : FALSE
      BY <2>6
    <3>3. QED
      BY <2>2, <2>6, <3>1, <3>2 DEF Copying
  <2>8. Copied /\ CursorInv /\ LoopIsCut /\ SmallRecordsSplit /\ CursorFollowsApart
    BY <2>2 DEF Copied, CursorInv, LoopIsCut, SmallRecordsSplit, CursorFollowsApart
  <2>9. QED
    BY <2>5, <2>7, <2>8 DEF IInv
<1>2. IInv /\ [Next]_vars => IInv'
  <2>1. SUFFICES ASSUME IInv, [Next]_vars PROVE IInv'
    OBVIOUS
  <2>2. CASE UNCHANGED vars
    <3>1. /\ UNCHANGED <<sizes, ilen, skip, record, cursor, nxt, off, used, bigkeycnt, pc>>
          /\ Page' /\ Slots' = Slots /\ NoBigKey' = NoBigKey /\ Small' = Small
      BY <2>1, <2>2, PageKept DEF vars, IInv
    <3>2. Copying'
      BY <2>1, <3>1 DEF IInv, Copying, Half
    <3>3. Copied' /\ CursorInv'
      BY <2>1, <3>1 DEF IInv, Copied, CursorInv
    <3>4. LoopIsCut'
      BY <2>1, <3>1 DEF IInv, LoopIsCut
    <3>5. SmallRecordsSplit'
      <4>1. Left' = Left /\ Right' = Right
        BY <3>1 DEF Left, Right
      <4>2. GoodSplit => GoodSplit'
        BY <4>1 DEF GoodSplit, Fits, Room, Used
      <4>3. pc # "copy" /\ Small => GoodSplit
        BY <2>1 DEF IInv, SmallRecordsSplit, Small
      <4>4. QED
        BY <3>1, <4>2, <4>3 DEF SmallRecordsSplit, Small
    <3>6. CursorFollowsApart'
      BY <2>1, <3>1 DEF IInv, CursorFollowsApart, SameRecord
    <3>7. QED
      BY <3>1, <3>2, <3>3, <3>4, <3>5, <3>6 DEF IInv
  <2>3. QED
    BY <2>1, <2>2, CopyStep, StopStep, RunOutStep, AdjustStep DEF Next
<1>3. QED
  BY <1>1, <1>2, PTL DEF Spec

\* The loop of bt_psplit (bt_split.c:642-698) leaves on the left page the
\* records Cut says, of any page and any records without overflow keys.
THEOREM CutsWhereSaid == Spec => []LoopIsCut
<1>1. IInv => LoopIsCut
  BY DEF IInv
<1>2. QED
  BY <1>1, Invariance, PTL

\* Records of at most a quarter of the page always split well: bt_psplit leaves
\* both pages with records and none over its bounds, wherever the new one goes.
THEOREM SmallRecordsFit == Spec => []SmallRecordsSplit
<1>1. IInv => SmallRecordsSplit
  BY DEF IInv
<1>2. QED
  BY <1>1, Invariance, PTL

\* The cursor points to the same record after the split (bt_split.c:707-723),
\* for every page, when the new record is not put on the left page before it.
THEOREM CursorFollows == Spec => []CursorFollowsApart
<1>1. IInv => CursorFollowsApart
  BY DEF IInv
<1>2. QED
  BY <1>1, Invariance, PTL
=============================================================================
