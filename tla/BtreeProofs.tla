---------------------------- MODULE BtreeProofs -----------------------------
(***************************************************************************)
(* The B-tree for any number of keys and pages and any record sizes that   *)
(* RecordAssumption allows.  As long as the tree is undamaged and has not  *)
(* panicked, every page of it has a level and an interval of keys that is  *)
(* its own on that level; the records, the links to the siblings and the   *)
(* children agree with the intervals.  R is the set of the pages of the    *)
(* tree, lv, lo and hi are the level and the interval lo <= k < hi of each *)
(* page.  The leaves are level 0.                                          *)
(***************************************************************************)
EXTENDS Btree, FiniteSetTheorems, TLAPS

Typed(page, R, lv, lo, hi) ==
  /\ page \in [PageNo -> Page]
  /\ R \subseteq PageNo /\ P_ROOT \in R
  /\ lv \in [PageNo -> Nat] /\ lo \in [PageNo -> Nat] /\ hi \in [PageNo -> Nat]

\* The root has all keys and is alone on its level; no interval is empty.
Spans(R, lv, lo, hi) ==
  /\ lo[P_ROOT] = 0 /\ hi[P_ROOT] = MaxKey + 1
  /\ \A p \in R : lo[p] < hi[p]
  /\ \A p \in R : p # P_ROOT => lv[p] < lv[P_ROOT]

\* Level 0 has the leaves; a page outside of the tree is a leaf too.
Kinds(page, R, lv) ==
  /\ \A p \in R : page[p].leaf <=> lv[p] = 0
  /\ \A p \in PageNo \ R : page[p].leaf

\* Two pages of a level share no key.
Apart(R, lv, lo, hi) ==
  \A p, q \in R : p # q /\ lv[p] = lv[q] => hi[p] <= lo[q] \/ hi[q] <= lo[p]

\* The next page begins where a page ends, the previous one ends where it begins.
Linked(page, R, lv, lo, hi) ==
  \A p \in R :
    /\ \/ page[p].next = P_INVALID /\ hi[p] = MaxKey + 1
       \/ page[p].next \in R /\ lv[page[p].next] = lv[p] /\ lo[page[p].next] = hi[p]
    /\ \/ page[p].prev = P_INVALID /\ lo[p] = 0
       \/ page[p].prev \in R /\ lv[page[p].prev] = lv[p] /\ hi[page[p].prev] = lo[p]

\* The records of a page: in order, within its interval, and some, but for a
\* root that is a leaf.  The first key of an internal page says nothing: it may
\* be that of a child that is gone.
Ordered(page, R, lv) ==
  \A p \in R : \A i, j \in 1 .. Len(page[p].ents) :
    i < j /\ (lv[p] = 0 \/ i # 1) => page[p].ents[i].k < page[p].ents[j].k
Within(page, R, lv, lo, hi) ==
  \A p \in R : \A i \in 1 .. Len(page[p].ents) :
    /\ lv[p] = 0 => lo[p] <= page[p].ents[i].k /\ page[p].ents[i].k < hi[p]
    /\ i # 1 => lo[p] < page[p].ents[i].k /\ page[p].ents[i].k < hi[p]
Filled(page, R, lv) ==
  \A p \in R : Len(page[p].ents) # 0 \/ (p = P_ROOT /\ lv[p] = 0)

\* The records fit on every page but one that is about to be split.
Fitting(page, R, over) ==
  \A p \in R \ {over} : Fits(Sizes(page[p].leaf, Len(page[p].ents)))

\* A child has the keys from its record's up to the next record's, the first
\* child also those below its record's key, ...
Down(page, R, lv, lo, hi) ==
  \A p \in R : lv[p] # 0 => \A i \in 1 .. Len(page[p].ents) :
    /\ page[p].ents[i].v \in R
    /\ lv[page[p].ents[i].v] = lv[p] - 1
    /\ lo[page[p].ents[i].v] = IF i = 1 THEN lo[p] ELSE page[p].ents[i].k
    /\ hi[page[p].ents[i].v] = IF i = Len(page[p].ents) THEN hi[p] ELSE page[p].ents[i + 1].k

\* ... and every page but the root is a child.
Up(page, R, lv) ==
  \A c \in R : c # P_ROOT =>
    \E p \in R : lv[p] = lv[c] + 1 /\ \E i \in 1 .. Len(page[p].ents) : page[p].ents[i].v = c

TreeOK(page, R, lv, lo, hi, over) ==
  /\ Typed(page, R, lv, lo, hi)
  /\ Spans(R, lv, lo, hi)
  /\ Kinds(page, R, lv)
  /\ Apart(R, lv, lo, hi)
  /\ Linked(page, R, lv, lo, hi)
  /\ Ordered(page, R, lv)
  /\ Within(page, R, lv, lo, hi)
  /\ Filled(page, R, lv)
  /\ Fitting(page, R, over)
  /\ Down(page, R, lv, lo, hi)
  /\ Up(page, R, lv)

\* The free list from its end: n pages outside of the tree, no two of them
\* alike.  Every link, in the tree or not, is to a page of the file.
FreeOK(page, free, npages, R, fl, n) ==
  /\ n \in Nat /\ fl \in [1 .. n -> PageNo]
  /\ \A i \in 1 .. n : fl[i] \notin R
  /\ \A i, j \in 1 .. n : fl[i] = fl[j] => i = j
  /\ free = IF n = 0 THEN P_INVALID ELSE fl[n]
  /\ \A i \in 1 .. n : page[fl[i]].next = IF i = 1 THEN P_INVALID ELSE fl[i - 1]
  /\ \A p \in R : p < npages
  /\ \A p \in PageNo : page[p].next < npages
  /\ free < npages

\* A leaf has what the user was told, and some leaf has all he was told.
Held(page, R, lv, cont) ==
  /\ \A p \in R : lv[p] = 0 => \A i \in 1 .. Len(page[p].ents) :
       cont[page[p].ents[i].k] = page[p].ents[i].v
  /\ \A k \in Key : cont[k] # None =>
       \E p \in R : lv[p] = 0 /\ \E i \in 1 .. Len(page[p].ents) : page[p].ents[i].k = k

\* A cursor that is on a record is on the one seq returned, a cursor whose
\* record was deleted has its key; a hint is for a leaf, or for a page that was
\* one.
CursorOK(c, page, R, lv, key) ==
  /\ c.acquire => c.init /\ c.key \in Key
  /\ c.init /\ ~c.acquire =>
       /\ c.pgno \in R /\ lv[c.pgno] = 0
       /\ c.index \in 1 .. Len(page[c.pgno].ents)
       /\ page[c.pgno].ents[c.index].k = key
HintOK(h, page) == h.order # "not" => h.pgno \in PageNo /\ page[h.pgno].leaf

\* What the file has: nothing was ever saved, or a head of a free list.
FileOK(T, cont) ==
  /\ meta # None => meta < T.npages
  /\ meta = None => metadirty
  /\ meta = None /\ ~modified => \A k \in Key : cont[k] = None

Good ==
  \E R, lv, lo, hi, fl, n :
    /\ TreeOK(t.page, R, lv, lo, hi, P_INVALID)
    /\ FreeOK(t.page, t.free, t.npages, R, fl, n)
    /\ Held(t.page, R, lv, contents)
    /\ CursorOK(t.cursor, t.page, R, lv, at)

IInv == Intact => TypeOK /\ Good /\ HintOK(t.last, t.page) /\ FileOK(t, contents)
-----------------------------------------------------------------------------
(* Numbers and sequences *)

\* A non-empty set of numbers has a least one.
LEMMA LeastNumber ==
  ASSUME NEW S, S \subseteq Nat, S # {}
  PROVE  \E x \in S : \A y \in S : x <= y
<1> DEFINE Rel == {ss \in Nat \X Nat : ss[1] < ss[2]}
<1>1. IsWellFoundedOn(Rel, Nat)
  BY NatLessThanWellFounded, Zenon DEF OpToRel
<1>2. PICK x \in S : \A y \in S : ~(<<y, x>> \in Rel)
  <2> HIDE DEF Rel
  <2> QED
    BY <1>1, WFMin
<1>3. ASSUME NEW y \in S PROVE x <= y
  <2>1. x \in Nat /\ y \in Nat
    OBVIOUS
  <2>2. ~(<<y, x>>[1] < <<y, x>>[2])
    BY <1>2, <2>1
  <2>3. QED
    BY <2>1, <2>2
<1>4. QED
  BY <1>3

\* Induction: a set that counting stays in holds all that is counted.
LEMMA Counting ==
  ASSUME NEW S, NEW n \in Nat, 0 \in S, \A i \in 0 .. n : i # n /\ i \in S => i + 1 \in S
  PROVE  \A i \in 0 .. n : i \in S
<1> DEFINE T == {i \in 0 .. n : i \notin S}
<1>1. SUFFICES ASSUME T # {} PROVE FALSE
  OBVIOUS
<1>2. T \subseteq Nat
  OBVIOUS
<1>3. PICK x \in T : \A y \in T : x <= y
  BY <1>1, <1>2, LeastNumber
<1>4. x \in 0 .. n /\ x # 0 /\ x \notin S
  OBVIOUS
<1>5. x - 1 \in 0 .. n /\ x - 1 # n /\ (x - 1) + 1 = x /\ ~(x <= x - 1)
  BY <1>4
<1>6. x - 1 \in S
  BY <1>3, <1>5
<1>7. QED
  BY <1>4, <1>5, <1>6

\* Max of a non-empty bounded set of numbers is its greatest one.
LEMMA GreatestNumber ==
  ASSUME NEW S, NEW n \in Nat, S \subseteq 0 .. n, S # {}
  PROVE  Max(S) \in S /\ \A y \in S : y <= Max(S)
<1> DEFINE T == {m \in 0 .. n : n - m \in S}
<1>1. ASSUME NEW y \in S PROVE y \in Nat /\ n - y \in T
  <2>1. y \in 0 .. n
    OBVIOUS
  <2>2. n - y \in 0 .. n /\ n - (n - y) = y
    BY <2>1
  <2>3. n - (n - y) \in S
    BY <2>2
  <2>4. n - y \in T
    BY <2>2, <2>3, Zenon
  <2>5. QED
    BY <2>1, <2>4
<1>2. T \subseteq Nat /\ T # {}
  <2>1. T # {}
    BY <1>1, Zenon
  <2>2. QED
    BY <2>1
<1>3. PICK z \in T : \A y \in T : z <= y
  BY <1>2, LeastNumber
<1> PICK x \in S : x = n - z
  BY <1>3
<1>4. ASSUME NEW y \in S PROVE x >= y
  <2>1. n - y \in T /\ y \in Nat /\ x \in Nat /\ z \in Nat
    BY <1>1
  <2>2. z <= n - y
    BY <1>3, <2>1
  <2>3. QED
    BY <2>1, <2>2
<1>5. \E m \in S : \A y \in S : m >= y
  BY <1>4
<1>6. Max(S) \in S /\ \A y \in S : Max(S) >= y
  BY <1>5 DEF Max
<1>7. QED
  BY <1>6

\* What InsertAt, RemoveAt, SubSeq and concatenation do, record by record.
LEMMA Inserted ==
  ASSUME NEW S, NEW s \in Seq(S), NEW e \in S, NEW i \in 1 .. Len(s) + 1
  PROVE  /\ InsertAt(s, i, e) \in Seq(S)
         /\ Len(InsertAt(s, i, e)) = Len(s) + 1
         /\ \A j \in 1 .. Len(s) + 1 :
              InsertAt(s, i, e)[j] = IF j < i THEN s[j] ELSE IF j = i THEN e ELSE s[j - 1]
<1>1. Len(s) \in Nat /\ i \in Nat
  OBVIOUS
<1>2. PICK a : a = SubSeq(s, 1, i - 1)
  OBVIOUS
<1>3. PICK b : b = SubSeq(s, i, Len(s))
  OBVIOUS
<1>4. a \in Seq(S) /\ Len(a) = i - 1 /\ \A j \in 1 .. i - 1 : a[j] = s[j]
  BY <1>1, <1>2
<1>5. b \in Seq(S) /\ Len(b) = Len(s) + 1 - i /\ \A j \in 1 .. Len(s) + 1 - i : b[j] = s[i + j - 1]
  BY <1>1, <1>3
<1>6. PICK c : c = a \o <<e>>
  OBVIOUS
<1>7. c \in Seq(S) /\ Len(c) = i /\ (\A j \in 1 .. i - 1 : c[j] = s[j]) /\ c[i] = e
  BY <1>1, <1>4, <1>6
<1>8. PICK d : d = c \o b
  OBVIOUS
<1>9. d \in Seq(S) /\ Len(d) = Len(s) + 1
  BY <1>1, <1>5, <1>7, <1>8
<1>10. \A j \in 1 .. Len(s) + 1 : d[j] = IF j <= i THEN c[j] ELSE b[j - i]
  BY <1>1, <1>5, <1>7, <1>8
<1>11. ASSUME NEW j \in 1 .. Len(s) + 1
       PROVE  d[j] = IF j < i THEN s[j] ELSE IF j = i THEN e ELSE s[j - 1]
  <2>1. CASE j < i
    BY <1>1, <1>7, <1>10, <2>1
  <2>2. CASE j = i
    BY <1>1, <1>7, <1>10, <2>2
  <2>3. CASE j > i
    <3>1. j - i \in 1 .. Len(s) + 1 - i /\ i + (j - i) - 1 = j - 1
      BY <1>1, <2>3
    <3>2. d[j] = b[j - i]
      BY <1>1, <1>10, <2>3
    <3>3. b[j - i] = s[j - 1]
      BY <1>5, <3>1
    <3>4. QED
      BY <1>1, <2>3, <3>2, <3>3
  <2>4. QED
    BY <1>1, <2>1, <2>2, <2>3
<1>12. InsertAt(s, i, e) = d
  BY <1>2, <1>3, <1>6, <1>8 DEF InsertAt
<1>13. QED
  BY <1>9, <1>11, <1>12

LEMMA Removed ==
  ASSUME NEW S, NEW s \in Seq(S), NEW i \in 1 .. Len(s)
  PROVE  /\ RemoveAt(s, i) \in Seq(S)
         /\ Len(RemoveAt(s, i)) = Len(s) - 1
         /\ \A j \in 1 .. Len(s) - 1 : RemoveAt(s, i)[j] = IF j < i THEN s[j] ELSE s[j + 1]
<1>1. Len(s) \in Nat /\ i \in Nat
  OBVIOUS
<1>2. PICK a : a = SubSeq(s, 1, i - 1)
  OBVIOUS
<1>3. PICK b : b = SubSeq(s, i + 1, Len(s))
  OBVIOUS
<1>4. a \in Seq(S) /\ Len(a) = i - 1 /\ \A j \in 1 .. i - 1 : a[j] = s[j]
  BY <1>1, <1>2
<1>5. b \in Seq(S) /\ Len(b) = Len(s) - i /\ \A j \in 1 .. Len(s) - i : b[j] = s[i + j]
  BY <1>1, <1>3
<1>6. PICK d : d = a \o b
  OBVIOUS
<1>7. d \in Seq(S) /\ Len(d) = Len(s) - 1
  <2> a \in Seq(S) /\ b \in Seq(S)
    BY <1>4, <1>5
  <2>1. d \in Seq(S) /\ Len(d) = Len(a) + Len(b)
    BY <1>6
  <2>2. (i - 1) + (Len(s) - i) = Len(s) - 1
    BY <1>1
  <2>3. QED
    BY <1>4, <1>5, <2>1, <2>2
<1>8. \A j \in 1 .. Len(s) - 1 : d[j] = IF j <= i - 1 THEN a[j] ELSE b[j - (i - 1)]
  BY <1>1, <1>4, <1>5, <1>6
<1>9. ASSUME NEW j \in 1 .. Len(s) - 1 PROVE d[j] = IF j < i THEN s[j] ELSE s[j + 1]
  <2>1. CASE j < i
    BY <1>1, <1>4, <1>8, <2>1
  <2>2. CASE ~(j < i)
    <3>1. j - (i - 1) \in 1 .. Len(s) - i /\ i + (j - (i - 1)) = j + 1
      BY <1>1, <2>2
    <3>2. d[j] = b[j - (i - 1)]
      BY <1>1, <1>8, <2>2
    <3>3. QED
      BY <1>5, <2>2, <3>1, <3>2
  <2>3. QED
    BY <2>1, <2>2
<1>10. RemoveAt(s, i) = d
  BY <1>2, <1>3, <1>6 DEF RemoveAt
<1>11. QED
  BY <1>7, <1>9, <1>10

LEMMA Part ==
  ASSUME NEW S, NEW s \in Seq(S), NEW a \in 1 .. Len(s) + 1, NEW b \in 0 .. Len(s), a <= b + 1
  PROVE  /\ SubSeq(s, a, b) \in Seq(S)
         /\ Len(SubSeq(s, a, b)) = b + 1 - a
         /\ \A j \in 1 .. b + 1 - a : SubSeq(s, a, b)[j] = s[a + j - 1]
<1>1. Len(s) \in Nat /\ a \in Nat /\ b \in Nat
  OBVIOUS
<1>2. QED
  BY <1>1

LEMMA Both ==
  ASSUME NEW S, NEW a \in Seq(S), NEW b \in Seq(S)
  PROVE  /\ a \o b \in Seq(S) /\ Len(a \o b) = Len(a) + Len(b)
         /\ \A i \in 1 .. Len(a) : (a \o b)[i] = a[i]
         /\ \A i \in 1 .. Len(b) : (a \o b)[Len(a) + i] = b[i]
<1>1. a \o b \in Seq(S) /\ Len(a \o b) = Len(a) + Len(b) /\ Len(a) \in Nat /\ Len(b) \in Nat
  OBVIOUS
<1>2. \A i \in 1 .. Len(a) : (a \o b)[i] = a[i]
  BY <1>1
<1>3. ASSUME NEW i \in 1 .. Len(b) PROVE (a \o b)[Len(a) + i] = b[i]
  BY <1>1
<1>4. QED
  BY <1>1, <1>2, <1>3
-----------------------------------------------------------------------------
(* Room on a page *)

\* What the assumptions say of the constants, and which page numbers there
\* are.
LEMMA Numbers ==
  /\ MaxKey \in Nat /\ MaxKey # 0 /\ MaxPages \in Nat /\ MaxPages >= 2
  /\ Full \in Nat /\ Slot \in Nat /\ Memory \subseteq Nat
  /\ P_ROOT \in PageNo /\ P_INVALID \notin PageNo /\ PageNo \subseteq Nat
  /\ PageNo \cup {P_INVALID} = 0 .. MaxPages - 1
  /\ Key \subseteq 0 .. MaxKey /\ None \notin Data /\ None \notin Nat
BY BtreeAssumption, LayoutAssumption DEF P_ROOT, P_INVALID, PageNo, Key

LEMMA SizeType ==
  ASSUME NEW leaf \in BOOLEAN
  PROVE  Size(leaf) \in Nat /\ Size(leaf) # 0 /\ Size(leaf) \in {LeafSize, IntSize}
BY BtreeAssumption DEF Size

\* The bytes of the first m of n records of one size.
LEMMA UsedIs ==
  ASSUME NEW leaf \in BOOLEAN, NEW n \in Nat, NEW m \in 0 .. n
  PROVE  Used(Sizes(leaf, n), m) = m * Size(leaf)
<1>1. PICK z \in Nat : z = Size(leaf)
  BY SizeType
<1>2. PICK s : s = Sizes(leaf, n)
  OBVIOUS
<1>3. s = [i \in 1 .. n |-> z]
  BY <1>1, <1>2 DEF Sizes
<1>4. m \in Nat
  OBVIOUS
<1>5. PICK g : g = [i \in 0 .. m |-> i * z]
  OBVIOUS
<1>6. ASSUME NEW i \in 0 .. m, i # 0 PROVE g[i] = g[i - 1] + s[i]
  <2>1. i - 1 \in 0 .. m /\ i \in 1 .. n /\ i - 1 \in Nat /\ i \in Nat
    BY <1>6
  <2>2. g[i] = i * z /\ g[i - 1] = (i - 1) * z /\ s[i] = z
    BY <1>3, <1>5, <2>1
  <2>3. i * z = (i - 1) * z + z
    BY <2>1
  <2>4. QED
    BY <2>2, <2>3
<1>7. g = [i \in 0 .. m |-> IF i = 0 THEN 0 ELSE g[i - 1] + s[i]]
  <2>1. g[0] = 0 /\ 0 \in 0 .. m
    BY <1>4, <1>5
  <2>2. QED
    BY <1>5, <1>6, <2>1
<1>8. PICK f : f = CHOOSE h : h = [i \in 0 .. m |-> IF i = 0 THEN 0 ELSE h[i - 1] + s[i]]
  OBVIOUS
<1>9. f = [i \in 0 .. m |-> IF i = 0 THEN 0 ELSE f[i - 1] + s[i]]
  BY <1>7, <1>8
<1>10. Used(s, m) = f[m]
  BY <1>8 DEF Used
<1> DEFINE S == {i \in 0 .. m : f[i] = g[i]}
<1>11. 0 \in S
  BY <1>4, <1>7, <1>9
<1>12. ASSUME NEW i \in 0 .. m, i # m, i \in S PROVE i + 1 \in S
  <2>1. i + 1 \in 0 .. m /\ i + 1 # 0 /\ (i + 1) - 1 = i
    BY <1>4, <1>12
  <2>2. f[i + 1] = f[i] + s[i + 1] /\ g[i + 1] = g[i] + s[i + 1]
    BY <1>7, <1>9, <2>1
  <2>3. QED
    BY <1>12, <2>1, <2>2
<1>13. m \in S
  <2> HIDE DEF S
  <2> m \in 0 .. m
    BY <1>4
  <2>1. \A i \in 0 .. m : i \in S
    BY <1>4, <1>11, <1>12, Counting
  <2>2. QED
    BY <2>1
<1>14. QED
  BY <1>1, <1>2, <1>4, <1>5, <1>10, <1>13

\* Records of one size fit when their sum does.
LEMMA FitsIs ==
  ASSUME NEW leaf \in BOOLEAN, NEW n \in Nat
  PROVE  Fits(Sizes(leaf, n)) <=> n * (Size(leaf) + Slot) <= Full
<1>1. Len(Sizes(leaf, n)) = n
  BY DEF Sizes
<1>2. Used(Sizes(leaf, n), n) = n * Size(leaf)
  BY UsedIs
<1>3. PICK z \in Nat : z = Size(leaf)
  BY SizeType
<1>4. PICK y \in Nat : y = Slot
  BY Numbers
<1>5. n * z + y * n = n * (z + y)
  OBVIOUS
<1>6. QED
  BY <1>1, <1>2, <1>3, <1>4, <1>5 DEF Fits, Room

LEMMA FitsFewer ==
  ASSUME NEW leaf \in BOOLEAN, NEW n \in Nat, NEW m \in 0 .. n, Fits(Sizes(leaf, n))
  PROVE  Fits(Sizes(leaf, m))
<1>1. PICK z \in Nat : z = Size(leaf) + Slot
  BY SizeType, Numbers
<1>2. m \in Nat /\ m * z <= n * z
  <2>1. PICK d \in Nat : n = m + d
    <3>1. n - m \in Nat /\ n = m + (n - m)
      OBVIOUS
    <3>2. QED
      BY <3>1
  <2>2. (m + d) * z = m * z + d * z /\ d * z >= 0 /\ m * z \in Nat
    OBVIOUS
  <2>3. QED
    BY <2>1, <2>2
<1>3. n * z \in Nat /\ m * z \in Nat
  BY <1>2
<1>4. QED
  BY <1>1, <1>2, <1>3, FitsIs, Numbers

\* One record fits, two do.
LEMMA FitsTwo ==
  ASSUME NEW leaf \in BOOLEAN, NEW n \in 0 .. 2
  PROVE  Fits(Sizes(leaf, n))
<1>1. 2 * (Size(leaf) + Slot) <= Full
  BY SizeType, RecordAssumption
<1>2. Fits(Sizes(leaf, 2))
  BY <1>1, FitsIs
<1>3. QED
  BY <1>2, FitsFewer

\* bt_psplit leaves at least one record on each of the two pages.
LEMMA CutIs ==
  ASSUME NEW leaf \in BOOLEAN, NEW n \in Nat, Fits(Sizes(leaf, n)), ~Fits(Sizes(leaf, n + 1)),
         NEW skip \in Nat
  PROVE  Cut(Sizes(leaf, n + 1), skip) \in 1 .. n
<1> DEFINE s == Sizes(leaf, n + 1)
<1> DEFINE enough == {i \in 1 .. Len(s) : Used(s, i) >= Full \div 2}
<1>1. PICK z \in Nat : z = Size(leaf) /\ z # 0 /\ z \in {LeafSize, IntSize}
  BY SizeType
<1>2. Len(s) = n + 1 /\ \A i \in 1 .. n + 1 : Used(s, i) = i * z
  <2>1. Len(s) = n + 1
    BY DEF Sizes
  <2>2. ASSUME NEW i \in 1 .. n + 1 PROVE Used(s, i) = i * z
    BY <1>1, UsedIs
  <2>3. QED
    BY <2>1, <2>2
<1>3. n * (z + Slot) <= Full /\ ~((n + 1) * (z + Slot) <= Full)
  BY <1>1, FitsIs
<1>4. 2 * (z + Slot) <= Full
  BY <1>1, RecordAssumption
<1>5. n >= 2
  <2>1. PICK w \in Nat : w = z + Slot
    BY Numbers
  <2>2. n = 0 => (n + 1) * w = w
    OBVIOUS
  <2>3. n = 1 => (n + 1) * w = 2 * w
    OBVIOUS
  <2>4. w <= 2 * w
    OBVIOUS
  <2>5. n # 0 /\ n # 1
    BY <1>3, <1>4, <2>1, <2>2, <2>3, <2>4, Numbers
  <2>6. QED
    BY <2>5
<1>6. n <= Full
  <2>1. PICK w \in Nat : w = z + Slot /\ w >= 1
    BY <1>1, Numbers
  <2>2. PICK v \in Nat : w = v + 1
    <3>1. w - 1 \in Nat /\ w = (w - 1) + 1
      BY <2>1
    <3>2. QED
      BY <3>1
  <2>3. n * (v + 1) = n * v + n /\ n * v \in Nat
    OBVIOUS
  <2>4. QED
    BY <1>3, <2>1, <2>2, <2>3, Numbers
<1>7. n * z >= Full \div 2
  <2>1. n \in 1 .. Full /\ Full < (n + 1) * (z + Slot)
    <3>1. (n + 1) * (z + Slot) \in Nat
      BY Numbers
    <3>2. QED
      BY <1>3, <1>5, <1>6, <3>1, Numbers
  <2>2. QED
    BY <1>1, <1>3, <2>1, RecordAssumption
<1>8. n \in enough /\ enough \subseteq 1 .. n + 1 /\ enough \subseteq Nat
  BY <1>2, <1>5, <1>7
<1>9. PICK c : c = CHOOSE m \in enough : \A i \in enough : m <= i
  OBVIOUS
<1>10. c \in enough /\ \A i \in enough : c <= i
  <2> HIDE DEF enough
  <2>1. \E m \in enough : \A i \in enough : m <= i
    BY <1>8, LeastNumber
  <2>2. QED
    BY <1>9, <2>1
<1>11. c \in 1 .. n
  BY <1>8, <1>10
<1>12. c = 1 => ~(Used(s, c) >= Full)
  <2>1. c = 1 => Used(s, c) = z
    BY <1>2, <1>11
  <2>2. QED
    BY <1>1, <1>4, <2>1, Numbers
<1>13. Cut(s, skip) \in {c - 1, c} /\ (Cut(s, skip) = c - 1 => Cut(s, skip) = c \/ Used(s, c) >= Full)
  BY <1>8, <1>9 DEF Cut
<1>14. QED
  BY <1>11, <1>12, <1>13
LEMMA SeqFacts ==
  ASSUME NEW S, NEW s \in Seq(S)
  PROVE  Len(s) \in Nat /\ DOMAIN s = 1 .. Len(s) /\ \A i \in 1 .. Len(s) : s[i] \in S
OBVIOUS

LEMMA Single ==
  ASSUME NEW S, NEW x \in S
  PROVE  <<x>> \in Seq(S) /\ Len(<<x>>) = 1 /\ <<x>>[1] = x
OBVIOUS

LEMMA SeqWithin ==
  ASSUME NEW S, NEW T, NEW s \in Seq(S), \A i \in 1 .. Len(s) : s[i] \in T
  PROVE  s \in Seq(T)
OBVIOUS
-----------------------------------------------------------------------------
(* Pages *)

\* A record of either kind of page.
Ent == [k : 0 .. MaxKey, v : Data \cup PageNo]

\* The members of a page, leaf or internal.
LEMMA PageParts ==
  ASSUME NEW pg \in Page
  PROVE  /\ pg.leaf \in BOOLEAN
         /\ pg.prev \in 0 .. MaxPages - 1 /\ pg.next \in 0 .. MaxPages - 1
         /\ pg.ents \in Seq(Ent) /\ Len(pg.ents) \in Nat /\ DOMAIN pg.ents = 1 .. Len(pg.ents)
         /\ \A i \in 1 .. Len(pg.ents) :
              /\ pg.ents[i] \in Ent /\ pg.ents[i].k \in 0 .. MaxKey /\ pg.ents[i].k \in Nat
              /\ pg.leaf => pg.ents[i].k \in Key /\ pg.ents[i].v \in Data
              /\ ~pg.leaf => pg.ents[i].v \in PageNo
         /\ pg = Sibling(pg, pg.prev, pg.next, pg.ents)
<1> USE DEF Ent
<1>1. CASE pg.leaf /\ pg \in [leaf : {TRUE}, prev : 0 .. MaxPages - 1, next : 0 .. MaxPages - 1,
                              ents : Seq([k : Key, v : Data])]
  <2>1. pg.ents \in Seq([k : Key, v : Data]) /\ pg.leaf = TRUE
    BY <1>1
  <2>2. Key \subseteq 0 .. MaxKey
    BY Numbers
  <2>3. /\ Len(pg.ents) \in Nat /\ DOMAIN pg.ents = 1 .. Len(pg.ents)
        /\ \A i \in 1 .. Len(pg.ents) : pg.ents[i] \in [k : Key, v : Data]
    BY <2>1, SeqFacts, Zenon
  <2>4. [k : Key, v : Data] \subseteq Ent
    BY <2>2
  <2>5. pg.ents \in Seq(Ent)
    <3> HIDE DEF Ent
    <3>1. \A i \in 1 .. Len(pg.ents) : pg.ents[i] \in Ent
      BY <2>3, <2>4
    <3>2. QED
      BY <2>1, <3>1, SeqWithin, Zenon
  <2>6. pg = Sibling(pg, pg.prev, pg.next, pg.ents)
    BY <1>1 DEF Sibling
  <2>7. pg.prev \in 0 .. MaxPages - 1 /\ pg.next \in 0 .. MaxPages - 1
    BY <1>1
  <2>8. \A i \in 1 .. Len(pg.ents) : pg.ents[i] \in Ent /\ pg.ents[i].k \in Key /\ pg.ents[i].v \in Data
    BY <2>3, <2>4
  <2>9. ASSUME NEW i \in 1 .. Len(pg.ents)
        PROVE  /\ pg.ents[i] \in Ent /\ pg.ents[i].k \in 0 .. MaxKey /\ pg.ents[i].k \in Nat
               /\ pg.ents[i].k \in Key /\ pg.ents[i].v \in Data
    BY <2>2, <2>8, Numbers
  <2>10. QED
    BY <2>1, <2>3, <2>5, <2>6, <2>7, <2>9
<1>2. CASE ~pg.leaf /\ pg \in [leaf : {FALSE}, prev : 0 .. MaxPages - 1, next : 0 .. MaxPages - 1,
                               ents : Seq([k : 0 .. MaxKey, v : PageNo])]
  <2>1. pg.ents \in Seq([k : 0 .. MaxKey, v : PageNo]) /\ pg.leaf = FALSE
    BY <1>2
  <2>3. /\ Len(pg.ents) \in Nat /\ DOMAIN pg.ents = 1 .. Len(pg.ents)
        /\ \A i \in 1 .. Len(pg.ents) : pg.ents[i] \in [k : 0 .. MaxKey, v : PageNo]
    BY <2>1, SeqFacts, Zenon
  <2>4. [k : 0 .. MaxKey, v : PageNo] \subseteq Ent
    OBVIOUS
  <2>5. pg.ents \in Seq(Ent)
    <3> HIDE DEF Ent
    <3>1. \A i \in 1 .. Len(pg.ents) : pg.ents[i] \in Ent
      BY <2>3, <2>4
    <3>2. QED
      BY <2>1, <3>1, SeqWithin, Zenon
  <2>6. pg = Sibling(pg, pg.prev, pg.next, pg.ents)
    BY <1>2 DEF Sibling
  <2>7. pg.prev \in 0 .. MaxPages - 1 /\ pg.next \in 0 .. MaxPages - 1
    BY <1>2
  <2>8. \A i \in 1 .. Len(pg.ents) : pg.ents[i] \in Ent /\ pg.ents[i].k \in 0 .. MaxKey /\ pg.ents[i].v \in PageNo
    BY <2>3, <2>4
  <2>9. ASSUME NEW i \in 1 .. Len(pg.ents)
        PROVE  /\ pg.ents[i] \in Ent /\ pg.ents[i].k \in 0 .. MaxKey /\ pg.ents[i].k \in Nat
               /\ pg.ents[i].v \in PageNo
    BY <2>8, Numbers
  <2>10. QED
    BY <2>1, <2>3, <2>5, <2>6, <2>7, <2>9
<1>3. QED
  BY <1>1, <1>2 DEF Page

\* How a page is put together.
LEMMA PageMade ==
  ASSUME NEW leaf \in BOOLEAN, NEW prev \in 0 .. MaxPages - 1, NEW next \in 0 .. MaxPages - 1,
         NEW ents \in Seq(Ent),
         \A i \in 1 .. Len(ents) : IF leaf THEN ents[i].k \in Key /\ ents[i].v \in Data
                                   ELSE ents[i].v \in PageNo
  PROVE  [leaf |-> leaf, prev |-> prev, next |-> next, ents |-> ents] \in Page
<1>1. Len(ents) \in Nat /\ DOMAIN ents = 1 .. Len(ents)
  OBVIOUS
<1>2. \A i \in 1 .. Len(ents) : ents[i] \in Ent
  OBVIOUS
<1>3. CASE leaf
  <2>1. \A i \in 1 .. Len(ents) : ents[i] \in [k : Key, v : Data]
    BY <1>2, <1>3 DEF Ent
  <2>2. ents \in Seq([k : Key, v : Data])
    BY <2>1, SeqWithin, Zenon
  <2>3. QED
    BY <1>3, <2>2 DEF Page
<1>4. CASE ~leaf
  <2>1. \A i \in 1 .. Len(ents) : ents[i] \in [k : 0 .. MaxKey, v : PageNo]
    BY <1>2, <1>4 DEF Ent
  <2>2. ents \in Seq([k : 0 .. MaxKey, v : PageNo])
    BY <2>1, SeqWithin, Zenon
  <2>3. QED
    BY <1>4, <2>2 DEF Page
<1>5. QED
  BY <1>3, <1>4
-----------------------------------------------------------------------------
(* Searching *)

\* What TreeOK says of one page, with the types.
LEMMA InTree ==
  ASSUME NEW page, NEW R, NEW lv, NEW lo, NEW hi, NEW over, TreeOK(page, R, lv, lo, hi, over),
         NEW p \in R
  PROVE  /\ p \in PageNo /\ page[p] \in Page /\ p # P_INVALID
         /\ lv[p] \in Nat /\ lo[p] \in Nat /\ hi[p] \in Nat /\ lo[p] < hi[p] /\ lv[p] <= lv[P_ROOT]
         /\ page[p].leaf \in BOOLEAN /\ (page[p].leaf <=> lv[p] = 0)
         /\ page[p].ents \in Seq(Ent) /\ Len(page[p].ents) \in Nat
         /\ DOMAIN page[p].ents = 1 .. Len(page[p].ents)
         /\ \A i \in 1 .. Len(page[p].ents) :
              /\ page[p].ents[i] \in Ent /\ page[p].ents[i].k \in 0 .. MaxKey /\ page[p].ents[i].k \in Nat
              /\ lv[p] = 0 => page[p].ents[i].k \in Key /\ page[p].ents[i].v \in Data
              /\ lv[p] # 0 => page[p].ents[i].v \in PageNo
<1>1. p \in PageNo /\ page[p] \in Page /\ lv[p] \in Nat /\ lo[p] \in Nat /\ hi[p] \in Nat
      /\ lv[P_ROOT] \in Nat
  BY Numbers DEF TreeOK, Typed
<1>2. lo[p] < hi[p] /\ lv[p] <= lv[P_ROOT] /\ (page[p].leaf <=> lv[p] = 0) /\ p # P_INVALID
  BY <1>1, Numbers DEF TreeOK, Spans, Kinds
<1>3. QED
  BY <1>1, <1>2, PageParts

\* An internal page sends a key to the child that has it.
LEMMA BranchIs ==
  ASSUME NEW page, NEW R, NEW lv, NEW lo, NEW hi, NEW over, TreeOK(page, R, lv, lo, hi, over),
         NEW p \in R, lv[p] # 0, NEW k \in Nat
  PROVE  /\ Branch(page[p], k) \in 1 .. Len(page[p].ents)
         /\ lo[p] <= k /\ k < hi[p] =>
              /\ lo[page[p].ents[Branch(page[p], k)].v] <= k
              /\ k < hi[page[p].ents[Branch(page[p], k)].v]
<1> DEFINE S == {1} \cup {i \in DOMAIN page[p].ents : AtMost(page[p], i, k)}
<1>1. /\ lo[p] \in Nat /\ hi[p] \in Nat /\ Len(page[p].ents) \in Nat
      /\ DOMAIN page[p].ents = 1 .. Len(page[p].ents)
      /\ \A i \in 1 .. Len(page[p].ents) : page[p].ents[i].k \in Nat
  BY InTree
<1>2. Len(page[p].ents) >= 1
  BY <1>1 DEF TreeOK, Filled
<1>3. S \subseteq 0 .. Len(page[p].ents) /\ S # {}
  BY <1>1, <1>2
<1>4. Max(S) \in S /\ \A y \in S : y <= Max(S)
  <2> HIDE DEF S
  <2> QED
    BY <1>1, <1>3, GreatestNumber
<1>5. PICK m : m = Max(S)
  OBVIOUS
<1>6. Branch(page[p], k) = m
  BY <1>5 DEF Branch
<1>7. m \in 1 .. Len(page[p].ents) /\ (m # 1 => page[p].ents[m].k <= k)
  BY <1>1, <1>2, <1>4, <1>5 DEF AtMost
<1>8. m # Len(page[p].ents) => k < page[p].ents[m + 1].k
  <2>1. SUFFICES ASSUME m # Len(page[p].ents), page[p].ents[m + 1].k <= k PROVE FALSE
    BY <1>1, <1>7
  <2>2. m + 1 \in S
    BY <1>1, <1>7, <2>1 DEF AtMost
  <2>3. m + 1 <= m
    BY <1>4, <1>5, <2>2
  <2>4. QED
    BY <1>7, <2>3
<1>9. /\ lo[page[p].ents[m].v] = IF m = 1 THEN lo[p] ELSE page[p].ents[m].k
      /\ hi[page[p].ents[m].v] = IF m = Len(page[p].ents) THEN hi[p] ELSE page[p].ents[m + 1].k
  BY <1>7 DEF TreeOK, Down
<1>10. QED
  BY <1>6, <1>7, <1>8, <1>9

\* Where a key is, or would be, among sorted records.
IsPlace(ents, k, i) ==
  /\ i \in 1 .. Len(ents) + 1
  /\ \A j \in 1 .. Len(ents) : j < i => ents[j].k < k
  /\ \A j \in 1 .. Len(ents) : j >= i => k <= ents[j].k

\* The search of a leaf ends before the first key that is not less.
LEMMA PlaceIs ==
  ASSUME NEW page, NEW R, NEW lv, NEW lo, NEW hi, NEW over, TreeOK(page, R, lv, lo, hi, over),
         NEW p \in R, lv[p] = 0, NEW k \in Nat
  PROVE  IsPlace(page[p].ents, k, Place(page[p], k)) /\ Place(page[p], k) \in Nat
<1> DEFINE S == {i \in DOMAIN page[p].ents : page[p].ents[i].k < k}
<1>1. PICK n \in Nat : n = Len(page[p].ents) /\ DOMAIN page[p].ents = 1 .. n
                       /\ \A i \in 1 .. n : page[p].ents[i].k \in Nat
  BY InTree
<1>2. \A i, j \in 1 .. n : i < j => page[p].ents[i].k < page[p].ents[j].k
  BY <1>1 DEF TreeOK, Ordered
<1>3. PICK m \in 0 .. n : S = 1 .. m
  <2>1. CASE S = {}
    <3>1. S = 1 .. 0
      BY <2>1
    <3>2. QED
      BY <1>1, <3>1
  <2>2. CASE S # {}
    <3>1. S \subseteq 0 .. n
      BY <1>1
    <3>2. Max(S) \in S /\ \A y \in S : y <= Max(S)
      <4> HIDE DEF S
      <4> QED
        BY <1>1, <2>2, <3>1, GreatestNumber
    <3>3. PICK m : m = Max(S)
      OBVIOUS
    <3>4. m \in 1 .. n /\ page[p].ents[m].k < k
      BY <1>1, <3>2, <3>3
    <3>5. \A i \in 1 .. m : i \in S
      BY <1>1, <1>2, <3>4
    <3>6. \A i \in S : i \in 1 .. m
      BY <1>1, <3>2, <3>3, <3>4
    <3>7. S = 1 .. m
      <4> HIDE DEF S
      <4> QED
        BY <3>5, <3>6
    <3>8. QED
      BY <1>1, <3>4, <3>7
  <2>3. QED
    BY <2>1, <2>2
<1>4. Cardinality(S) = m
  <2>1. Cardinality(1 .. m) = m
    BY <1>1, FS_Interval
  <2>2. QED
    BY <1>3, <2>1
<1>5. Place(page[p], k) = 1 + m
  BY <1>4 DEF Place
<1>6. \A j \in 1 .. n : j <= m <=> page[p].ents[j].k < k
  BY <1>1, <1>3
<1>7. QED
  BY <1>1, <1>5, <1>6 DEF IsPlace

\* The table of stacks that Path reads.
IsDown(page, k, pgs, f) ==
  f = [p \in pgs |-> IF page[p].leaf THEN <<[pgno |-> p, index |-> Place(page[p], k)]>>
                   ELSE <<[pgno |-> p, index |-> Branch(page[p], k)]>>
                        \o f[page[p].ents[Branch(page[p], k)].v]]

\* The pages up to level n, and those outside of the tree.
UpTo(R, lv, n) == {p \in PageNo : p \in R => lv[p] <= n}

\* The pages of levels up to n, from the leaves alone to all.
LEMMA UpToRoot ==
  ASSUME NEW page, NEW R, NEW lv, NEW lo, NEW hi, NEW over, TreeOK(page, R, lv, lo, hi, over)
  PROVE  /\ lv[P_ROOT] \in Nat /\ P_ROOT \in R /\ R \subseteq PageNo
         /\ UpTo(R, lv, lv[P_ROOT]) = PageNo
         /\ \A p \in UpTo(R, lv, 0) : page[p].leaf
         /\ \A n \in Nat : /\ UpTo(R, lv, n) \subseteq UpTo(R, lv, n + 1)
                           /\ \A p \in UpTo(R, lv, n + 1) \ UpTo(R, lv, n) : p \in R /\ lv[p] = n + 1
                           /\ \A p \in UpTo(R, lv, n) : p \in PageNo /\ (~page[p].leaf => p \in R)
<1>1. lv \in [PageNo -> Nat] /\ P_ROOT \in R /\ R \subseteq PageNo /\ lv[P_ROOT] \in Nat
  BY Numbers DEF TreeOK, Typed
<1>2. \A p \in R : lv[p] <= lv[P_ROOT] /\ lv[p] \in Nat
  BY InTree
<1>3. UpTo(R, lv, lv[P_ROOT]) = PageNo
  BY <1>2 DEF UpTo
<1>4. \A p \in PageNo : (p \in R => lv[p] = 0) => page[p].leaf
  BY DEF TreeOK, Kinds
<1>5. \A p \in UpTo(R, lv, 0) : page[p].leaf
  BY <1>1, <1>2, <1>4 DEF UpTo
<1>6. ASSUME NEW n \in Nat
      PROVE  /\ UpTo(R, lv, n) \subseteq UpTo(R, lv, n + 1)
             /\ \A p \in UpTo(R, lv, n + 1) \ UpTo(R, lv, n) : p \in R /\ lv[p] = n + 1
             /\ \A p \in UpTo(R, lv, n) : p \in PageNo /\ (~page[p].leaf => p \in R)
  BY <1>2, <1>4 DEF UpTo
<1>7. QED
  BY <1>1, <1>3, <1>5, <1>6

\* The child a search takes is one level down.
LEMMA ChildBelow ==
  ASSUME NEW page, NEW R, NEW lv, NEW lo, NEW hi, NEW over, TreeOK(page, R, lv, lo, hi, over),
         NEW n \in Nat, NEW p \in UpTo(R, lv, n + 1), ~page[p].leaf,
         NEW i \in 1 .. Len(page[p].ents)
  PROVE  page[p].ents[i].v \in UpTo(R, lv, n)
<1>1. p \in R /\ n + 1 \in Nat
  BY UpToRoot
<1>2. lv[p] \in Nat /\ lv[p] # 0 /\ lv[p] <= n + 1
  BY <1>1, InTree DEF UpTo
<1>3. page[p].ents[i].v \in R /\ lv[page[p].ents[i].v] = lv[p] - 1
  BY <1>1, <1>2 DEF TreeOK, Down
<1>4. R \subseteq PageNo
  BY UpToRoot
<1>5. QED
  BY <1>2, <1>3, <1>4 DEF UpTo

\* The table of the ways down to k that a search builds exists.
LEMMA DownExists ==
  ASSUME NEW page, NEW R, NEW lv, NEW lo, NEW hi, NEW over, TreeOK(page, R, lv, lo, hi, over),
         NEW k \in Nat
  PROVE  \E f : IsDown(page, k, PageNo, f)
<1> DEFINE S == {n \in Nat : \E f : IsDown(page, k, UpTo(R, lv, n), f)}
<1>1. 0 \in S
  <2>1. PICK f : f = [p \in UpTo(R, lv, 0) |-> <<[pgno |-> p, index |-> Place(page[p], k)]>>]
    OBVIOUS
  <2>2. \A p \in UpTo(R, lv, 0) : page[p].leaf
    BY UpToRoot
  <2>3. IsDown(page, k, UpTo(R, lv, 0), f)
    BY <2>1, <2>2 DEF IsDown
  <2>4. QED
    BY <2>3
<1>2. ASSUME NEW n \in 0 .. lv[P_ROOT], n # lv[P_ROOT], n \in S PROVE n + 1 \in S
  <2>0. n \in Nat /\ n + 1 \in Nat
    BY <1>2
  <2>1. PICK f : IsDown(page, k, UpTo(R, lv, n), f)
    BY <1>2
  <2>2. PICK A : A = UpTo(R, lv, n)
    OBVIOUS
  <2>3. PICK B : B = UpTo(R, lv, n + 1)
    OBVIOUS
  <2>4. A \subseteq B /\ \A p \in B \ A : p \in R /\ lv[p] = n + 1
    BY <2>0, <2>2, <2>3, UpToRoot
  <2>5. PICK c : c = [p \in B |-> page[p].ents[Branch(page[p], k)].v]
    OBVIOUS
  <2>6. PICK e : e = [p \in B |-> <<[pgno |-> p, index |-> Branch(page[p], k)]>>]
    OBVIOUS
  <2>7. \A p \in B : ~page[p].leaf => c[p] \in A
    <3>1. SUFFICES ASSUME NEW p \in B, ~page[p].leaf PROVE c[p] \in A
      OBVIOUS
    <3>2. p \in R
      BY <2>0, <2>3, <3>1, UpToRoot
    <3>3. Branch(page[p], k) \in 1 .. Len(page[p].ents)
      BY <3>1, <3>2, BranchIs, InTree
    <3>4. QED
      BY <2>0, <2>2, <2>3, <2>5, <3>1, <3>3, ChildBelow
  <2>8. PICK l : l = [p \in B |-> <<[pgno |-> p, index |-> Place(page[p], k)]>>]
    OBVIOUS
  <2>9. PICK g : g = [p \in B |-> IF p \in A THEN f[p] ELSE IF page[p].leaf THEN l[p] ELSE e[p] \o f[c[p]]]
    OBVIOUS
  <2>10. \A p \in A : f[p] = IF page[p].leaf THEN l[p] ELSE e[p] \o f[c[p]]
    BY <2>1, <2>2, <2>4, <2>5, <2>6, <2>8 DEF IsDown
  <2>11. \A p \in B : ~page[p].leaf => g[c[p]] = f[c[p]]
    BY <2>4, <2>7, <2>9
  <2>12. g = [p \in B |-> IF page[p].leaf THEN l[p] ELSE e[p] \o g[c[p]]]
    BY <2>9, <2>10, <2>11
  <2>13. IsDown(page, k, B, g)
    BY <2>5, <2>6, <2>8, <2>12 DEF IsDown
  <2>14. QED
    BY <2>0, <2>3, <2>13
<1>3. lv[P_ROOT] \in S
  <2> HIDE DEF S
  <2>1. lv[P_ROOT] \in Nat /\ lv[P_ROOT] \in 0 .. lv[P_ROOT]
    BY UpToRoot
  <2>2. \A n \in 0 .. lv[P_ROOT] : n \in S
    BY <1>1, <1>2, <2>1, Counting
  <2>3. QED
    BY <2>1, <2>2
<1>4. UpTo(R, lv, lv[P_ROOT]) = PageNo
  BY UpToRoot
<1>5. QED
  BY <1>3, <1>4

\* The stack of a search for k that begins at p: one page per level, each with
\* k in its interval.
Stack == Seq([pgno : PageNo, index : Nat])
IsPath(page, R, lv, lo, hi, p, k, path) ==
  /\ path \in Stack /\ Len(path) = lv[p] + 1 /\ path[1].pgno = p
  /\ \A i \in 1 .. Len(path) :
       /\ path[i].pgno \in R /\ lv[path[i].pgno] = Len(path) - i
       /\ lo[path[i].pgno] <= k /\ k < hi[path[i].pgno]
  /\ \A i \in 1 .. Len(path) - 1 :
       /\ path[i].index \in 1 .. Len(page[path[i].pgno].ents)
       /\ page[path[i].pgno].ents[path[i].index].v = path[i + 1].pgno
  /\ path[Len(path)].index = Place(page[path[Len(path)].pgno], k)

\* A path from a child and the record above it are a path from the parent.
LEMMA PathLonger ==
  ASSUME NEW page, NEW R, NEW lv, NEW lo, NEW hi, NEW over, TreeOK(page, R, lv, lo, hi, over),
         NEW k \in Nat, NEW p \in R, lv[p] # 0, lo[p] <= k, k < hi[p],
         NEW j \in 1 .. Len(page[p].ents), NEW rest,
         IsPath(page, R, lv, lo, hi, page[p].ents[j].v, k, rest)
  PROVE  IsPath(page, R, lv, lo, hi, p, k, <<[pgno |-> p, index |-> j]>> \o rest)
<1>1. lv[p] \in Nat /\ p \in PageNo /\ Len(page[p].ents) \in Nat /\ j \in Nat
  BY InTree
<1>2. lv[page[p].ents[j].v] = lv[p] - 1
  BY DEF TreeOK, Down
<1>3. PICK n \in Nat : n = Len(rest) /\ n = lv[p]
  BY <1>1, <1>2 DEF IsPath
<1>4. PICK e : e = [pgno |-> p, index |-> j]
  OBVIOUS
<1>5. PICK path : path = <<e>> \o rest
  OBVIOUS
<1>6. /\ path \in Stack /\ Len(path) = n + 1
      /\ path[1] = [pgno |-> p, index |-> j]
      /\ \A i \in 1 .. n : path[i + 1] = rest[i]
  <2>1. e \in [pgno : PageNo, index : Nat] /\ rest \in Stack
    BY <1>1, <1>4 DEF IsPath
  <2>2. PICK one : one = <<e>>
    OBVIOUS
  <2>3. one \in Stack /\ Len(one) = 1 /\ one[1] = e /\ 1 \in 1 .. 1
    BY <2>1, <2>2, Single DEF Stack
  <2>4. /\ one \o rest \in Stack /\ Len(one \o rest) = Len(one) + Len(rest)
        /\ \A i \in 1 .. Len(one) : (one \o rest)[i] = one[i]
        /\ \A i \in 1 .. Len(rest) : (one \o rest)[Len(one) + i] = rest[i]
    <3> DEFINE X == [pgno : PageNo, index : Nat]
    <3>1. one \in Seq(X) /\ rest \in Seq(X)
      BY <2>1, <2>3 DEF Stack
    <3> HIDE DEF X
    <3>2. /\ one \o rest \in Seq(X) /\ Len(one \o rest) = Len(one) + Len(rest)
          /\ \A i \in 1 .. Len(one) : (one \o rest)[i] = one[i]
          /\ \A i \in 1 .. Len(rest) : (one \o rest)[Len(one) + i] = rest[i]
      BY <3>1, Both
    <3>3. QED
      BY <3>2 DEF X, Stack
  <2>5. Len(one) + Len(rest) = n + 1 /\ \A i \in 1 .. n : Len(one) + i = i + 1
    BY <1>3, <2>3
  <2>6. path = one \o rest
    BY <1>5, <2>2
  <2>7. path[1] = e
    BY <2>3, <2>4, <2>6
  <2>8. \A i \in 1 .. n : path[i + 1] = rest[i]
    BY <1>3, <2>4, <2>5, <2>6
  <2>9. QED
    BY <1>4, <2>4, <2>5, <2>6, <2>7, <2>8
<1>7. \A i \in 2 .. n + 1 : i - 1 \in 1 .. n /\ path[i] = rest[i - 1]
  BY <1>6
<1>8. ASSUME NEW i \in 1 .. n + 1
      PROVE  /\ path[i].pgno \in R /\ lv[path[i].pgno] = n + 1 - i
             /\ lo[path[i].pgno] <= k /\ k < hi[path[i].pgno]
  <2>1. CASE i = 1
    BY <1>3, <1>6, <2>1
  <2>2. CASE i # 1
    <3>1. i - 1 \in 1 .. n /\ path[i] = rest[i - 1] /\ n - (i - 1) = n + 1 - i
      BY <1>7, <2>2
    <3>2. QED
      BY <1>3, <3>1 DEF IsPath
  <2>3. QED
    BY <2>1, <2>2
<1>9. ASSUME NEW i \in 1 .. n
      PROVE  /\ path[i].index \in 1 .. Len(page[path[i].pgno].ents)
             /\ page[path[i].pgno].ents[path[i].index].v = path[i + 1].pgno
  <2>1. CASE i = 1
    <3>1. path[2] = rest[1]
      BY <1>6, <2>1
    <3>2. rest[1].pgno = page[p].ents[j].v
      BY DEF IsPath
    <3>3. QED
      BY <1>6, <2>1, <3>1, <3>2
  <2>2. CASE i # 1
    <3>1. i - 1 \in 1 .. n - 1 /\ path[i] = rest[i - 1] /\ path[i + 1] = rest[i] /\ (i - 1) + 1 = i
      BY <1>6, <1>7, <2>2
    <3>2. \A m \in 1 .. n - 1 : /\ rest[m].index \in 1 .. Len(page[rest[m].pgno].ents)
                               /\ page[rest[m].pgno].ents[rest[m].index].v = rest[m + 1].pgno
      BY <1>3 DEF IsPath
    <3>3. QED
      BY <3>1, <3>2
  <2>3. QED
    BY <2>1, <2>2
<1>10. path[n + 1].index = Place(page[path[n + 1].pgno], k)
  <2>1. n # 0
    BY <1>3
  <2>2. path[n + 1] = rest[n]
    BY <1>6, <2>1
  <2>3. QED
    BY <1>3, <2>2 DEF IsPath
<1>11. path[1].pgno = p /\ Len(path) - 1 = n /\ Len(path) = lv[p] + 1
  BY <1>3, <1>6
<1>12. IsPath(page, R, lv, lo, hi, p, k, path)
  <2>1. /\ \A i \in 1 .. Len(path) : /\ path[i].pgno \in R /\ lv[path[i].pgno] = Len(path) - i
                                     /\ lo[path[i].pgno] <= k /\ k < hi[path[i].pgno]
    BY <1>6, <1>8
  <2>2. path[Len(path)].index = Place(page[path[Len(path)].pgno], k)
    BY <1>6, <1>10
  <2>3. \A i \in 1 .. Len(path) - 1 :
           /\ path[i].index \in 1 .. Len(page[path[i].pgno].ents)
           /\ page[path[i].pgno].ents[path[i].index].v = path[i + 1].pgno
    BY <1>9, <1>11
  <2>4. QED
    BY <1>6, <1>11, <2>1, <2>2, <2>3, Zenon DEF IsPath
<1>13. QED
  BY <1>4, <1>5, <1>12

\* __bt_search goes down to the leaf that has the key, if any leaf has it.
LEMMA PathIs ==
  ASSUME NEW T, NEW R, NEW lv, NEW lo, NEW hi, NEW over, TreeOK(T.page, R, lv, lo, hi, over),
         NEW k \in Key
  PROVE  IsPath(T.page, R, lv, lo, hi, P_ROOT, k, Path(T, k))
<1>0. k \in Nat /\ 0 <= k /\ k < MaxKey + 1
  BY Numbers DEF Key
<1>1. PICK page : page = T.page
  OBVIOUS
<1> DEFINE f == CHOOSE g : IsDown(page, k, PageNo, g)
<1>2. IsDown(page, k, PageNo, f)
  BY <1>0, <1>1, DownExists
<1>3. Path(T, k) = f[P_ROOT]
  BY <1>1 DEF Path, IsDown
<1> HIDE DEF f
<1> DEFINE S == {n \in Nat : \A p \in R : lv[p] = n /\ lo[p] <= k /\ k < hi[p] =>
                                IsPath(page, R, lv, lo, hi, p, k, f[p])}
<1>4. ASSUME NEW p \in R
      PROVE  f[p] = IF page[p].leaf THEN <<[pgno |-> p, index |-> Place(page[p], k)]>>
                    ELSE <<[pgno |-> p, index |-> Branch(page[p], k)]>>
                         \o f[page[p].ents[Branch(page[p], k)].v]
  <2>1. p \in PageNo
    BY <1>1, UpToRoot
  <2>2. QED
    BY <1>2, <2>1, Zenon DEF IsDown
<1>5. 0 \in S
  <2>1. SUFFICES ASSUME NEW p \in R, lv[p] = 0, lo[p] <= k, k < hi[p]
                 PROVE  IsPath(page, R, lv, lo, hi, p, k, f[p])
    OBVIOUS
  <2>2. PICK i \in Nat : i = Place(page[p], k)
    BY <1>0, <1>1, <2>1, PlaceIs
  <2>3. p \in PageNo /\ page[p].leaf
    BY <1>1, <2>1, InTree
  <2>4. f[p] = <<[pgno |-> p, index |-> i]>>
    BY <1>4, <2>2, <2>3
  <2>5. PICK path : path = f[p]
    OBVIOUS
  <2>6. path \in Stack /\ Len(path) = 1 /\ path[1] = [pgno |-> p, index |-> i]
    BY <2>3, <2>4, <2>5 DEF Stack
  <2>7. IsPath(page, R, lv, lo, hi, p, k, path)
    BY <2>1, <2>2, <2>6 DEF IsPath
  <2>8. QED
    BY <2>5, <2>7
<1>6. ASSUME NEW n \in 0 .. lv[P_ROOT], n # lv[P_ROOT], n \in S PROVE n + 1 \in S
  <2>0. n \in Nat /\ n + 1 \in Nat
    BY <1>6
  <2>1. SUFFICES ASSUME NEW p \in R, lv[p] = n + 1, lo[p] <= k, k < hi[p]
                 PROVE  IsPath(page, R, lv, lo, hi, p, k, f[p])
    BY <2>0
  <2>2. lv[p] # 0 /\ ~page[p].leaf
    BY <1>1, <2>0, <2>1, InTree
  <2>3. PICK j : j = Branch(page[p], k)
    OBVIOUS
  <2>4. /\ j \in 1 .. Len(page[p].ents)
        /\ lo[page[p].ents[j].v] <= k /\ k < hi[page[p].ents[j].v]
    BY <1>0, <1>1, <2>1, <2>2, <2>3, BranchIs
  <2>5. page[p].ents[j].v \in R /\ lv[page[p].ents[j].v] = lv[p] - 1
    BY <1>1, <2>2, <2>4 DEF TreeOK, Down
  <2>6. lv[page[p].ents[j].v] = n
    BY <2>0, <2>1, <2>5
  <2>7. IsPath(page, R, lv, lo, hi, page[p].ents[j].v, k, f[page[p].ents[j].v])
    BY <1>6, <2>4, <2>5, <2>6
  <2>8. f[p] = <<[pgno |-> p, index |-> j]>> \o f[page[p].ents[j].v]
    BY <1>4, <2>2, <2>3
  <2>9. IsPath(page, R, lv, lo, hi, p, k, <<[pgno |-> p, index |-> j]>> \o f[page[p].ents[j].v])
    BY <1>0, <1>1, <2>1, <2>2, <2>4, <2>7, PathLonger
  <2>10. QED
    BY <2>8, <2>9
<1>7. lv[P_ROOT] \in Nat /\ lv[P_ROOT] \in 0 .. lv[P_ROOT] /\ P_ROOT \in R
  BY UpToRoot
<1>8. lv[P_ROOT] \in S
  <2> HIDE DEF S
  <2>1. \A n \in 0 .. lv[P_ROOT] : n \in S
    BY <1>5, <1>6, <1>7, Counting
  <2>2. QED
    BY <1>7, <2>1
<1>9. lo[P_ROOT] <= k /\ k < hi[P_ROOT]
  BY <1>0 DEF TreeOK, Spans
<1>10. QED
  BY <1>1, <1>3, <1>7, <1>8, <1>9

\* The table of sets of pages that Reach reads.
IsBelow(page, pgs, f) ==
  f = [p \in pgs |-> {p} \cup IF page[p].leaf THEN {}
                            ELSE UNION {f[page[p].ents[i].v] : i \in DOMAIN page[p].ents}]

\* The table of the pages below each page exists.
LEMMA BelowExists ==
  ASSUME NEW page, NEW R, NEW lv, NEW lo, NEW hi, NEW over, TreeOK(page, R, lv, lo, hi, over)
  PROVE  \E f : IsBelow(page, PageNo, f)
<1> DEFINE S == {n \in Nat : \E f : IsBelow(page, UpTo(R, lv, n), f)}
<1>1. 0 \in S
  <2>1. PICK f : f = [p \in UpTo(R, lv, 0) |-> {p}]
    OBVIOUS
  <2>2. \A p \in UpTo(R, lv, 0) : page[p].leaf
    BY UpToRoot
  <2>3. IsBelow(page, UpTo(R, lv, 0), f)
    BY <2>1, <2>2 DEF IsBelow
  <2>4. QED
    BY <2>3
<1>2. ASSUME NEW n \in 0 .. lv[P_ROOT], n # lv[P_ROOT], n \in S PROVE n + 1 \in S
  <2>0. n \in Nat /\ n + 1 \in Nat
    BY <1>2
  <2>1. PICK f : IsBelow(page, UpTo(R, lv, n), f)
    BY <1>2
  <2>2. PICK A : A = UpTo(R, lv, n)
    OBVIOUS
  <2>3. PICK B : B = UpTo(R, lv, n + 1)
    OBVIOUS
  <2>4. A \subseteq B
    BY <2>0, <2>2, <2>3, UpToRoot
  <2>5. ASSUME NEW p \in B, ~page[p].leaf, NEW i \in DOMAIN page[p].ents PROVE page[p].ents[i].v \in A
    <3>1. p \in R
      BY <2>0, <2>3, <2>5, UpToRoot
    <3>2. i \in 1 .. Len(page[p].ents)
      BY <3>1, InTree
    <3>3. QED
      BY <2>0, <2>2, <2>3, <2>5, <3>2, ChildBelow
  <2> DEFINE G(p) == {p} \cup IF page[p].leaf THEN {}
                              ELSE UNION {f[page[p].ents[i].v] : i \in DOMAIN page[p].ents}
  <2>6. PICK g : g = [p \in B |-> G(p)]
    OBVIOUS
  <2>7. \A p \in A : g[p] = f[p]
    <3>1. \A p \in A : f[p] = G(p)
      BY <2>1, <2>2 DEF IsBelow
    <3> HIDE DEF G
    <3>2. QED
      BY <2>4, <2>6, <3>1
  <2>8. ASSUME NEW p \in B
        PROVE  G(p) = {p} \cup IF page[p].leaf THEN {}
                               ELSE UNION {g[page[p].ents[i].v] : i \in DOMAIN page[p].ents}
    <3>1. CASE page[p].leaf
      BY <3>1
    <3>2. CASE ~page[p].leaf
      <4>1. \A i \in DOMAIN page[p].ents : g[page[p].ents[i].v] = f[page[p].ents[i].v]
        BY <2>5, <2>7, <3>2
      <4>2. {g[page[p].ents[i].v] : i \in DOMAIN page[p].ents}
            = {f[page[p].ents[i].v] : i \in DOMAIN page[p].ents}
        BY <4>1
      <4>3. QED
        BY <3>2, <4>2
    <3>3. QED
      BY <3>1, <3>2
  <2>9. IsBelow(page, B, g)
    <3> HIDE DEF G
    <3>1. g = [p \in B |-> {p} \cup IF page[p].leaf THEN {}
                                    ELSE UNION {g[page[p].ents[i].v] : i \in DOMAIN page[p].ents}]
      BY <2>6, <2>8, Zenon
    <3>2. QED
      BY <3>1 DEF IsBelow
  <2>10. QED
    BY <2>0, <2>3, <2>9
<1>3. lv[P_ROOT] \in S
  <2> HIDE DEF S
  <2>1. lv[P_ROOT] \in Nat /\ lv[P_ROOT] \in 0 .. lv[P_ROOT]
    BY UpToRoot
  <2>2. \A n \in 0 .. lv[P_ROOT] : n \in S
    BY <1>1, <1>2, <2>1, Counting
  <2>3. QED
    BY <2>1, <2>2
<1>4. UpTo(R, lv, lv[P_ROOT]) = PageNo
  BY UpToRoot
<1>5. QED
  BY <1>3, <1>4

\* R is the set of the pages of the tree.
LEMMA ReachIs ==
  ASSUME NEW T, NEW R, NEW lv, NEW lo, NEW hi, NEW over, TreeOK(T.page, R, lv, lo, hi, over)
  PROVE  Reach(T) = R
<1>1. PICK page : page = T.page
  OBVIOUS
<1> DEFINE f == CHOOSE g : IsBelow(page, PageNo, g)
<1>2. IsBelow(page, PageNo, f)
  BY <1>1, BelowExists
<1>3. Reach(T) = f[P_ROOT]
  BY <1>1 DEF Reach, IsBelow
<1> HIDE DEF f
<1> DEFINE Child(q) == {page[q].ents[i].v : i \in DOMAIN page[q].ents}
<1> DEFINE Inside(q) == /\ f[q] \subseteq R
                        /\ \A p \in f[q] : ~page[p].leaf => Child(p) \subseteq f[q]
<1> DEFINE S == {n \in Nat : \A q \in R : lv[q] = n => Inside(q)}
<1>4. ASSUME NEW q \in R
      PROVE  /\ page[q].leaf => f[q] = {q}
             /\ ~page[q].leaf => f[q] = {q} \cup UNION {f[c] : c \in Child(q)}
  <2>1. q \in PageNo
    BY <1>1, UpToRoot
  <2>2. f[q] = {q} \cup IF page[q].leaf THEN {}
                        ELSE UNION {f[page[q].ents[i].v] : i \in DOMAIN page[q].ents}
    BY <1>2, <2>1, Zenon DEF IsBelow
  <2>3. {f[page[q].ents[i].v] : i \in DOMAIN page[q].ents} = {f[c] : c \in Child(q)}
    OBVIOUS
  <2>4. QED
    BY <2>2, <2>3
<1>5. ASSUME NEW q \in R, ~page[q].leaf, NEW c \in Child(q)
      PROVE  c \in R /\ lv[c] = lv[q] - 1
  <2>1. lv[q] # 0 /\ DOMAIN page[q].ents = 1 .. Len(page[q].ents)
    BY <1>1, <1>5, InTree
  <2>2. QED
    BY <1>1, <1>5, <2>1 DEF TreeOK, Down
<1>6. 0 \in S
  <2>1. SUFFICES ASSUME NEW q \in R, lv[q] = 0 PROVE Inside(q)
    OBVIOUS
  <2>2. page[q].leaf /\ f[q] = {q}
    BY <1>1, <1>4, <2>1, InTree
  <2>3. QED
    BY <2>2
<1>7. ASSUME NEW n \in 0 .. lv[P_ROOT], n # lv[P_ROOT], n \in S PROVE n + 1 \in S
  <2>0. n \in Nat /\ n + 1 \in Nat
    BY <1>7
  <2>1. SUFFICES ASSUME NEW q \in R, lv[q] = n + 1 PROVE Inside(q)
    BY <2>0
  <2>2. ~page[q].leaf
    BY <1>1, <2>0, <2>1, InTree
  <2>3. \A c \in Child(q) : c \in R /\ lv[c] = n
    <3>1. \A c \in Child(q) : c \in R /\ lv[c] = lv[q] - 1
      BY <1>5, <2>2
    <3>2. lv[q] - 1 = n
      BY <2>0, <2>1
    <3>3. QED
      BY <3>1, <3>2
  <2>4. \A c \in Child(q) : Inside(c)
    BY <1>7, <2>3
  <2>5. f[q] = {q} \cup UNION {f[c] : c \in Child(q)}
    BY <1>4, <2>2
  <2> HIDE DEF Child
  <2>6. \A c \in Child(q) : f[c] \subseteq f[q] /\ f[c] \subseteq R /\ c \in f[c]
    BY <1>4, <2>3, <2>4, <2>5
  <2>7. f[q] \subseteq R
    BY <2>5, <2>6
  <2>8. ASSUME NEW p \in f[q], ~page[p].leaf PROVE Child(p) \subseteq f[q]
    <3>1. CASE p = q
      BY <2>6, <3>1
    <3>2. CASE p # q
      <4>1. PICK c \in Child(q) : p \in f[c]
        BY <2>5, <3>2
      <4>2. Child(p) \subseteq f[c]
        BY <2>4, <2>8, <4>1
      <4>3. QED
        BY <2>6, <4>2
    <3>3. QED
      BY <3>1, <3>2
  <2>9. QED
    BY <2>7, <2>8
<1>8. lv[P_ROOT] \in Nat /\ lv[P_ROOT] \in 0 .. lv[P_ROOT] /\ P_ROOT \in R
  BY UpToRoot
<1>9. Inside(P_ROOT)
  <2>1. lv[P_ROOT] \in S
    <3> HIDE DEF S
    <3>1. \A n \in 0 .. lv[P_ROOT] : n \in S
      BY <1>6, <1>7, <1>8, Counting
    <3>2. QED
      BY <1>8, <3>1
  <2>2. QED
    BY <1>8, <2>1
<1> DEFINE U == {d \in Nat : \A c \in R : lv[c] + d = lv[P_ROOT] => c \in f[P_ROOT]}
<1>10. 0 \in U
  <2>1. ASSUME NEW c \in R, lv[c] + 0 = lv[P_ROOT] PROVE c \in f[P_ROOT]
    <3>1. lv[c] \in Nat /\ lv[c] = lv[P_ROOT]
      BY <1>8, <2>1, InTree
    <3>2. c = P_ROOT
      BY <1>8, <3>1 DEF TreeOK, Spans
    <3>3. QED
      BY <1>4, <1>8, <3>2
  <2>2. QED
    BY <2>1
<1>11. ASSUME NEW d \in 0 .. lv[P_ROOT], d # lv[P_ROOT], d \in U PROVE d + 1 \in U
  <2>0. d \in Nat /\ d + 1 \in Nat
    BY <1>11
  <2>1. SUFFICES ASSUME NEW c \in R, lv[c] + (d + 1) = lv[P_ROOT] PROVE c \in f[P_ROOT]
    BY <2>0
  <2>2. lv[c] \in Nat /\ c # P_ROOT
    BY <2>0, <2>1, <1>8, InTree
  <2>3. PICK p \in R : lv[p] = lv[c] + 1 /\ \E i \in 1 .. Len(page[p].ents) : page[p].ents[i].v = c
    BY <1>1, <2>2 DEF TreeOK, Up
  <2>4. p \in f[P_ROOT]
    <3>1. lv[p] + d = lv[P_ROOT]
      BY <2>0, <2>1, <2>2, <2>3
    <3>2. QED
      BY <1>11, <3>1
  <2>5. ~page[p].leaf /\ c \in Child(p)
    <3>1. lv[p] # 0
      BY <2>2, <2>3
    <3>2. ~page[p].leaf /\ DOMAIN page[p].ents = 1 .. Len(page[p].ents)
      BY <1>1, <3>1, InTree
    <3>3. QED
      BY <2>3, <3>2
  <2>6. QED
    BY <1>9, <2>4, <2>5
<1>12. ASSUME NEW c \in R PROVE c \in f[P_ROOT]
  <2>1. PICK d \in 0 .. lv[P_ROOT] : lv[c] + d = lv[P_ROOT]
    <3>1. lv[c] \in Nat /\ lv[c] <= lv[P_ROOT]
      BY InTree
    <3>2. lv[P_ROOT] - lv[c] \in 0 .. lv[P_ROOT] /\ lv[c] + (lv[P_ROOT] - lv[c]) = lv[P_ROOT]
      BY <1>8, <3>1
    <3>3. QED
      BY <3>2
  <2>2. d \in U
    <3> HIDE DEF U
    <3>1. \A e \in 0 .. lv[P_ROOT] : e \in U
      BY <1>8, <1>10, <1>11, Counting
    <3>2. QED
      BY <3>1
  <2>3. QED
    BY <2>1, <2>2
<1>13. QED
  BY <1>3, <1>9, <1>12

\* The table of leaves that Edge reads.
Side(pg, right) == IF right THEN Len(pg.ents) ELSE 1
IsSide(page, right, pgs, f) ==
  f = [p \in pgs |-> IF page[p].leaf THEN p ELSE f[page[p].ents[Side(page[p], right)].v]]

\* The outermost child of a page has the same outer bound as the page.
LEMMA SideChild ==
  ASSUME NEW page, NEW R, NEW lv, NEW lo, NEW hi, NEW over, TreeOK(page, R, lv, lo, hi, over),
         NEW right \in BOOLEAN, NEW p \in R, lv[p] # 0
  PROVE  /\ Side(page[p], right) \in 1 .. Len(page[p].ents)
         /\ page[p].ents[Side(page[p], right)].v \in R
         /\ lv[page[p].ents[Side(page[p], right)].v] = lv[p] - 1
         /\ right => hi[page[p].ents[Side(page[p], right)].v] = hi[p]
         /\ ~right => lo[page[p].ents[Side(page[p], right)].v] = lo[p]
<1>1. Len(page[p].ents) \in Nat /\ Len(page[p].ents) # 0
  BY InTree DEF TreeOK, Filled
<1>2. Side(page[p], right) \in 1 .. Len(page[p].ents)
  BY <1>1 DEF Side
<1>3. QED
  BY <1>2 DEF TreeOK, Down, Side

\* The table of the way down one side of the tree exists.
LEMMA SideExists ==
  ASSUME NEW page, NEW R, NEW lv, NEW lo, NEW hi, NEW over, TreeOK(page, R, lv, lo, hi, over),
         NEW right \in BOOLEAN
  PROVE  \E f : IsSide(page, right, PageNo, f)
<1> DEFINE S == {n \in Nat : \E f : IsSide(page, right, UpTo(R, lv, n), f)}
<1>1. 0 \in S
  <2>1. PICK f : f = [p \in UpTo(R, lv, 0) |-> p]
    OBVIOUS
  <2>2. \A p \in UpTo(R, lv, 0) : page[p].leaf
    BY UpToRoot
  <2>3. IsSide(page, right, UpTo(R, lv, 0), f)
    BY <2>1, <2>2 DEF IsSide
  <2>4. QED
    BY <2>3
<1>2. ASSUME NEW n \in 0 .. lv[P_ROOT], n # lv[P_ROOT], n \in S PROVE n + 1 \in S
  <2>0. n \in Nat /\ n + 1 \in Nat
    BY <1>2
  <2>1. PICK f : IsSide(page, right, UpTo(R, lv, n), f)
    BY <1>2
  <2>2. PICK A : A = UpTo(R, lv, n)
    OBVIOUS
  <2>3. PICK B : B = UpTo(R, lv, n + 1)
    OBVIOUS
  <2>4. A \subseteq B
    BY <2>0, <2>2, <2>3, UpToRoot
  <2>5. PICK c : c = [p \in B |-> page[p].ents[Side(page[p], right)].v]
    OBVIOUS
  <2>6. ASSUME NEW p \in B, ~page[p].leaf PROVE c[p] \in A
    <3>1. p \in R
      BY <2>0, <2>3, <2>6, UpToRoot
    <3>2. Side(page[p], right) \in 1 .. Len(page[p].ents)
      BY <2>6, <3>1, SideChild, InTree
    <3>3. QED
      BY <2>0, <2>2, <2>3, <2>5, <2>6, <3>2, ChildBelow
  <2>7. PICK g : g = [p \in B |-> IF p \in A THEN f[p] ELSE IF page[p].leaf THEN p ELSE f[c[p]]]
    OBVIOUS
  <2>8. \A p \in A : f[p] = IF page[p].leaf THEN p ELSE f[c[p]]
    BY <2>1, <2>2, <2>4, <2>5 DEF IsSide
  <2>9. \A p \in B : ~page[p].leaf => g[c[p]] = f[c[p]]
    BY <2>4, <2>6, <2>7
  <2>10. g = [p \in B |-> IF page[p].leaf THEN p ELSE g[c[p]]]
    BY <2>7, <2>8, <2>9
  <2>11. IsSide(page, right, B, g)
    BY <2>5, <2>10 DEF IsSide
  <2>12. QED
    BY <2>0, <2>3, <2>11
<1>3. lv[P_ROOT] \in S
  <2> HIDE DEF S
  <2>1. lv[P_ROOT] \in Nat /\ lv[P_ROOT] \in 0 .. lv[P_ROOT]
    BY UpToRoot
  <2>2. \A n \in 0 .. lv[P_ROOT] : n \in S
    BY <1>1, <1>2, <2>1, Counting
  <2>3. QED
    BY <2>1, <2>2
<1>4. UpTo(R, lv, lv[P_ROOT]) = PageNo
  BY UpToRoot
<1>5. QED
  BY <1>3, <1>4

\* __bt_seqset ends at the first record of the first leaf or the last record
\* of the last leaf, unless the tree is empty.
AtEdge(T, R, lv, lo, hi, right) ==
  \E p \in R : /\ lv[p] = 0
               /\ right => hi[p] = MaxKey + 1
               /\ ~right => lo[p] = 0
               /\ Edge(T, right) = IF Len(T.page[p].ents) = 0 THEN Nowhere
                                   ELSE [pgno |-> p, index |-> Side(T.page[p], right)]

\* That way ends at the first or the last leaf.
LEMMA EdgeIs ==
  ASSUME NEW T, NEW R, NEW lv, NEW lo, NEW hi, NEW over, TreeOK(T.page, R, lv, lo, hi, over),
         NEW right \in BOOLEAN
  PROVE  AtEdge(T, R, lv, lo, hi, right)
<1>1. PICK page : page = T.page
  OBVIOUS
<1> DEFINE f == CHOOSE g : IsSide(page, right, PageNo, g)
<1>2. IsSide(page, right, PageNo, f)
  BY <1>1, SideExists
<1>3. Edge(T, right) = IF page[f[P_ROOT]].ents = <<>> THEN Nowhere
                       ELSE [pgno |-> f[P_ROOT], index |-> Side(page[f[P_ROOT]], right)]
  BY <1>1 DEF Edge, IsSide, Side
<1> HIDE DEF f
<1> DEFINE At(p, q) == /\ q \in R /\ lv[q] = 0
                       /\ right => hi[q] = hi[p]
                       /\ ~right => lo[q] = lo[p]
<1> DEFINE S == {n \in Nat : \A p \in R : lv[p] = n => At(p, f[p])}
<1>4. ASSUME NEW p \in R
      PROVE  f[p] = IF page[p].leaf THEN p ELSE f[page[p].ents[Side(page[p], right)].v]
  <2>1. p \in PageNo
    BY <1>1, UpToRoot
  <2>2. QED
    BY <1>2, <2>1, Zenon DEF IsSide
<1>5. 0 \in S
  <2>1. ASSUME NEW p \in R, lv[p] = 0 PROVE At(p, f[p])
    <3>1. f[p] = p
      BY <1>1, <1>4, <2>1, InTree
    <3>2. QED
      BY <2>1, <3>1
  <2>2. QED
    BY <2>1
<1>6. ASSUME NEW n \in 0 .. lv[P_ROOT], n # lv[P_ROOT], n \in S PROVE n + 1 \in S
  <2>0. n \in Nat /\ n + 1 \in Nat
    BY <1>6
  <2>1. SUFFICES ASSUME NEW p \in R, lv[p] = n + 1 PROVE At(p, f[p])
    BY <2>0
  <2>2. lv[p] # 0 /\ ~page[p].leaf
    BY <1>1, <2>0, <2>1, InTree
  <2>3. PICK c : c = page[p].ents[Side(page[p], right)].v
    OBVIOUS
  <2>4. c \in R /\ lv[c] = lv[p] - 1 /\ (right => hi[c] = hi[p]) /\ (~right => lo[c] = lo[p])
    BY <1>1, <2>2, <2>3, SideChild
  <2>5. lv[c] = n
    BY <2>0, <2>1, <2>4
  <2>6. At(c, f[c])
    BY <1>6, <2>4, <2>5
  <2>7. f[p] = f[c]
    BY <1>4, <2>2, <2>3
  <2>8. QED
    BY <2>4, <2>6, <2>7
<1>7. lv[P_ROOT] \in Nat /\ lv[P_ROOT] \in 0 .. lv[P_ROOT] /\ P_ROOT \in R
  BY UpToRoot
<1>8. At(P_ROOT, f[P_ROOT])
  <2>1. lv[P_ROOT] \in S
    <3> HIDE DEF S
    <3>1. \A n \in 0 .. lv[P_ROOT] : n \in S
      BY <1>5, <1>6, <1>7, Counting
    <3>2. QED
      BY <1>7, <3>1
  <2>2. QED
    BY <1>7, <2>1
<1>9. lo[P_ROOT] = 0 /\ hi[P_ROOT] = MaxKey + 1
  BY DEF TreeOK, Spans
<1>10. page[f[P_ROOT]].ents \in Seq(Ent)
  BY <1>1, <1>8, InTree
<1>11. (page[f[P_ROOT]].ents = <<>>) <=> (Len(page[f[P_ROOT]].ents) = 0)
  BY <1>10
<1>12. /\ f[P_ROOT] \in R /\ lv[f[P_ROOT]] = 0
       /\ right => hi[f[P_ROOT]] = MaxKey + 1
       /\ ~right => lo[f[P_ROOT]] = 0
       /\ Edge(T, right) = IF Len(T.page[f[P_ROOT]].ents) = 0 THEN Nowhere
                           ELSE [pgno |-> f[P_ROOT], index |-> Side(T.page[f[P_ROOT]], right)]
  BY <1>1, <1>3, <1>8, <1>9, <1>11
<1>13. QED
  BY <1>12 DEF AtEdge
-----------------------------------------------------------------------------
(* Changing the records of one page *)

WithEnts(page, p, ents) == [page EXCEPT ![p] = Sibling(page[p], page[p].prev, page[p].next, ents)]

\* Records that page p could have instead of its own.
EntsOK(R, lv, lo, hi, p, ents) ==
  /\ ents \in Seq(Ent)
  /\ \A i \in 1 .. Len(ents) : IF lv[p] = 0 THEN ents[i].k \in Key /\ ents[i].v \in Data
                               ELSE ents[i].v \in PageNo
  /\ \A i, j \in 1 .. Len(ents) : i < j /\ (lv[p] = 0 \/ i # 1) => ents[i].k < ents[j].k
  /\ \A i \in 1 .. Len(ents) :
       /\ lv[p] = 0 => lo[p] <= ents[i].k /\ ents[i].k < hi[p]
       /\ i # 1 => lo[p] < ents[i].k /\ ents[i].k < hi[p]
  /\ Len(ents) # 0 \/ (p = P_ROOT /\ lv[p] = 0)
  /\ lv[p] # 0 => \A i \in 1 .. Len(ents) :
       /\ ents[i].v \in R
       /\ lv[ents[i].v] = lv[p] - 1
       /\ lo[ents[i].v] = IF i = 1 THEN lo[p] ELSE ents[i].k
       /\ hi[ents[i].v] = IF i = Len(ents) THEN hi[p] ELSE ents[i + 1].k

\* What TreeOK says of the records of one page.
LEMMA EntsAre ==
  ASSUME NEW page, NEW R, NEW lv, NEW lo, NEW hi, NEW over, TreeOK(page, R, lv, lo, hi, over),
         NEW p \in R
  PROVE  EntsOK(R, lv, lo, hi, p, page[p].ents)
<1>1. /\ page[p].ents \in Seq(Ent)
      /\ \A i \in 1 .. Len(page[p].ents) : IF lv[p] = 0 THEN page[p].ents[i].k \in Key /\ page[p].ents[i].v \in Data
                                           ELSE page[p].ents[i].v \in PageNo
  BY InTree
<1>2. Len(page[p].ents) # 0 \/ (p = P_ROOT /\ lv[p] = 0)
  BY DEF TreeOK, Filled
<1>3. \A i, j \in 1 .. Len(page[p].ents) : i < j /\ (lv[p] = 0 \/ i # 1) => page[p].ents[i].k < page[p].ents[j].k
  BY DEF TreeOK, Ordered
<1>4. \A i \in 1 .. Len(page[p].ents) :
       /\ lv[p] = 0 => lo[p] <= page[p].ents[i].k /\ page[p].ents[i].k < hi[p]
       /\ i # 1 => lo[p] < page[p].ents[i].k /\ page[p].ents[i].k < hi[p]
  BY DEF TreeOK, Within
<1>5. lv[p] # 0 => \A i \in 1 .. Len(page[p].ents) :
       /\ page[p].ents[i].v \in R
       /\ lv[page[p].ents[i].v] = lv[p] - 1
       /\ lo[page[p].ents[i].v] = IF i = 1 THEN lo[p] ELSE page[p].ents[i].k
       /\ hi[page[p].ents[i].v] = IF i = Len(page[p].ents) THEN hi[p] ELSE page[p].ents[i + 1].k
  BY DEF TreeOK, Down
<1>6. QED
  BY <1>1, <1>2, <1>3, <1>4, <1>5 DEF EntsOK

LEMMA WithEntsIs ==
  ASSUME NEW page \in [PageNo -> Page], NEW p \in PageNo, NEW ents
  PROVE  /\ WithEnts(page, p, ents)[p].ents = ents
         /\ DOMAIN WithEnts(page, p, ents) = PageNo
         /\ \A q \in PageNo : /\ q # p => WithEnts(page, p, ents)[q] = page[q]
                              /\ WithEnts(page, p, ents)[q].leaf = page[q].leaf
                              /\ WithEnts(page, p, ents)[q].prev = page[q].prev
                              /\ WithEnts(page, p, ents)[q].next = page[q].next
         /\ WithEnts(page, p, ents) = [page EXCEPT ![p].ents = ents]
<1>1. page[p] \in Page
  OBVIOUS
<1>2. page[p] = Sibling(page[p], page[p].prev, page[p].next, page[p].ents)
  BY <1>1, PageParts
<1>3. Sibling(page[p], page[p].prev, page[p].next, ents) = [page[p] EXCEPT !.ents = ents]
  BY <1>2 DEF Sibling
<1>4. QED
  BY <1>3 DEF WithEnts, Sibling

\* Records may be exchanged when no child is lost: over may be overfull then.
LEMMA EntsChange ==
  ASSUME NEW page, NEW R, NEW lv, NEW lo, NEW hi, NEW over, TreeOK(page, R, lv, lo, hi, over),
         NEW p \in R, over \in {p, P_INVALID}, NEW ents, EntsOK(R, lv, lo, hi, p, ents),
         lv[p] # 0 => \A i \in 1 .. Len(page[p].ents) : \E j \in 1 .. Len(ents) :
                        ents[j].v = page[p].ents[i].v
  PROVE  TreeOK(WithEnts(page, p, ents), R, lv, lo, hi, p)
<1>0. page \in [PageNo -> Page] /\ p \in PageNo /\ R \subseteq PageNo /\ (page[p].leaf <=> lv[p] = 0)
      /\ page[p].leaf \in BOOLEAN
  <2>1. page \in [PageNo -> Page] /\ R \subseteq PageNo
    BY DEF TreeOK, Typed
  <2>2. QED
    BY <2>1, InTree
<1>1. PICK new : new = WithEnts(page, p, ents)
  OBVIOUS
<1>2. /\ new[p].ents = ents /\ new = [page EXCEPT ![p] = Sibling(page[p], page[p].prev, page[p].next, ents)]
      /\ \A q \in PageNo : /\ q # p => new[q] = page[q]
                           /\ new[q].leaf = page[q].leaf
                           /\ new[q].prev = page[q].prev
                           /\ new[q].next = page[q].next
  <2>1. new = [page EXCEPT ![p] = Sibling(page[p], page[p].prev, page[p].next, ents)]
    BY <1>1 DEF WithEnts
  <2>2. new[p] = [leaf |-> page[p].leaf, prev |-> page[p].prev, next |-> page[p].next, ents |-> ents]
    BY <1>0, <2>1 DEF Sibling
  <2>3. \A q \in PageNo : q # p => new[q] = page[q]
    BY <1>0, <2>1
  <2>4. QED
    BY <2>1, <2>2, <2>3
<1>3. Typed(new, R, lv, lo, hi)
  <2>1. Sibling(page[p], page[p].prev, page[p].next, ents) \in Page
    <3>1. page[p].prev \in 0 .. MaxPages - 1 /\ page[p].next \in 0 .. MaxPages - 1
      BY <1>0, PageParts
    <3>2. QED
      BY <1>0, <3>1, PageMade DEF Sibling, EntsOK
  <2>2. new \in [PageNo -> Page]
    BY <1>0, <1>2, <2>1
  <2>3. QED
    BY <2>2 DEF TreeOK, Typed
<1>4. Spans(R, lv, lo, hi) /\ Apart(R, lv, lo, hi)
  BY DEF TreeOK
<1>5. Kinds(new, R, lv)
  BY <1>0, <1>2 DEF TreeOK, Kinds
<1>6. Linked(new, R, lv, lo, hi)
  <2>1. \A q \in R : new[q].prev = page[q].prev /\ new[q].next = page[q].next
    BY <1>0, <1>2
  <2>2. QED
    BY <2>1 DEF TreeOK, Linked
<1>7. \A q \in R : q = p \/ new[q] = page[q]
  BY <1>0, <1>2
<1>8. Ordered(new, R, lv)
  <2>1. ASSUME NEW q \in R, NEW i \in 1 .. Len(new[q].ents), NEW j \in 1 .. Len(new[q].ents),
               i < j, lv[q] = 0 \/ i # 1
        PROVE  new[q].ents[i].k < new[q].ents[j].k
    <3>1. CASE q = p
      BY <1>2, <2>1, <3>1 DEF EntsOK
    <3>2. CASE q # p
      BY <1>7, <2>1, <3>2 DEF TreeOK, Ordered
    <3>3. QED
      BY <3>1, <3>2
  <2>2. QED
    BY <2>1 DEF Ordered
<1>9. Within(new, R, lv, lo, hi)
  <2>1. ASSUME NEW q \in R, NEW i \in 1 .. Len(new[q].ents)
        PROVE  /\ lv[q] = 0 => lo[q] <= new[q].ents[i].k /\ new[q].ents[i].k < hi[q]
               /\ i # 1 => lo[q] < new[q].ents[i].k /\ new[q].ents[i].k < hi[q]
    <3>1. CASE q = p
      BY <1>2, <2>1, <3>1 DEF EntsOK
    <3>2. CASE q # p
      BY <1>7, <2>1, <3>2 DEF TreeOK, Within
    <3>3. QED
      BY <3>1, <3>2
  <2>2. QED
    BY <2>1 DEF Within
<1>10. Filled(new, R, lv)
  <2>1. ASSUME NEW q \in R PROVE Len(new[q].ents) # 0 \/ (q = P_ROOT /\ lv[q] = 0)
    <3>1. CASE q = p
      BY <1>2, <2>1, <3>1 DEF EntsOK
    <3>2. CASE q # p
      BY <1>7, <2>1, <3>2 DEF TreeOK, Filled
    <3>3. QED
      BY <3>1, <3>2
  <2>2. QED
    BY <2>1 DEF Filled
<1>11. Fitting(new, R, p)
  <2>1. P_INVALID \notin R
    BY <1>0, Numbers
  <2>2. QED
    BY <1>7, <2>1 DEF TreeOK, Fitting
<1>12. Down(new, R, lv, lo, hi)
  <2>1. ASSUME NEW q \in R, lv[q] # 0, NEW i \in 1 .. Len(new[q].ents)
        PROVE  /\ new[q].ents[i].v \in R
               /\ lv[new[q].ents[i].v] = lv[q] - 1
               /\ lo[new[q].ents[i].v] = IF i = 1 THEN lo[q] ELSE new[q].ents[i].k
               /\ hi[new[q].ents[i].v] = IF i = Len(new[q].ents) THEN hi[q] ELSE new[q].ents[i + 1].k
    <3>1. CASE q = p
      BY <1>2, <2>1, <3>1 DEF EntsOK
    <3>2. CASE q # p
      <4>1. new[q] = page[q]
        BY <1>7, <3>2
      <4>2. QED
        BY <2>1, <4>1 DEF TreeOK, Down
    <3>3. QED
      BY <3>1, <3>2
  <2>2. QED
    BY <2>1 DEF Down
<1>13. Up(new, R, lv)
  <2>1. ASSUME NEW c \in R, c # P_ROOT
        PROVE  \E q \in R : lv[q] = lv[c] + 1 /\ \E i \in 1 .. Len(new[q].ents) : new[q].ents[i].v = c
    <3>1. PICK q \in R : lv[q] = lv[c] + 1 /\ \E i \in 1 .. Len(page[q].ents) : page[q].ents[i].v = c
      BY <2>1 DEF TreeOK, Up
    <3>2. CASE q = p
      <4>1. lv[p] # 0
        BY <3>1, <3>2, InTree
      <4>2. QED
        BY <1>2, <3>1, <3>2, <4>1
    <3>3. CASE q # p
      BY <1>7, <3>1, <3>3
    <3>4. QED
      BY <3>2, <3>3
  <2>2. QED
    BY <2>1 DEF Up
<1>14. QED
  BY <1>1, <1>3, <1>4, <1>5, <1>6, <1>8, <1>9, <1>10, <1>11, <1>12, <1>13 DEF TreeOK

\* A tree whose overfull page fits again has no overfull page.
LEMMA AllFit ==
  ASSUME NEW page, NEW R, NEW lv, NEW lo, NEW hi, NEW over, TreeOK(page, R, lv, lo, hi, over),
         over \in R => Fits(Sizes(page[over].leaf, Len(page[over].ents)))
  PROVE  TreeOK(page, R, lv, lo, hi, P_INVALID)
<1>1. Fitting(page, R, P_INVALID)
  BY DEF TreeOK, Fitting
<1>2. QED
  BY <1>1 DEF TreeOK

\* A key that a leaf has no record of goes to its place.
LEMMA LeafInsert ==
  ASSUME NEW page, NEW R, NEW lv, NEW lo, NEW hi, TreeOK(page, R, lv, lo, hi, P_INVALID),
         NEW p \in R, lv[p] = 0, NEW k \in Key, NEW d \in Data, lo[p] <= k, k < hi[p],
         NEW i, IsPlace(page[p].ents, k, i), \A j \in 1 .. Len(page[p].ents) : page[p].ents[j].k # k
  PROVE  TreeOK(WithEnts(page, p, InsertAt(page[p].ents, i, [k |-> k, v |-> d])), R, lv, lo, hi, p)
<1>1. PICK ents : ents = page[p].ents
  OBVIOUS
<1>2. PICK e : e = [k |-> k, v |-> d]
  OBVIOUS
<1>3. e \in Ent /\ e.k = k /\ e.v = d
  <2>1. k \in 0 .. MaxKey
    BY Numbers
  <2>2. QED
    BY <1>2, <2>1 DEF Ent
<1>4. PICK new : new = InsertAt(ents, i, e)
  OBVIOUS
<1>5. /\ ents \in Seq(Ent) /\ Len(ents) \in Nat /\ lo[p] \in Nat /\ hi[p] \in Nat
      /\ \A j \in 1 .. Len(ents) : ents[j].k \in Nat /\ ents[j].k \in Key /\ ents[j].v \in Data
  BY <1>1, InTree
<1>6. k \in Nat /\ i \in 1 .. Len(ents) + 1
  <2>1. k \in Nat
    BY DEF Key
  <2>2. QED
    BY <1>1, <2>1 DEF IsPlace
<1>7. /\ new \in Seq(Ent) /\ Len(new) = Len(ents) + 1
      /\ \A j \in 1 .. Len(ents) + 1 : new[j] = IF j < i THEN ents[j] ELSE IF j = i THEN e ELSE ents[j - 1]
  <2>1. /\ InsertAt(ents, i, e) \in Seq(Ent) /\ Len(InsertAt(ents, i, e)) = Len(ents) + 1
        /\ \A j \in 1 .. Len(ents) + 1 :
             InsertAt(ents, i, e)[j] = IF j < i THEN ents[j] ELSE IF j = i THEN e ELSE ents[j - 1]
    BY <1>3, <1>5, <1>6, Inserted
  <2>2. QED
    BY <1>4, <2>1
<1>8. EntsOK(R, lv, lo, hi, p, ents)
  BY <1>1, EntsAre
<1>9. /\ \A j \in 1 .. Len(ents) : j < i => ents[j].k < k
      /\ \A j \in 1 .. Len(ents) : j >= i => k < ents[j].k
  <2>1. /\ \A j \in 1 .. Len(ents) : j < i => ents[j].k < k
        /\ \A j \in 1 .. Len(ents) : j >= i => k <= ents[j].k
    BY <1>1 DEF IsPlace
  <2>2. QED
    BY <1>1, <1>5, <1>6, <2>1
<1>10. ASSUME NEW x \in 1 .. Len(new), NEW y \in 1 .. Len(new), x < y PROVE new[x].k < new[y].k
  <2>1. \A a, b \in 1 .. Len(ents) : a < b => ents[a].k < ents[b].k
    BY <1>8 DEF EntsOK
  <2>2. CASE y < i
    <3>1. new[x] = ents[x] /\ new[y] = ents[y] /\ x \in 1 .. Len(ents) /\ y \in 1 .. Len(ents)
      BY <1>5, <1>6, <1>7, <1>10, <2>2
    <3>2. QED
      BY <1>10, <2>1, <3>1
  <2>3. CASE y = i
    <3>1. new[x] = ents[x] /\ new[y] = e /\ x \in 1 .. Len(ents) /\ x < i
      BY <1>5, <1>6, <1>7, <1>10, <2>3
    <3>2. QED
      BY <1>3, <1>9, <3>1
  <2>4. CASE y > i
    <3>1. new[y] = ents[y - 1] /\ y - 1 \in 1 .. Len(ents) /\ y - 1 >= i
      BY <1>5, <1>6, <1>7, <1>10, <2>4
    <3>2. CASE x < i
      <4>1. new[x] = ents[x] /\ x \in 1 .. Len(ents) /\ x < y - 1
        BY <1>5, <1>6, <1>7, <1>10, <2>4, <3>2
      <4>2. QED
        BY <2>1, <3>1, <4>1
    <3>3. CASE x = i
      <4>1. new[x] = e
        BY <1>7, <1>10, <3>3
      <4>2. QED
        BY <1>3, <1>9, <3>1, <4>1
    <3>4. CASE x > i
      <4>1. new[x] = ents[x - 1] /\ x - 1 \in 1 .. Len(ents) /\ x - 1 < y - 1
        BY <1>5, <1>6, <1>7, <1>10, <2>4, <3>4
      <4>2. QED
        BY <2>1, <3>1, <4>1
    <3>5. QED
      BY <1>6, <1>7, <3>2, <3>3, <3>4
  <2>5. QED
    BY <1>6, <1>7, <2>2, <2>3, <2>4
<1>11. ASSUME NEW x \in 1 .. Len(new)
       PROVE  /\ new[x].k \in Key /\ new[x].v \in Data /\ lo[p] <= new[x].k /\ new[x].k < hi[p]
              /\ x # 1 => lo[p] < new[x].k
  <2>1. \A a \in 1 .. Len(new) : new[a].k \in Key /\ new[a].v \in Data /\ lo[p] <= new[a].k /\ new[a].k < hi[p]
    <3>1. ASSUME NEW a \in 1 .. Len(new) PROVE new[a] = e \/ \E b \in 1 .. Len(ents) : new[a] = ents[b]
      BY <1>5, <1>6, <1>7
    <3>2. \A b \in 1 .. Len(ents) : lo[p] <= ents[b].k /\ ents[b].k < hi[p]
      BY <1>8 DEF EntsOK
    <3>3. QED
      BY <1>3, <1>5, <3>1, <3>2
  <2>2. CASE x # 1
    <3>1. 1 \in 1 .. Len(new) /\ 1 < x
      BY <1>5, <1>7, <2>2
    <3>2. new[1].k < new[x].k
      BY <1>10, <3>1
    <3>3. lo[p] <= new[1].k /\ new[1].k \in Nat /\ new[x].k \in Nat
      BY <2>1, <3>1 DEF Key
    <3>4. QED
      BY <1>5, <2>1, <3>2, <3>3
  <2>3. QED
    BY <2>1, <2>2
<1>12. EntsOK(R, lv, lo, hi, p, new)
  <2>1. Len(new) # 0
    BY <1>5, <1>7
  <2>2. QED
    BY <1>7, <1>10, <1>11, <2>1 DEF EntsOK
<1>13. TreeOK(WithEnts(page, p, new), R, lv, lo, hi, p)
  BY <1>12, EntsChange
<1>14. QED
  BY <1>1, <1>2, <1>4, <1>13

\* A record may go if another one stays.
LEMMA LeafRemove ==
  ASSUME NEW page, NEW R, NEW lv, NEW lo, NEW hi, TreeOK(page, R, lv, lo, hi, P_INVALID),
         NEW p \in R, lv[p] = 0, NEW i \in 1 .. Len(page[p].ents),
         Len(page[p].ents) # 1 \/ p = P_ROOT
  PROVE  TreeOK(WithEnts(page, p, RemoveAt(page[p].ents, i)), R, lv, lo, hi, P_INVALID)
<1>1. PICK ents : ents = page[p].ents
  OBVIOUS
<1>2. PICK new : new = RemoveAt(ents, i)
  OBVIOUS
<1>3. /\ ents \in Seq(Ent) /\ Len(ents) \in Nat /\ page[p].leaf \in BOOLEAN
      /\ \A j \in 1 .. Len(ents) : ents[j].k \in Nat /\ ents[j].k \in Key /\ ents[j].v \in Data
  BY <1>1, InTree
<1>4. /\ new \in Seq(Ent) /\ Len(new) = Len(ents) - 1
      /\ \A j \in 1 .. Len(ents) - 1 : new[j] = IF j < i THEN ents[j] ELSE ents[j + 1]
  <2>1. i \in 1 .. Len(ents)
    BY <1>1
  <2>2. /\ RemoveAt(ents, i) \in Seq(Ent) /\ Len(RemoveAt(ents, i)) = Len(ents) - 1
        /\ \A j \in 1 .. Len(ents) - 1 : RemoveAt(ents, i)[j] = IF j < i THEN ents[j] ELSE ents[j + 1]
    BY <1>3, <2>1, Removed
  <2>3. QED
    BY <1>2, <2>2
<1>5. EntsOK(R, lv, lo, hi, p, ents)
  BY <1>1, EntsAre
<1>6. i \in 1 .. Len(ents) /\ (Len(ents) # 1 \/ p = P_ROOT)
  BY <1>1
<1>7. ASSUME NEW x \in 1 .. Len(new), NEW y \in 1 .. Len(new), x < y PROVE new[x].k < new[y].k
  <2>1. \A a, b \in 1 .. Len(ents) : a < b => ents[a].k < ents[b].k
    BY <1>5 DEF EntsOK
  <2>2. PICK a \in 1 .. Len(ents), b \in 1 .. Len(ents) : new[x] = ents[a] /\ new[y] = ents[b] /\ a < b
    <3>1. CASE y < i
      <4>1. x \in 1 .. Len(ents) - 1 /\ y \in 1 .. Len(ents) - 1 /\ x < i
        BY <1>3, <1>4, <1>6, <1>7, <3>1
      <4>2. x \in 1 .. Len(ents) /\ y \in 1 .. Len(ents)
        BY <1>3, <4>1
      <4>3. new[x] = ents[x] /\ new[y] = ents[y]
        BY <1>4, <3>1, <4>1
      <4>4. QED
        BY <1>7, <4>2, <4>3
    <3>2. CASE y >= i /\ x < i
      <4>1. x \in 1 .. Len(ents) /\ y + 1 \in 1 .. Len(ents) /\ x < y + 1 /\ new[x] = ents[x] /\ new[y] = ents[y + 1]
        BY <1>3, <1>4, <1>6, <1>7, <3>2
      <4>2. QED
        BY <4>1
    <3>3. CASE x >= i
      <4>1. x + 1 \in 1 .. Len(ents) /\ y + 1 \in 1 .. Len(ents) /\ x + 1 < y + 1 /\ new[x] = ents[x + 1] /\ new[y] = ents[y + 1]
        BY <1>3, <1>4, <1>6, <1>7, <3>3
      <4>2. QED
        BY <4>1
    <3>4. QED
      BY <1>4, <1>6, <3>1, <3>2, <3>3
  <2>3. QED
    BY <2>1, <2>2
<1>8. ASSUME NEW x \in 1 .. Len(new)
      PROVE  /\ new[x].k \in Key /\ new[x].v \in Data /\ lo[p] <= new[x].k /\ new[x].k < hi[p]
             /\ x # 1 => lo[p] < new[x].k
  <2>1. PICK a \in 1 .. Len(ents) : new[x] = ents[a] /\ (x # 1 => a # 1)
    <3>1. CASE x < i
      BY <1>3, <1>4, <1>6, <3>1
    <3>2. CASE x >= i
      <4>1. x + 1 \in 1 .. Len(ents) /\ new[x] = ents[x + 1] /\ x + 1 # 1
        BY <1>3, <1>4, <1>6, <3>2
      <4>2. QED
        BY <4>1
    <3>3. QED
      BY <1>4, <1>6, <3>1, <3>2
  <2>2. QED
    BY <1>3, <1>5, <2>1 DEF EntsOK
<1>9. EntsOK(R, lv, lo, hi, p, new)
  <2>1. Len(new) # 0 \/ (p = P_ROOT /\ lv[p] = 0)
    BY <1>3, <1>4, <1>6
  <2>2. QED
    BY <1>4, <1>7, <1>8, <2>1 DEF EntsOK
<1>10. TreeOK(WithEnts(page, p, new), R, lv, lo, hi, p)
  BY <1>9, EntsChange
<1>11. Fits(Sizes(WithEnts(page, p, new)[p].leaf, Len(WithEnts(page, p, new)[p].ents)))
  <2>1. page \in [PageNo -> Page] /\ p \in PageNo
    BY DEF TreeOK, Typed
  <2>2. WithEnts(page, p, new)[p].leaf = page[p].leaf /\ WithEnts(page, p, new)[p].ents = new
    BY <2>1, WithEntsIs
  <2>3. Fits(Sizes(page[p].leaf, Len(ents)))
    <3>1. p # P_INVALID
      BY <2>1, Numbers
    <3>2. QED
      BY <1>1, <3>1 DEF TreeOK, Fitting
  <2>4. Len(new) \in 0 .. Len(ents)
    BY <1>3, <1>4, <1>6
  <2>5. Fits(Sizes(page[p].leaf, Len(new)))
    BY <1>3, <2>3, <2>4, FitsFewer
  <2>6. QED
    BY <2>2, <2>5
<1>12. QED
  BY <1>1, <1>2, <1>10, <1>11, AllFit

\* A record that is deleted and put back in its place.
LEMMA Replaced ==
  ASSUME NEW S, NEW s \in Seq(S), NEW e \in S, NEW i \in 1 .. Len(s)
  PROVE  /\ InsertAt(RemoveAt(s, i), i, e) \in Seq(S)
         /\ Len(InsertAt(RemoveAt(s, i), i, e)) = Len(s)
         /\ \A j \in 1 .. Len(s) : InsertAt(RemoveAt(s, i), i, e)[j] = IF j = i THEN e ELSE s[j]
<1>1. PICK u : u = RemoveAt(s, i)
  OBVIOUS
<1>2. Len(s) \in Nat /\ i \in Nat
  OBVIOUS
<1>3. /\ u \in Seq(S) /\ Len(u) = Len(s) - 1
      /\ \A j \in 1 .. Len(s) - 1 : u[j] = IF j < i THEN s[j] ELSE s[j + 1]
  BY <1>1, Removed
<1>4. i \in 1 .. Len(u) + 1 /\ Len(u) + 1 = Len(s)
  BY <1>2, <1>3
<1>5. PICK w : w = InsertAt(u, i, e)
  OBVIOUS
<1>6. /\ w \in Seq(S) /\ Len(w) = Len(u) + 1
      /\ \A j \in 1 .. Len(u) + 1 : w[j] = IF j < i THEN u[j] ELSE IF j = i THEN e ELSE u[j - 1]
  <2>1. /\ InsertAt(u, i, e) \in Seq(S) /\ Len(InsertAt(u, i, e)) = Len(u) + 1
        /\ \A j \in 1 .. Len(u) + 1 :
             InsertAt(u, i, e)[j] = IF j < i THEN u[j] ELSE IF j = i THEN e ELSE u[j - 1]
    BY <1>3, <1>4, Inserted
  <2>2. QED
    BY <1>5, <2>1
<1>7. ASSUME NEW j \in 1 .. Len(s) PROVE w[j] = IF j = i THEN e ELSE s[j]
  <2>1. w[j] = IF j < i THEN u[j] ELSE IF j = i THEN e ELSE u[j - 1]
    BY <1>4, <1>6
  <2>2. CASE j < i
    <3>1. j \in 1 .. Len(s) - 1
      BY <1>2, <2>2
    <3>2. QED
      BY <1>3, <2>1, <2>2, <3>1
  <2>3. CASE j > i
    <3>1. j - 1 \in 1 .. Len(s) - 1 /\ ~(j - 1 < i) /\ (j - 1) + 1 = j
      BY <1>2, <2>3
    <3>2. u[j - 1] = s[j]
      BY <1>3, <3>1
    <3>3. QED
      BY <1>2, <2>1, <2>3, <3>2
  <2>4. QED
    BY <1>2, <2>1, <2>2, <2>3
<1>8. QED
  BY <1>1, <1>4, <1>5, <1>6, <1>7

\* __bt_dleaf and the insertion of the same key after it
LEMMA LeafReplace ==
  ASSUME NEW page, NEW R, NEW lv, NEW lo, NEW hi, TreeOK(page, R, lv, lo, hi, P_INVALID),
         NEW p \in R, lv[p] = 0, NEW i \in 1 .. Len(page[p].ents), NEW d \in Data, NEW e,
         e = [k |-> page[p].ents[i].k, v |-> d]
  PROVE  TreeOK(WithEnts(page, p, InsertAt(RemoveAt(page[p].ents, i), i, e)), R, lv, lo, hi, P_INVALID)
<1>1. PICK ents : ents = page[p].ents
  OBVIOUS
<1>2. PICK new : new = InsertAt(RemoveAt(ents, i), i, e)
  OBVIOUS
<1>3. /\ ents \in Seq(Ent) /\ Len(ents) \in Nat /\ page[p].leaf \in BOOLEAN
      /\ \A j \in 1 .. Len(ents) : /\ ents[j].k \in 0 .. MaxKey
                                   /\ ents[j].k \in Key /\ ents[j].v \in Data
  BY <1>1, InTree
<1>4. i \in 1 .. Len(ents) /\ e = [k |-> ents[i].k, v |-> d]
  BY <1>1
<1>5. e \in Ent /\ e.k = ents[i].k /\ e.v \in Data
  BY <1>3, <1>4 DEF Ent
<1>6. /\ new \in Seq(Ent) /\ Len(new) = Len(ents)
      /\ \A j \in 1 .. Len(ents) : new[j] = IF j = i THEN e ELSE ents[j]
  <2>1. /\ InsertAt(RemoveAt(ents, i), i, e) \in Seq(Ent)
        /\ Len(InsertAt(RemoveAt(ents, i), i, e)) = Len(ents)
        /\ \A j \in 1 .. Len(ents) : InsertAt(RemoveAt(ents, i), i, e)[j] = IF j = i THEN e ELSE ents[j]
    BY <1>3, <1>4, <1>5, Replaced
  <2>2. QED
    BY <1>2, <2>1
<1>7. \A j \in 1 .. Len(new) : /\ new[j].k = ents[j].k /\ new[j].k \in Key /\ new[j].v \in Data
  BY <1>3, <1>4, <1>5, <1>6
<1>8. EntsOK(R, lv, lo, hi, p, ents)
  BY <1>1, EntsAre
<1>9. EntsOK(R, lv, lo, hi, p, new)
  BY <1>6, <1>7, <1>8 DEF EntsOK
<1>10. TreeOK(WithEnts(page, p, new), R, lv, lo, hi, p)
  BY <1>9, EntsChange
<1>11. Fits(Sizes(WithEnts(page, p, new)[p].leaf, Len(WithEnts(page, p, new)[p].ents)))
  <2>1. page \in [PageNo -> Page] /\ p \in PageNo
    BY DEF TreeOK, Typed
  <2>2. WithEnts(page, p, new)[p].leaf = page[p].leaf /\ WithEnts(page, p, new)[p].ents = new
    BY <2>1, WithEntsIs
  <2>3. Fits(Sizes(page[p].leaf, Len(ents)))
    <3>1. p # P_INVALID
      BY <2>1, Numbers
    <3>2. QED
      BY <1>1, <3>1 DEF TreeOK, Fitting
  <2>4. QED
    BY <1>6, <2>2, <2>3
<1>12. QED
  BY <1>1, <1>2, <1>10, <1>11, AllFit

\* What the leaves hold when the record of one key is changed on the leaf that
\* has its place.
LEMMA HeldChange ==
  ASSUME NEW page, NEW R, NEW lv, NEW lo, NEW hi, NEW over, TreeOK(page, R, lv, lo, hi, over),
         NEW cont, Held(page, R, lv, cont), cont \in [Key -> Data \cup {None}],
         NEW p \in R, lv[p] = 0, NEW k \in Key, lo[p] <= k, k < hi[p], NEW x, NEW ents,
         \A j \in 1 .. Len(ents) :
           \/ ents[j].k = k /\ ents[j].v = x
           \/ ents[j].k # k /\ \E i \in 1 .. Len(page[p].ents) : ents[j] = page[p].ents[i],
         \A i \in 1 .. Len(page[p].ents) :
           page[p].ents[i].k # k => \E j \in 1 .. Len(ents) : ents[j] = page[p].ents[i],
         x = None \/ \E j \in 1 .. Len(ents) : ents[j].k = k
  PROVE  Held(WithEnts(page, p, ents), R, lv, [cont EXCEPT ![k] = x])
<1>1. PICK new : new = WithEnts(page, p, ents)
  OBVIOUS
<1>2. page \in [PageNo -> Page] /\ R \subseteq PageNo
  BY DEF TreeOK, Typed
<1>3. new[p].ents = ents /\ \A q \in R : q # p => new[q] = page[q]
  BY <1>1, <1>2, WithEntsIs
<1>4. PICK c : c = [cont EXCEPT ![k] = x]
  OBVIOUS
<1>5. c[k] = x /\ \A y \in Key : y # k => c[y] = cont[y]
  BY <1>4
<1>6. ASSUME NEW q \in R, lv[q] = 0, NEW i \in 1 .. Len(page[q].ents)
      PROVE  /\ page[q].ents[i].k \in Key /\ cont[page[q].ents[i].k] = page[q].ents[i].v
             /\ q # p => page[q].ents[i].k # k
  <2>1. page[q].ents[i].k \in Key
    BY <1>6, InTree
  <2>2. cont[page[q].ents[i].k] = page[q].ents[i].v
    BY <1>6 DEF Held
  <2>3. ASSUME q # p PROVE page[q].ents[i].k # k
    <3>1. lo[q] <= page[q].ents[i].k /\ page[q].ents[i].k < hi[q]
      BY <1>6 DEF TreeOK, Within
    <3>2. hi[p] <= lo[q] \/ hi[q] <= lo[p]
      BY <1>6, <2>3 DEF TreeOK, Apart
    <3>3. lo[p] \in Nat /\ hi[p] \in Nat /\ lo[q] \in Nat /\ hi[q] \in Nat
      BY InTree
    <3>4. k \in Nat
      BY DEF Key
    <3>5. QED
      BY <3>1, <3>2, <3>3, <3>4
  <2>4. QED
    BY <2>1, <2>2, <2>3
<1>7. ASSUME NEW q \in R, lv[q] = 0, NEW j \in 1 .. Len(new[q].ents)
      PROVE  c[new[q].ents[j].k] = new[q].ents[j].v
  <2>1. CASE q # p
    <3>1. new[q] = page[q]
      BY <1>3, <2>1
    <3>2. QED
      BY <1>5, <1>6, <1>7, <2>1, <3>1
  <2>2. CASE q = p
    <3>1. j \in 1 .. Len(ents) /\ new[q].ents[j] = ents[j]
      BY <1>3, <1>7, <2>2
    <3>2. CASE ents[j].k = k /\ ents[j].v = x
      BY <1>5, <3>1, <3>2
    <3>3. CASE ents[j].k # k /\ \E i \in 1 .. Len(page[p].ents) : ents[j] = page[p].ents[i]
      <4>1. PICK i \in 1 .. Len(page[p].ents) : ents[j] = page[p].ents[i]
        BY <3>3
      <4>2. page[p].ents[i].k \in Key /\ cont[page[p].ents[i].k] = page[p].ents[i].v
        BY <1>6
      <4>3. QED
        BY <1>5, <3>1, <3>3, <4>1, <4>2
    <3>4. QED
      BY <3>1, <3>2, <3>3
  <2>3. QED
    BY <2>1, <2>2
<1>8. ASSUME NEW y \in Key, c[y] # None
      PROVE  \E q \in R : lv[q] = 0 /\ \E j \in 1 .. Len(new[q].ents) : new[q].ents[j].k = y
  <2>1. CASE y = k
    BY <1>3, <1>5, <1>8, <2>1
  <2>2. CASE y # k
    <3>1. cont[y] # None
      BY <1>5, <1>8, <2>2
    <3>2. PICK q \in R : lv[q] = 0 /\ \E i \in 1 .. Len(page[q].ents) : page[q].ents[i].k = y
      BY <3>1 DEF Held
    <3>3. PICK i \in 1 .. Len(page[q].ents) : page[q].ents[i].k = y
      BY <3>2
    <3>4. CASE q # p
      BY <1>3, <3>2, <3>4
    <3>5. CASE q = p
      <4>1. PICK j \in 1 .. Len(ents) : ents[j] = page[p].ents[i]
        BY <2>2, <3>3, <3>5
      <4>2. QED
        BY <1>3, <3>2, <3>3, <3>5, <4>1
    <3>6. QED
      BY <3>4, <3>5
  <2>3. QED
    BY <2>1, <2>2
<1>9. Held(new, R, lv, c)
  BY <1>7, <1>8 DEF Held
<1>10. QED
  BY <1>1, <1>4, <1>9

-----------------------------------------------------------------------------
(* The free list *)

\* A tree in the middle of an operation.
TreeM == [page : [PageNo -> Page], npages : 2 .. MaxPages, free : 0 .. MaxPages - 1,
          memory : Nat, cursor : Cursor, last : Hint]

\* FreeOK looks at the links of the free pages only.
LEMMA FreeKept ==
  ASSUME NEW page, NEW free, NEW npages, NEW R, NEW fl, NEW n,
         FreeOK(page, free, npages, R, fl, n), NEW new, NEW S,
         \A i \in 1 .. n : fl[i] \notin S,
         \A p \in S : p < npages,
         \A p \in PageNo : new[p].next < npages,
         \A i \in 1 .. n : new[fl[i]].next = page[fl[i]].next
  PROVE  FreeOK(new, free, npages, S, fl, n)
<1>1. /\ n \in Nat /\ fl \in [1 .. n -> PageNo]
      /\ \A i, j \in 1 .. n : fl[i] = fl[j] => i = j
      /\ free = IF n = 0 THEN P_INVALID ELSE fl[n]
      /\ free < npages
  BY DEF FreeOK
<1>2. \A i \in 1 .. n : page[fl[i]].next = IF i = 1 THEN P_INVALID ELSE fl[i - 1]
  BY DEF FreeOK
<1>3. \A i \in 1 .. n : new[fl[i]].next = IF i = 1 THEN P_INVALID ELSE fl[i - 1]
  BY <1>2
<1>4. QED
  BY <1>1, <1>3 DEF FreeOK

\* __bt_new: the page is outside of the tree, and not free any more.
LEMMA Take ==
  ASSUME NEW T \in TreeM, NEW R, NEW fl, NEW n, FreeOK(T.page, T.free, T.npages, R, fl, n),
         Spare(T) # P_INVALID, R \subseteq PageNo
  PROVE  /\ Taken(T) \in TreeM
         /\ Taken(T).page = T.page /\ Taken(T).cursor = T.cursor /\ Taken(T).last = T.last
         /\ Spare(T) \in PageNo /\ Spare(T) \notin R /\ Spare(T) < Taken(T).npages
         /\ T.npages <= Taken(T).npages
         /\ \E f, m : FreeOK(T.page, Taken(T).free, Taken(T).npages, R \cup {Spare(T)}, f, m)
<1>1. /\ T.page \in [PageNo -> Page] /\ T.npages \in 2 .. MaxPages /\ T.free \in 0 .. MaxPages - 1
      /\ T.memory \in Nat /\ T.cursor \in Cursor /\ T.last \in Hint
  BY DEF TreeM
<1>2. T.memory # 0
  BY DEF Spare
<1>3. T.npages \in Nat /\ MaxPages \in Nat /\ P_INVALID = 0
  BY <1>1, Numbers DEF P_INVALID
<1>4. /\ n \in Nat /\ fl \in [1 .. n -> PageNo]
      /\ \A i \in 1 .. n : fl[i] \notin R
      /\ \A i, j \in 1 .. n : fl[i] = fl[j] => i = j
      /\ T.free = IF n = 0 THEN P_INVALID ELSE fl[n]
      /\ \A i \in 1 .. n : T.page[fl[i]].next = IF i = 1 THEN P_INVALID ELSE fl[i - 1]
      /\ \A p \in R : p < T.npages
      /\ \A p \in PageNo : T.page[p].next < T.npages
      /\ T.free < T.npages
  BY DEF FreeOK
<1>5. CASE T.free # P_INVALID
  <2>1. Spare(T) = T.free /\ Taken(T) = [T EXCEPT !.memory = @ - 1, !.free = T.page[T.free].next]
    BY <1>2, <1>5 DEF Spare, Taken
  <2>2. n # 0 /\ T.free = fl[n] /\ n \in 1 .. n /\ T.free \in PageNo
    BY <1>4, <1>5
  <2>3. T.page[T.free].next \in 0 .. MaxPages - 1
    BY <1>1, <2>2, PageParts
  <2>4. /\ Taken(T) \in TreeM /\ Taken(T).page = T.page /\ Taken(T).cursor = T.cursor
        /\ Taken(T).last = T.last /\ Taken(T).npages = T.npages /\ Taken(T).free = T.page[T.free].next
    <3>1. T.memory - 1 \in Nat
      BY <1>1, <1>2
    <3>2. Taken(T) = [page |-> T.page, npages |-> T.npages, free |-> T.page[T.free].next,
                      memory |-> T.memory - 1, cursor |-> T.cursor, last |-> T.last]
      BY <2>1 DEF TreeM
    <3>3. QED
      BY <1>1, <2>3, <3>1, <3>2 DEF TreeM
  <2>5. PICK m : m = n - 1
    OBVIOUS
  <2>6. m \in Nat /\ m \in 0 .. n /\ m < n
    BY <1>4, <2>2, <2>5
  <2>7. PICK f : f = [i \in 1 .. m |-> fl[i]]
    OBVIOUS
  <2>8. f \in [1 .. m -> PageNo] /\ \A i \in 1 .. m : f[i] = fl[i] /\ i \in 1 .. n /\ i # n
    BY <1>4, <2>6, <2>7
  <2>9. \A i \in 1 .. m : f[i] \notin R \cup {Spare(T)}
    BY <1>4, <2>1, <2>2, <2>8
  <2>10. \A i, j \in 1 .. m : f[i] = f[j] => i = j
    BY <1>4, <2>8
  <2>11. \A i \in 1 .. m : T.page[f[i]].next = IF i = 1 THEN P_INVALID ELSE f[i - 1]
    <3>1. ASSUME NEW i \in 1 .. m, i # 1 PROVE f[i - 1] = fl[i - 1]
      <4>1. i - 1 \in 1 .. m
        BY <2>6, <3>1
      <4>2. QED
        BY <2>8, <4>1
    <3>2. QED
      BY <1>4, <2>8, <3>1
  <2>12. T.page[T.free].next = IF m = 0 THEN P_INVALID ELSE f[m]
    <3>1. T.page[fl[n]].next = IF n = 1 THEN P_INVALID ELSE fl[n - 1]
      BY <1>4, <2>2
    <3>2. CASE n = 1
      BY <2>2, <2>5, <3>1, <3>2
    <3>3. CASE n # 1
      <4>1. m \in 1 .. m /\ m # 0
        BY <2>2, <2>5, <2>6, <3>3
      <4>2. QED
        BY <2>2, <2>5, <2>8, <3>1, <3>3, <4>1
    <3>4. QED
      BY <3>2, <3>3
  <2>13. \A p \in R \cup {Spare(T)} : p < T.npages
    BY <1>4, <2>1
  <2>14. T.page[T.free].next < T.npages
    BY <1>4, <2>2
  <2>15. FreeOK(T.page, T.page[T.free].next, T.npages, R \cup {Spare(T)}, f, m)
    BY <1>4, <2>6, <2>8, <2>9, <2>10, <2>11, <2>12, <2>13, <2>14 DEF FreeOK
  <2>16. Spare(T) \notin R
    BY <1>4, <2>1, <2>2
  <2>17. QED
    BY <1>3, <1>4, <2>1, <2>2, <2>4, <2>15, <2>16
<1>6. CASE T.free = P_INVALID
  <2>1. T.npages < MaxPages
    BY <1>2, <1>6 DEF Spare
  <2>2. Spare(T) = T.npages /\ Taken(T) = [T EXCEPT !.memory = @ - 1, !.npages = @ + 1]
    <3>1. Spare(T) = T.npages
      BY <1>2, <1>6, <2>1 DEF Spare
    <3>2. QED
      BY <1>6, <3>1 DEF Taken
  <2>3. /\ Taken(T) \in TreeM /\ Taken(T).page = T.page /\ Taken(T).cursor = T.cursor
        /\ Taken(T).last = T.last /\ Taken(T).npages = T.npages + 1 /\ Taken(T).free = T.free
    <3>1. T.memory - 1 \in Nat /\ T.npages + 1 \in 2 .. MaxPages
      BY <1>1, <1>2, <1>3, <2>1
    <3>2. Taken(T) = [page |-> T.page, npages |-> T.npages + 1, free |-> T.free,
                      memory |-> T.memory - 1, cursor |-> T.cursor, last |-> T.last]
      BY <2>2 DEF TreeM
    <3>3. QED
      BY <1>1, <3>1, <3>2 DEF TreeM
  <2>4. n = 0
    <3>1. ASSUME n # 0 PROVE FALSE
      <4>1. n \in 1 .. n /\ T.free = fl[n]
        BY <1>4, <3>1
      <4>2. T.free \in PageNo
        BY <1>4, <4>1
      <4>3. QED
        BY <1>6, <4>2, Numbers
    <3>2. QED
      BY <3>1
  <2>5. Spare(T) \in PageNo
    BY <1>1, <1>3, <2>1, <2>2 DEF PageNo
  <2>6. Spare(T) \notin R
    BY <1>3, <1>4, <2>2
  <2>8. \A p \in PageNo : T.page[p].next \in Nat
    <3>1. ASSUME NEW p \in PageNo PROVE T.page[p].next \in 0 .. MaxPages - 1
      BY <1>1, PageParts
    <3>2. QED
      BY <3>1
  <2>9. \A p \in PageNo : T.page[p].next < T.npages + 1
    BY <1>3, <1>4, <2>8
  <2>10. QED
    <3>1. \A i \in 1 .. n : FALSE
      BY <2>4
    <3>2. 0 < T.npages + 1 /\ T.npages < T.npages + 1 /\ T.npages <= T.npages + 1
      BY <1>3
    <3>3. \A p \in R \cup {Spare(T)} : p < T.npages + 1
      <4>1. ASSUME NEW p \in R PROVE p < T.npages + 1
        <5>1. p \in Nat /\ p < T.npages
          BY <1>4, Numbers
        <5>2. QED
          BY <1>3, <5>1
      <4>2. QED
        BY <2>2, <3>2, <4>1
    <3>4. T.free < T.npages + 1 /\ T.free = IF n = 0 THEN P_INVALID ELSE fl[n]
      BY <1>3, <1>6, <2>4, <3>2
    <3>5. FreeOK(T.page, T.free, T.npages + 1, R \cup {Spare(T)}, fl, n)
      BY <1>4, <2>9, <3>1, <3>3, <3>4 DEF FreeOK
    <3>6. QED
      BY <2>2, <2>3, <2>5, <2>6, <3>2, <3>5
<1>7. QED
  BY <1>5, <1>6

\* __bt_free: the page was in the tree, and is the head of the free list now.
LEMMA FreePush ==
  ASSUME NEW page, NEW free, NEW npages, NEW R, NEW fl, NEW n,
         FreeOK(page, free, npages, R, fl, n), NEW X \in R, X \in PageNo, NEW new,
         new[X].next = free,
         \A p \in PageNo : new[p].next < npages,
         \A p \in PageNo : p \notin R => new[p].next = page[p].next
  PROVE  \E f : FreeOK(new, X, npages, R \ {X}, f, n + 1)
<1>1. /\ n \in Nat /\ fl \in [1 .. n -> PageNo]
      /\ \A i \in 1 .. n : fl[i] \notin R
      /\ \A i, j \in 1 .. n : fl[i] = fl[j] => i = j
      /\ free = IF n = 0 THEN P_INVALID ELSE fl[n]
      /\ \A i \in 1 .. n : page[fl[i]].next = IF i = 1 THEN P_INVALID ELSE fl[i - 1]
      /\ \A p \in R : p < npages
  BY DEF FreeOK
<1>2. PICK f : f = [i \in 1 .. n + 1 |-> IF i = n + 1 THEN X ELSE fl[i]]
  OBVIOUS
<1>3. \A i \in 1 .. n + 1 : i = n + 1 \/ i \in 1 .. n
  BY <1>1
<1>4. f \in [1 .. n + 1 -> PageNo] /\ f[n + 1] = X /\ \A i \in 1 .. n : f[i] = fl[i]
  BY <1>1, <1>2, <1>3
<1>5. \A i \in 1 .. n + 1 : f[i] \notin R \ {X}
  BY <1>1, <1>3, <1>4
<1>6. \A i, j \in 1 .. n + 1 : f[i] = f[j] => i = j
  BY <1>1, <1>3, <1>4
<1>7. ASSUME NEW i \in 1 .. n + 1
      PROVE  new[f[i]].next = IF i = 1 THEN P_INVALID ELSE f[i - 1]
  <2>1. CASE i = n + 1
    <3>1. CASE n = 0
      BY <1>1, <1>4, <2>1, <3>1
    <3>2. CASE n # 0
      <4>1. n \in 1 .. n /\ i # 1 /\ i - 1 = n
        BY <1>1, <2>1, <3>2
      <4>2. QED
        BY <1>1, <1>4, <2>1, <3>2, <4>1
    <3>3. QED
      BY <3>1, <3>2
  <2>2. CASE i # n + 1
    <3>1. i \in 1 .. n
      BY <1>3, <2>2
    <3>2. fl[i] \in PageNo /\ fl[i] \notin R
      BY <1>1, <3>1
    <3>3. new[f[i]].next = page[fl[i]].next
      BY <1>4, <3>1, <3>2
    <3>4. CASE i = 1
      BY <1>1, <3>1, <3>3, <3>4
    <3>5. CASE i # 1
      <4>1. i - 1 \in 1 .. n
        BY <1>1, <3>1, <3>5
      <4>2. QED
        BY <1>1, <1>4, <3>1, <3>3, <3>5, <4>1
    <3>6. QED
      BY <3>4, <3>5
  <2>3. QED
    BY <2>1, <2>2
<1>8. n + 1 \in Nat /\ n + 1 # 0
  BY <1>1
<1>9. FreeOK(new, X, npages, R \ {X}, f, n + 1)
  BY <1>1, <1>4, <1>5, <1>6, <1>7, <1>8 DEF FreeOK
<1>10. QED
  BY <1>9

-----------------------------------------------------------------------------
(* Intervals of pages and of their children *)

\* A child lies inside its parent, before the children that follow it.
LEMMA ChildWithin ==
  ASSUME NEW page, NEW R, NEW lv, NEW lo, NEW hi, NEW over, TreeOK(page, R, lv, lo, hi, over),
         NEW p \in R, lv[p] # 0, NEW i \in 1 .. Len(page[p].ents)
  PROVE  /\ page[p].ents[i].v \in R /\ page[p].ents[i].v # P_ROOT
         /\ lv[page[p].ents[i].v] = lv[p] - 1
         /\ lo[p] <= lo[page[p].ents[i].v] /\ hi[page[p].ents[i].v] <= hi[p]
         /\ \A j \in 1 .. Len(page[p].ents) : i < j => hi[page[p].ents[i].v] <= lo[page[p].ents[j].v]
<1>1. PICK ents : ents = page[p].ents
  OBVIOUS
<1>2. /\ Len(ents) \in Nat /\ lo[p] \in Nat /\ hi[p] \in Nat /\ lv[p] \in Nat /\ lv[p] <= lv[P_ROOT]
      /\ lv[P_ROOT] \in Nat
      /\ \A j \in 1 .. Len(ents) : ents[j].k \in Nat
  <2>1. P_ROOT \in R
    BY DEF TreeOK, Typed
  <2>2. QED
    BY <1>1, <2>1, InTree
<1>3. \A j \in 1 .. Len(ents) :
        /\ ents[j].v \in R
        /\ lv[ents[j].v] = lv[p] - 1
        /\ lo[ents[j].v] = IF j = 1 THEN lo[p] ELSE ents[j].k
        /\ hi[ents[j].v] = IF j = Len(ents) THEN hi[p] ELSE ents[j + 1].k
  BY <1>1 DEF TreeOK, Down
<1>4. \A j \in 1 .. Len(ents) : j # 1 => lo[p] < ents[j].k /\ ents[j].k < hi[p]
  BY <1>1 DEF TreeOK, Within
<1>5. \A j, k \in 1 .. Len(ents) : j < k /\ j # 1 => ents[j].k < ents[k].k
  BY <1>1 DEF TreeOK, Ordered
<1>6. i \in 1 .. Len(ents)
  BY <1>1
<1>7. ents[i].v # P_ROOT
  BY <1>2, <1>3, <1>6
<1>8. lo[p] <= lo[ents[i].v]
  <2>1. CASE i = 1
    BY <1>2, <1>3, <1>6, <2>1
  <2>2. CASE i # 1
    BY <1>2, <1>3, <1>4, <1>6, <2>2
  <2>3. QED
    BY <2>1, <2>2
<1>9. hi[ents[i].v] <= hi[p]
  <2>1. CASE i = Len(ents)
    BY <1>2, <1>3, <1>6, <2>1
  <2>2. CASE i # Len(ents)
    <3>1. i + 1 \in 1 .. Len(ents) /\ i + 1 # 1
      BY <1>2, <1>6, <2>2
    <3>2. QED
      BY <1>2, <1>3, <1>4, <1>6, <2>2, <3>1
  <2>3. QED
    BY <2>1, <2>2
<1>10. ASSUME NEW j \in 1 .. Len(ents), i < j PROVE hi[ents[i].v] <= lo[ents[j].v]
  <2>1. i + 1 \in 1 .. Len(ents) /\ i + 1 # 1 /\ i # Len(ents) /\ j # 1 /\ i + 1 <= j
    BY <1>2, <1>6, <1>10
  <2>2. hi[ents[i].v] = ents[i + 1].k /\ lo[ents[j].v] = ents[j].k
    BY <1>3, <1>6, <2>1
  <2>3. CASE i + 1 = j
    BY <1>2, <2>1, <2>2, <2>3
  <2>4. CASE i + 1 # j
    <3>1. i + 1 < j
      BY <1>6, <2>1, <2>4
    <3>2. ents[i + 1].k < ents[j].k
      BY <1>5, <2>1, <3>1
    <3>3. QED
      BY <1>2, <2>1, <2>2, <3>2
  <2>5. QED
    BY <2>3, <2>4
<1>11. QED
  BY <1>1, <1>3, <1>6, <1>7, <1>8, <1>9, <1>10

\* A page is named once.
LEMMA OneParent ==
  ASSUME NEW page, NEW R, NEW lv, NEW lo, NEW hi, NEW over, TreeOK(page, R, lv, lo, hi, over),
         NEW p \in R, lv[p] # 0, NEW i \in 1 .. Len(page[p].ents),
         NEW q \in R, lv[q] # 0, NEW j \in 1 .. Len(page[q].ents),
         page[p].ents[i].v = page[q].ents[j].v
  PROVE  p = q /\ i = j
<1>1. PICK c : c = page[p].ents[i].v
  OBVIOUS
<1>2. c \in R /\ lv[c] = lv[p] - 1 /\ lo[p] <= lo[c] /\ hi[c] <= hi[p]
  BY <1>1, ChildWithin
<1>3. c \in R /\ lv[c] = lv[q] - 1 /\ lo[q] <= lo[c] /\ hi[c] <= hi[q]
  <2>1. c = page[q].ents[j].v
    BY <1>1
  <2>2. QED
    BY <2>1, ChildWithin
<1>4. /\ lv[p] \in Nat /\ lo[p] \in Nat /\ hi[p] \in Nat
      /\ lv[q] \in Nat /\ lo[q] \in Nat /\ hi[q] \in Nat
      /\ lo[c] \in Nat /\ hi[c] \in Nat /\ lo[c] < hi[c]
      /\ Len(page[p].ents) \in Nat
  BY <1>2, InTree
<1>5. p = q
  <2>1. ASSUME p # q PROVE FALSE
    <3>1. lv[p] = lv[q]
      BY <1>2, <1>3, <1>4
    <3>2. hi[p] <= lo[q] \/ hi[q] <= lo[p]
      BY <2>1, <3>1 DEF TreeOK, Apart
    <3>3. QED
      BY <1>2, <1>3, <1>4, <3>2
  <2>2. QED
    BY <2>1
<1>6. i = j
  <2>1. ASSUME NEW a \in 1 .. Len(page[p].ents), NEW b \in 1 .. Len(page[p].ents), a < b,
               page[p].ents[a].v = c, page[p].ents[b].v = c
        PROVE  FALSE
    <3>1. hi[c] <= lo[c]
      BY <2>1, ChildWithin
    <3>2. QED
      BY <1>4, <3>1
  <2>2. i \in Nat /\ j \in Nat /\ j \in 1 .. Len(page[p].ents) /\ page[p].ents[j].v = c
    BY <1>1, <1>4, <1>5
  <2>3. ~(i < j) /\ ~(j < i)
    BY <1>1, <2>1, <2>2
  <2>4. QED
    BY <2>2, <2>3
<1>7. QED
  BY <1>5, <1>6

\* No page has keys above the last.
LEMMA Bounded ==
  ASSUME NEW page, NEW R, NEW lv, NEW lo, NEW hi, NEW over, TreeOK(page, R, lv, lo, hi, over)
  PROVE  \A p \in R : hi[p] <= MaxKey + 1
<1> DEFINE S == {m \in Nat : \A p \in R : lv[P_ROOT] - lv[p] = m => hi[p] <= MaxKey + 1}
<1>1. P_ROOT \in R /\ hi[P_ROOT] = MaxKey + 1 /\ lv[P_ROOT] \in Nat
  <2>1. P_ROOT \in R /\ hi[P_ROOT] = MaxKey + 1
    BY DEF TreeOK, Typed, Spans
  <2>2. QED
    BY <2>1, InTree
<1>2. \A p \in R : lv[p] \in Nat /\ hi[p] \in Nat /\ (p # P_ROOT => lv[p] < lv[P_ROOT])
  <2>1. \A p \in R : p # P_ROOT => lv[p] < lv[P_ROOT]
    BY DEF TreeOK, Spans
  <2>2. QED
    BY <2>1, InTree
<1>3. 0 \in S
  <2>1. ASSUME NEW p \in R, lv[P_ROOT] - lv[p] = 0 PROVE hi[p] <= MaxKey + 1
    <3>1. p = P_ROOT
      BY <1>1, <1>2, <2>1
    <3>2. QED
      BY <1>1, <3>1, Numbers
  <2>2. QED
    BY <2>1
<1>4. ASSUME NEW m \in 0 .. lv[P_ROOT], m # lv[P_ROOT], m \in S PROVE m + 1 \in S
  <2>1. ASSUME NEW c \in R, lv[P_ROOT] - lv[c] = m + 1 PROVE hi[c] <= MaxKey + 1
    <3>1. c # P_ROOT
      BY <1>1, <1>4, <2>1
    <3>2. PICK p \in R : lv[p] = lv[c] + 1 /\ \E i \in 1 .. Len(page[p].ents) : page[p].ents[i].v = c
      BY <3>1 DEF TreeOK, Up
    <3>3. lv[p] # 0 /\ lv[P_ROOT] - lv[p] = m
      BY <1>1, <1>2, <1>4, <2>1, <3>2
    <3>4. hi[c] <= hi[p]
      BY <3>2, <3>3, ChildWithin
    <3>5. hi[p] <= MaxKey + 1
      BY <1>4, <3>3
    <3>6. QED
      BY <1>2, <3>4, <3>5, Numbers
  <2>2. m + 1 \in Nat
    BY <1>4
  <2>3. QED
    BY <2>1, <2>2
<1>5. ASSUME NEW p \in R PROVE hi[p] <= MaxKey + 1
  <2>1. lv[P_ROOT] - lv[p] \in 0 .. lv[P_ROOT]
    BY <1>1, <1>2
  <2>2. lv[P_ROOT] - lv[p] \in S
    <3> HIDE DEF S
    <3>1. \A m \in 0 .. lv[P_ROOT] : m \in S
      BY <1>1, <1>3, <1>4, Counting
    <3>2. QED
      BY <2>1, <3>1
  <2>3. QED
    BY <2>2
<1>6. QED
  BY <1>5

-----------------------------------------------------------------------------
(* Splitting a page.  V is a tree whose page p is too full: the records up to *)
(* the cut stay, the others go to page r, whose key in the parent q is x.     *)

SplitAt(V, R, lv, lo, hi, p, r, cut, q, i, x) ==
  /\ TreeOK(V, R, lv, lo, hi, p)
  /\ p \in R /\ p # P_ROOT /\ r \in PageNo /\ r \notin R
  /\ cut \in Nat /\ cut # 0 /\ cut < Len(V[p].ents)
  /\ q \in R /\ lv[q] # 0 /\ i \in 1 .. Len(V[q].ents) /\ V[q].ents[i].v = p
  /\ x \in Nat
  /\ IF lv[p] = 0 THEN V[p].ents[cut].k < x /\ x <= V[p].ents[cut + 1].k ELSE x = V[p].ents[cut + 1].k
  /\ Fits(Sizes(V[p].leaf, cut)) /\ Fits(Sizes(V[p].leaf, Len(V[p].ents) - cut))

SplitPages(V, p, r, cut, q, i, x) ==
  [y \in PageNo |->
     IF y = p THEN Sibling(V[p], V[p].prev, r, SubSeq(V[p].ents, 1, cut))
     ELSE IF y = r THEN Sibling(V[p], p, V[p].next, SubSeq(V[p].ents, cut + 1, Len(V[p].ents)))
     ELSE IF y = q THEN Sibling(V[q], V[q].prev, V[q].next, InsertAt(V[q].ents, i + 1, [k |-> x, v |-> r]))
     ELSE IF y = V[p].next THEN Sibling(V[y], r, V[y].next, V[y].ents)
     ELSE V[y]]

\* The pages and the key at a split.
LEMMA SplitKey ==
  ASSUME NEW V, NEW R, NEW lv, NEW lo, NEW hi, NEW p, NEW r, NEW cut, NEW q, NEW i, NEW x,
         SplitAt(V, R, lv, lo, hi, p, r, cut, q, i, x)
  PROVE  /\ V \in [PageNo -> Page] /\ R \subseteq PageNo /\ p # q /\ r # p /\ r # q
         /\ lv[q] = lv[p] + 1 /\ lo[q] <= lo[p] /\ hi[p] <= hi[q]
         /\ lo[p] < x /\ x < hi[p] /\ x \in 0 .. MaxKey
         /\ V[p].next # q /\ V[p].next # p /\ V[p].next # r
<1>1. TreeOK(V, R, lv, lo, hi, p) /\ p \in R /\ q \in R /\ lv[q] # 0 /\ i \in 1 .. Len(V[q].ents)
      /\ V[q].ents[i].v = p /\ p # P_ROOT /\ r \in PageNo /\ r \notin R /\ x \in Nat
  BY DEF SplitAt
<1>2. V \in [PageNo -> Page] /\ R \subseteq PageNo
  BY <1>1 DEF TreeOK, Typed
<1>3. lv[p] = lv[q] - 1 /\ lo[q] <= lo[p] /\ hi[p] <= hi[q]
  BY <1>1, ChildWithin
<1>4. /\ lv[p] \in Nat /\ lo[p] \in Nat /\ hi[p] \in Nat /\ lo[p] < hi[p] /\ lv[q] \in Nat
      /\ Len(V[p].ents) \in Nat
      /\ \A j \in 1 .. Len(V[p].ents) : V[p].ents[j].k \in Nat
  BY <1>1, InTree
<1>5. cut \in 1 .. Len(V[p].ents) /\ cut + 1 \in 1 .. Len(V[p].ents) /\ cut + 1 # 1 /\ cut < cut + 1
  <2>1. cut \in Nat /\ cut # 0 /\ cut < Len(V[p].ents)
    BY DEF SplitAt
  <2>2. QED
    BY <1>4, <2>1
<1>6. /\ lo[p] < V[p].ents[cut + 1].k /\ V[p].ents[cut + 1].k < hi[p]
      /\ lv[p] = 0 => lo[p] <= V[p].ents[cut].k
  BY <1>1, <1>5 DEF TreeOK, Within
<1>7. lo[p] < x /\ x < hi[p]
  <2>1. IF lv[p] = 0 THEN V[p].ents[cut].k < x /\ x <= V[p].ents[cut + 1].k ELSE x = V[p].ents[cut + 1].k
    BY DEF SplitAt
  <2>2. V[p].ents[cut].k \in Nat /\ V[p].ents[cut + 1].k \in Nat
    BY <1>4, <1>5
  <2>3. CASE lv[p] = 0
    <3>1. lo[p] <= V[p].ents[cut].k /\ V[p].ents[cut].k < x /\ x <= V[p].ents[cut + 1].k
      BY <1>6, <2>1, <2>3
    <3>2. lo[p] < x
      BY <1>1, <1>4, <2>2, <3>1
    <3>3. x < hi[p]
      BY <1>1, <1>4, <1>6, <2>2, <3>1
    <3>4. QED
      BY <3>2, <3>3
  <2>4. CASE lv[p] # 0
    BY <1>6, <2>1, <2>4
  <2>5. QED
    BY <2>3, <2>4
<1>8. hi[p] <= MaxKey + 1
  BY <1>1, Bounded
<1>9. x \in 0 .. MaxKey
  BY <1>1, <1>4, <1>7, <1>8, Numbers
<1>10. V[p].next = P_INVALID \/ (V[p].next \in R /\ lv[V[p].next] = lv[p] /\ lo[V[p].next] = hi[p])
  BY <1>1 DEF TreeOK, Linked
<1>11. V[p].next # q /\ V[p].next # p /\ V[p].next # r
  <2>1. P_INVALID \notin R /\ P_INVALID # r
    BY <1>1, <1>2, Numbers
  <2>2. QED
    BY <1>1, <1>3, <1>4, <1>10, <2>1
<1>12. lv[q] = lv[p] + 1
  BY <1>3, <1>4
<1>13. p # q
  BY <1>3, <1>4
<1>14. QED
  BY <1>1, <1>2, <1>3, <1>7, <1>9, <1>11, <1>12, <1>13

\* What SplitPages makes of each page.
IsSplit(V, new, p, r, cut, q, i, x) ==
  /\ new \in [PageNo -> Page]
  /\ new[p].leaf = V[p].leaf /\ new[p].prev = V[p].prev /\ new[p].next = r
  /\ new[p].ents \in Seq(Ent) /\ Len(new[p].ents) = cut /\ \A j \in 1 .. cut : new[p].ents[j] = V[p].ents[j]
  /\ new[r].leaf = V[p].leaf /\ new[r].prev = p /\ new[r].next = V[p].next
  /\ new[r].ents \in Seq(Ent) /\ Len(new[r].ents) = Len(V[p].ents) - cut
  /\ \A j \in 1 .. Len(V[p].ents) - cut : new[r].ents[j] = V[p].ents[cut + j]
  /\ new[q].leaf = V[q].leaf /\ new[q].prev = V[q].prev /\ new[q].next = V[q].next
  /\ new[q].ents \in Seq(Ent) /\ Len(new[q].ents) = Len(V[q].ents) + 1
  /\ \A j \in 1 .. Len(V[q].ents) + 1 :
       new[q].ents[j] = IF j < i + 1 THEN V[q].ents[j]
                        ELSE IF j = i + 1 THEN [k |-> x, v |-> r] ELSE V[q].ents[j - 1]
  /\ \A y \in PageNo : y \notin {p, r, q} =>
       /\ new[y].leaf = V[y].leaf /\ new[y].next = V[y].next /\ new[y].ents = V[y].ents
       /\ new[y].prev = IF y = V[p].next THEN r ELSE V[y].prev

\* What bt_psplit and the insertion into the parent leave on each page.
LEMMA SplitPagesAre ==
  ASSUME NEW V, NEW R, NEW lv, NEW lo, NEW hi, NEW p, NEW r, NEW cut, NEW q, NEW i, NEW x,
         SplitAt(V, R, lv, lo, hi, p, r, cut, q, i, x), NEW new, new = SplitPages(V, p, r, cut, q, i, x)
  PROVE  IsSplit(V, new, p, r, cut, q, i, x)
<1>1. /\ V \in [PageNo -> Page] /\ R \subseteq PageNo /\ p # q /\ r # p /\ r # q
      /\ lv[q] = lv[p] + 1 /\ x \in 0 .. MaxKey
  BY SplitKey
<1>2. TreeOK(V, R, lv, lo, hi, p) /\ p \in R /\ q \in R /\ lv[q] # 0 /\ i \in 1 .. Len(V[q].ents)
      /\ r \in PageNo /\ cut \in Nat /\ cut # 0 /\ cut < Len(V[p].ents)
  BY DEF SplitAt
<1>3. /\ V[p].leaf \in BOOLEAN /\ V[p].ents \in Seq(Ent) /\ Len(V[p].ents) \in Nat
      /\ V[q].ents \in Seq(Ent) /\ Len(V[q].ents) \in Nat /\ ~V[q].leaf
  BY <1>2, InTree
<1>4. PICK a : a = SubSeq(V[p].ents, 1, cut)
  OBVIOUS
<1>5. PICK b : b = SubSeq(V[p].ents, cut + 1, Len(V[p].ents))
  OBVIOUS
<1>6. PICK e : e = [k |-> x, v |-> r]
  OBVIOUS
<1>7. PICK c : c = InsertAt(V[q].ents, i + 1, e)
  OBVIOUS
<1>8. a \in Seq(Ent) /\ Len(a) = cut /\ \A j \in 1 .. cut : a[j] = V[p].ents[j]
  <2>1. 1 \in 1 .. Len(V[p].ents) + 1 /\ cut \in 0 .. Len(V[p].ents) /\ 1 <= cut + 1 /\ cut + 1 - 1 = cut
    BY <1>2, <1>3
  <2>2. /\ SubSeq(V[p].ents, 1, cut) \in Seq(Ent) /\ Len(SubSeq(V[p].ents, 1, cut)) = cut + 1 - 1
        /\ \A j \in 1 .. cut + 1 - 1 : SubSeq(V[p].ents, 1, cut)[j] = V[p].ents[1 + j - 1]
    BY <1>3, <2>1, Part
  <2>3. \A j \in 1 .. cut : 1 + j - 1 = j
    BY <1>2
  <2>4. QED
    BY <1>4, <2>1, <2>2, <2>3
<1>9. /\ b \in Seq(Ent) /\ Len(b) = Len(V[p].ents) - cut
      /\ \A j \in 1 .. Len(V[p].ents) - cut : b[j] = V[p].ents[cut + j]
  <2>1. PICK s : s = V[p].ents
    OBVIOUS
  <2>2. PICK n : n = Len(s)
    OBVIOUS
  <2>3. s \in Seq(Ent) /\ n \in Nat /\ cut \in Nat /\ cut < n
    BY <1>2, <1>3, <2>1, <2>2
  <2>4. cut + 1 \in 1 .. n + 1 /\ n \in 0 .. n /\ cut + 1 <= n + 1 /\ n + 1 - (cut + 1) = n - cut
    BY <2>3
  <2>5. PICK m : m = cut + 1
    OBVIOUS
  <2>6. m \in 1 .. Len(s) + 1 /\ n \in 0 .. Len(s) /\ m <= n + 1
    BY <2>2, <2>4, <2>5
  <2>7. /\ SubSeq(s, m, n) \in Seq(Ent) /\ Len(SubSeq(s, m, n)) = n + 1 - m
        /\ \A j \in 1 .. n + 1 - m : SubSeq(s, m, n)[j] = s[m + j - 1]
    BY <2>3, <2>6, Part
  <2>8. \A j \in 1 .. n - cut : m + j - 1 = cut + j
    BY <2>3, <2>5
  <2>9. QED
    BY <1>5, <2>1, <2>2, <2>4, <2>5, <2>7, <2>8
<1>10. /\ c \in Seq(Ent) /\ Len(c) = Len(V[q].ents) + 1
       /\ \A j \in 1 .. Len(V[q].ents) + 1 :
            c[j] = IF j < i + 1 THEN V[q].ents[j] ELSE IF j = i + 1 THEN e ELSE V[q].ents[j - 1]
  <2>1. e \in Ent
    BY <1>1, <1>2, <1>6 DEF Ent
  <2>2. i + 1 \in 1 .. Len(V[q].ents) + 1
    BY <1>2, <1>3
  <2>3. PICK s : s = V[q].ents
    OBVIOUS
  <2>4. s \in Seq(Ent) /\ i + 1 \in 1 .. Len(s) + 1
    BY <1>3, <2>2, <2>3
  <2>5. PICK m : m = i + 1
    OBVIOUS
  <2>6. s \in Seq(Ent) /\ e \in Ent /\ m \in 1 .. Len(s) + 1
    BY <2>1, <2>4, <2>5
  <2>7. /\ InsertAt(s, m, e) \in Seq(Ent) /\ Len(InsertAt(s, m, e)) = Len(s) + 1
        /\ \A j \in 1 .. Len(s) + 1 :
             InsertAt(s, m, e)[j] = IF j < m THEN s[j] ELSE IF j = m THEN e ELSE s[j - 1]
    BY ONLY <2>6, Inserted, SMT
  <2>8. c = InsertAt(s, m, e)
    BY <1>7, <2>3, <2>5
  <2>9. QED
    BY <2>3, <2>5, <2>7, <2>8
<1>11. p \in PageNo /\ q \in PageNo
  BY <1>1, <1>2
<1>12. /\ new = [y \in PageNo |-> new[y]]
       /\ new[p] = [leaf |-> V[p].leaf, prev |-> V[p].prev, next |-> r, ents |-> a]
       /\ new[r] = [leaf |-> V[p].leaf, prev |-> p, next |-> V[p].next, ents |-> b]
       /\ new[q] = [leaf |-> V[q].leaf, prev |-> V[q].prev, next |-> V[q].next, ents |-> c]
       /\ \A y \in PageNo : y \notin {p, r, q} =>
            new[y] = IF y = V[p].next
                     THEN [leaf |-> V[y].leaf, prev |-> r, next |-> V[y].next, ents |-> V[y].ents]
                     ELSE V[y]
  BY <1>1, <1>2, <1>4, <1>5, <1>6, <1>7, <1>11 DEF SplitPages, Sibling
<1>13. ASSUME NEW y \in PageNo PROVE new[y] \in Page
  <2>1. /\ r \in 0 .. MaxPages - 1 /\ p \in 0 .. MaxPages - 1
        /\ \A z \in PageNo : V[z].prev \in 0 .. MaxPages - 1 /\ V[z].next \in 0 .. MaxPages - 1
    <3>1. r \in 0 .. MaxPages - 1 /\ p \in 0 .. MaxPages - 1
      BY <1>2, <1>11, Numbers
    <3>2. QED
      BY <1>1, <3>1, PageParts
  <2>2. \A j \in 1 .. Len(V[p].ents) : IF V[p].leaf THEN V[p].ents[j].k \in Key /\ V[p].ents[j].v \in Data
                                       ELSE V[p].ents[j].v \in PageNo
    BY <1>1, <1>11, PageParts
  <2>3. CASE y = p
    <3>1. \A j \in 1 .. Len(a) : IF V[p].leaf THEN a[j].k \in Key /\ a[j].v \in Data ELSE a[j].v \in PageNo
      <4>1. \A j \in 1 .. cut : j \in 1 .. Len(V[p].ents)
        BY <1>2, <1>3
      <4>2. QED
        BY <1>8, <2>2, <4>1
    <3>2. V[p].prev \in 0 .. MaxPages - 1
      BY <1>11, <2>1
    <3>3. [leaf |-> V[p].leaf, prev |-> V[p].prev, next |-> r, ents |-> a] \in Page
      BY <1>3, <1>8, <2>1, <3>1, <3>2, PageMade
    <3>4. QED
      BY <1>12, <2>3, <3>3
  <2>4. CASE y = r
    <3>1. \A j \in 1 .. Len(b) : IF V[p].leaf THEN b[j].k \in Key /\ b[j].v \in Data ELSE b[j].v \in PageNo
      <4>1. \A j \in 1 .. Len(V[p].ents) - cut : cut + j \in 1 .. Len(V[p].ents)
        BY <1>2, <1>3
      <4>2. QED
        BY <1>9, <2>2, <4>1
    <3>2. V[p].next \in 0 .. MaxPages - 1
      BY <1>11, <2>1
    <3>3. [leaf |-> V[p].leaf, prev |-> p, next |-> V[p].next, ents |-> b] \in Page
      BY <1>3, <1>9, <2>1, <3>1, <3>2, PageMade
    <3>4. QED
      BY <1>12, <2>4, <3>3
  <2>5. CASE y = q
    <3>1. \A j \in 1 .. Len(V[q].ents) : V[q].ents[j].v \in PageNo
      BY <1>1, <1>3, <1>11, PageParts
    <3>2. e.v = r
      BY <1>6
    <3>3. ASSUME NEW j \in 1 .. Len(c) PROVE c[j] = e \/ \E m \in 1 .. Len(V[q].ents) : c[j] = V[q].ents[m]
      BY <1>2, <1>3, <1>10
    <3>4. \A j \in 1 .. Len(c) : IF V[q].leaf THEN c[j].k \in Key /\ c[j].v \in Data ELSE c[j].v \in PageNo
      BY <1>2, <1>3, <3>1, <3>2, <3>3
    <3>5. V[q].prev \in 0 .. MaxPages - 1 /\ V[q].next \in 0 .. MaxPages - 1 /\ V[q].leaf \in BOOLEAN
      BY <1>1, <1>11, <2>1, PageParts
    <3>6. [leaf |-> V[q].leaf, prev |-> V[q].prev, next |-> V[q].next, ents |-> c] \in Page
      BY <1>10, <3>4, <3>5, PageMade
    <3>7. QED
      BY <1>12, <2>5, <3>6
  <2>6. CASE y \notin {p, r, q}
    <3>1. V[y] \in Page
      BY <1>1
    <3>2. /\ V[y].leaf \in BOOLEAN /\ V[y].ents \in Seq(Ent)
          /\ \A j \in 1 .. Len(V[y].ents) :
               IF V[y].leaf THEN V[y].ents[j].k \in Key /\ V[y].ents[j].v \in Data ELSE V[y].ents[j].v \in PageNo
      BY <3>1, PageParts
    <3>3. [leaf |-> V[y].leaf, prev |-> r, next |-> V[y].next, ents |-> V[y].ents] \in Page
      BY <2>1, <3>2, PageMade
    <3>4. QED
      BY <1>12, <2>6, <3>1, <3>3
  <2>7. QED
    BY <2>3, <2>4, <2>5, <2>6
<1>14. new \in [PageNo -> Page]
  BY <1>12, <1>13
<1>15. /\ new[p].leaf = V[p].leaf /\ new[p].prev = V[p].prev /\ new[p].next = r /\ new[p].ents = a
       /\ new[r].leaf = V[p].leaf /\ new[r].prev = p /\ new[r].next = V[p].next /\ new[r].ents = b
       /\ new[q].leaf = V[q].leaf /\ new[q].prev = V[q].prev /\ new[q].next = V[q].next /\ new[q].ents = c
  BY <1>12
<1>16. ASSUME NEW y \in PageNo, y \notin {p, r, q}
       PROVE  /\ new[y].leaf = V[y].leaf /\ new[y].next = V[y].next /\ new[y].ents = V[y].ents
              /\ new[y].prev = IF y = V[p].next THEN r ELSE V[y].prev
  <2>1. CASE y = V[p].next
    <3>1. new[y] = [leaf |-> V[y].leaf, prev |-> r, next |-> V[y].next, ents |-> V[y].ents]
      BY <1>12, <1>16, <2>1
    <3>2. QED
      BY <2>1, <3>1
  <2>2. CASE y # V[p].next
    <3>1. new[y] = V[y]
      BY <1>12, <1>16, <2>2
    <3>2. QED
      BY <2>2, <3>1
  <2>3. QED
    BY <2>1, <2>2
<1>17. QED
  BY <1>6, <1>8, <1>9, <1>10, <1>14, <1>15, <1>16 DEF IsSplit

\* The tree after the split: the parent may be too full now.
LEMMA SplitTree ==
  ASSUME NEW V, NEW R, NEW lv, NEW lo, NEW hi, NEW p, NEW r, NEW cut, NEW q, NEW i, NEW x,
         SplitAt(V, R, lv, lo, hi, p, r, cut, q, i, x)
  PROVE  TreeOK(SplitPages(V, p, r, cut, q, i, x), R \cup {r}, [lv EXCEPT ![r] = lv[p]],
                [lo EXCEPT ![r] = x], [hi EXCEPT ![r] = hi[p], ![p] = x], q)
<1>1. PICK new : new = SplitPages(V, p, r, cut, q, i, x)
  OBVIOUS
<1>2. PICK S : S = R \cup {r}
  OBVIOUS
<1>3. PICK lv2 : lv2 = [lv EXCEPT ![r] = lv[p]]
  OBVIOUS
<1>4. PICK lo2 : lo2 = [lo EXCEPT ![r] = x]
  OBVIOUS
<1>5. PICK hi2 : hi2 = [hi EXCEPT ![r] = hi[p], ![p] = x]
  OBVIOUS
<1>6. TreeOK(V, R, lv, lo, hi, p) /\ p \in R /\ q \in R /\ lv[q] # 0 /\ i \in 1 .. Len(V[q].ents)
      /\ V[q].ents[i].v = p /\ p # P_ROOT /\ r \in PageNo /\ r \notin R /\ x \in Nat
      /\ cut \in Nat /\ cut # 0 /\ cut < Len(V[p].ents)
  BY DEF SplitAt
<1>7. /\ V \in [PageNo -> Page] /\ R \subseteq PageNo /\ p # q /\ r # p /\ r # q
      /\ lv[q] = lv[p] + 1 /\ lo[q] <= lo[p] /\ hi[p] <= hi[q]
      /\ lo[p] < x /\ x < hi[p] /\ x \in 0 .. MaxKey
      /\ V[p].next # q /\ V[p].next # p /\ V[p].next # r
  BY SplitKey
<1>8. /\ P_ROOT \in R /\ lv \in [PageNo -> Nat] /\ lo \in [PageNo -> Nat] /\ hi \in [PageNo -> Nat]
  BY <1>6 DEF TreeOK, Typed
<1>9. \A y \in R : y \in PageNo /\ lv[y] \in Nat /\ lo[y] \in Nat /\ hi[y] \in Nat /\ lo[y] < hi[y]
  BY <1>6, InTree
<1>10. /\ lv2 \in [PageNo -> Nat] /\ lo2 \in [PageNo -> Nat] /\ hi2 \in [PageNo -> Nat]
       /\ lv2[r] = lv[p] /\ \A y \in R : lv2[y] = lv[y]
       /\ lo2[r] = x /\ \A y \in R : lo2[y] = lo[y]
       /\ hi2[r] = hi[p] /\ hi2[p] = x /\ \A y \in R : y # p => hi2[y] = hi[y]
  <2>1. p \in PageNo /\ lv[p] \in Nat /\ hi[p] \in Nat
    BY <1>6, <1>9
  <2>2. QED
    BY <1>3, <1>4, <1>5, <1>6, <1>7, <1>8, <1>9, <2>1
<1>11. \A y \in S : y = r \/ y \in R
  BY <1>2
<1>0. IsSplit(V, new, p, r, cut, q, i, x)
  BY <1>1, SplitPagesAre
<1>12. /\ new \in [PageNo -> Page]
       /\ new[p].leaf = V[p].leaf /\ new[p].prev = V[p].prev /\ new[p].next = r
       /\ Len(new[p].ents) = cut /\ \A j \in 1 .. cut : new[p].ents[j] = V[p].ents[j]
  BY <1>0 DEF IsSplit
<1>13. /\ new[r].leaf = V[p].leaf /\ new[r].prev = p /\ new[r].next = V[p].next
       /\ Len(new[r].ents) = Len(V[p].ents) - cut
       /\ \A j \in 1 .. Len(V[p].ents) - cut : new[r].ents[j] = V[p].ents[cut + j]
  BY <1>0 DEF IsSplit
<1>14. /\ new[q].leaf = V[q].leaf /\ new[q].prev = V[q].prev /\ new[q].next = V[q].next
       /\ Len(new[q].ents) = Len(V[q].ents) + 1
       /\ \A j \in 1 .. Len(V[q].ents) + 1 :
            new[q].ents[j] = IF j < i + 1 THEN V[q].ents[j]
                             ELSE IF j = i + 1 THEN [k |-> x, v |-> r] ELSE V[q].ents[j - 1]
  BY <1>0 DEF IsSplit
<1>15. \A y \in PageNo : y \notin {p, r, q} =>
         /\ new[y].leaf = V[y].leaf /\ new[y].next = V[y].next /\ new[y].ents = V[y].ents
         /\ new[y].prev = IF y = V[p].next THEN r ELSE V[y].prev
  BY <1>0 DEF IsSplit
<1>16. PICK N : N = Len(V[p].ents)
  OBVIOUS
<1>17. PICK M : M = Len(V[q].ents)
  OBVIOUS
<1>18. N \in Nat /\ M \in Nat /\ cut < N /\ i \in 1 .. M
       /\ (\A j \in 1 .. N : V[p].ents[j].k \in Nat) /\ (\A j \in 1 .. M : V[q].ents[j].k \in Nat)
  BY <1>6, <1>16, <1>17, InTree
<1>19. Typed(new, S, lv2, lo2, hi2)
  BY <1>2, <1>6, <1>7, <1>8, <1>10, <1>12 DEF Typed
<1>20. Spans(S, lv2, lo2, hi2)
  <2>1. /\ lo[P_ROOT] = 0 /\ hi[P_ROOT] = MaxKey + 1 /\ \A y \in R : y # P_ROOT => lv[y] < lv[P_ROOT]
    BY <1>6 DEF TreeOK, Spans
  <2>2. lo2[P_ROOT] = 0 /\ hi2[P_ROOT] = MaxKey + 1
    BY <1>6, <1>8, <1>10, <2>1
  <2>3. \A y \in S : lo2[y] < hi2[y]
    BY <1>7, <1>9, <1>10, <1>11
  <2>4. \A y \in S : y # P_ROOT => lv2[y] < lv2[P_ROOT]
    BY <1>6, <1>8, <1>10, <1>11, <2>1
  <2>5. QED
    BY <2>2, <2>3, <2>4 DEF Spans
<1>21. Kinds(new, S, lv2)
  <2>1. (\A y \in R : V[y].leaf <=> lv[y] = 0) /\ (\A y \in PageNo \ R : V[y].leaf)
    BY <1>6 DEF TreeOK, Kinds
  <2>2. ASSUME NEW y \in S PROVE new[y].leaf <=> lv2[y] = 0
    <3>1. CASE y = r
      BY <1>6, <1>10, <1>13, <2>1, <3>1
    <3>2. CASE y # r
      <4>1. y \in R /\ y \in PageNo
        BY <1>7, <1>11, <3>2
      <4>2. new[y].leaf = V[y].leaf
        BY <1>12, <1>14, <1>15, <3>2, <4>1
      <4>3. QED
        BY <1>10, <2>1, <4>1, <4>2
    <3>3. QED
      BY <3>1, <3>2
  <2>3. ASSUME NEW y \in PageNo \ S PROVE new[y].leaf
    <3>1. y \in PageNo \ R /\ y \notin {p, r, q}
      BY <1>2, <1>6
    <3>2. QED
      BY <1>15, <2>1, <3>1
  <2>4. QED
    BY <2>2, <2>3 DEF Kinds
<1>22. Apart(S, lv2, lo2, hi2)
  <2>1. \A y, z \in R : y # z /\ lv[y] = lv[z] => hi[y] <= lo[z] \/ hi[z] <= lo[y]
    BY <1>6 DEF TreeOK, Apart
  <2>2. ASSUME NEW y \in R, NEW z \in R, y # z, lv[y] = lv[z], y = p
        PROVE  hi2[y] <= lo2[z] \/ hi2[z] <= lo2[y]
    <3>1. hi[y] <= lo[z] \/ hi[z] <= lo[y]
      BY <2>1, <2>2
    <3>2. hi2[y] = x /\ lo2[z] = lo[z] /\ hi2[z] = hi[z] /\ lo2[y] = lo[y]
      BY <1>10, <2>2
    <3>3. QED
      BY <1>6, <1>7, <1>9, <2>2, <3>1, <3>2
  <2>3. ASSUME NEW z \in R, lv[p] = lv[z]
        PROVE  hi2[r] <= lo2[z] \/ hi2[z] <= lo2[r]
    <3>1. CASE z = p
      BY <1>6, <1>10, <3>1
    <3>2. CASE z # p
      <4>1. hi[p] <= lo[z] \/ hi[z] <= lo[p]
        BY <1>6, <2>1, <2>3, <3>2
      <4>2. hi2[r] = hi[p] /\ lo2[z] = lo[z] /\ hi2[z] = hi[z] /\ lo2[r] = x
        BY <1>10, <3>2
      <4>3. lo[p] \in Nat /\ hi[p] \in Nat /\ lo[z] \in Nat /\ hi[z] \in Nat
        BY <1>6, <1>9
      <4>4. QED
        BY <1>6, <1>7, <4>1, <4>2, <4>3
    <3>3. QED
      BY <3>1, <3>2
  <2>4. ASSUME NEW y \in S, NEW z \in S, y # z, lv2[y] = lv2[z]
        PROVE  hi2[y] <= lo2[z] \/ hi2[z] <= lo2[y]
    <3>1. CASE y = r
      <4>1. z \in R /\ lv[p] = lv[z]
        BY <1>10, <1>11, <2>4, <3>1
      <4>2. QED
        BY <2>3, <3>1, <4>1
    <3>2. CASE z = r
      <4>1. y \in R /\ lv[p] = lv[y]
        BY <1>10, <1>11, <2>4, <3>2
      <4>2. QED
        BY <2>3, <3>2, <4>1
    <3>3. CASE y # r /\ z # r
      <4>1. y \in R /\ z \in R /\ lv[y] = lv[z]
        BY <1>10, <1>11, <2>4, <3>3
      <4>2. CASE y = p
        BY <2>2, <2>4, <4>1, <4>2
      <4>3. CASE z = p
        BY <2>2, <2>4, <4>1, <4>3
      <4>4. CASE y # p /\ z # p
        BY <1>10, <2>1, <2>4, <4>1, <4>4
      <4>5. QED
        BY <4>2, <4>3, <4>4
    <3>4. QED
      BY <3>1, <3>2, <3>3
  <2>5. QED
    BY <2>4 DEF Apart
<1>23. Linked(new, S, lv2, lo2, hi2)
  <2>1. \A y \in R :
          /\ \/ V[y].next = P_INVALID /\ hi[y] = MaxKey + 1
             \/ V[y].next \in R /\ lv[V[y].next] = lv[y] /\ lo[V[y].next] = hi[y]
          /\ \/ V[y].prev = P_INVALID /\ lo[y] = 0
             \/ V[y].prev \in R /\ lv[V[y].prev] = lv[y] /\ hi[V[y].prev] = lo[y]
    BY <1>6 DEF TreeOK, Linked
  <2>2. ASSUME NEW y \in S
        PROVE  \/ new[y].next = P_INVALID /\ hi2[y] = MaxKey + 1
               \/ new[y].next \in S /\ lv2[new[y].next] = lv2[y] /\ lo2[new[y].next] = hi2[y]
    <3>1. CASE y = p
      <4>1. new[y].next = r /\ r \in S /\ lv2[r] = lv[p] /\ lv2[y] = lv[p] /\ lo2[r] = x /\ hi2[y] = x
        BY <1>2, <1>6, <1>10, <1>12, <3>1
      <4>2. QED
        BY <4>1
    <3>2. CASE y = r
      <4>1. \/ V[p].next = P_INVALID /\ hi[p] = MaxKey + 1
            \/ V[p].next \in R /\ lv[V[p].next] = lv[p] /\ lo[V[p].next] = hi[p]
        BY <1>6, <2>1
      <4>2. new[y].next = V[p].next /\ hi2[y] = hi[p] /\ lv2[y] = lv[p]
        BY <1>10, <1>13, <3>2
      <4>3. QED
        BY <1>2, <1>10, <4>1, <4>2
    <3>3. CASE y \notin {p, r}
      <4>1. y \in R /\ y \in PageNo
        BY <1>7, <1>11, <3>3
      <4>2. new[y].next = V[y].next
        BY <1>14, <1>15, <3>3, <4>1
      <4>3. hi2[y] = hi[y] /\ lv2[y] = lv[y]
        BY <1>10, <3>3, <4>1
      <4>4. \/ V[y].next = P_INVALID /\ hi[y] = MaxKey + 1
            \/ V[y].next \in R /\ lv[V[y].next] = lv[y] /\ lo[V[y].next] = hi[y]
        BY <2>1, <4>1
      <4>5. QED
        BY <1>2, <1>10, <4>2, <4>3, <4>4
    <3>4. QED
      BY <3>1, <3>2, <3>3
  <2>3. ASSUME NEW y \in R, y # V[p].next, V[y].prev = p PROVE FALSE
    <3>1. lv[y] = lv[p] /\ lo[y] = hi[p]
      <4>1. V[y].prev # P_INVALID
        BY <1>6, <1>7, <2>3, Numbers
      <4>2. QED
        BY <2>1, <2>3, <4>1
    <3>2. CASE V[p].next = P_INVALID
      <4>1. hi[p] = MaxKey + 1
        <5>1. P_INVALID \notin R
          BY <1>7, Numbers
        <5>2. QED
          BY <1>6, <2>1, <3>2, <5>1
      <4>2. hi[y] <= MaxKey + 1
        BY <1>6, Bounded
      <4>3. QED
        BY <1>9, <3>1, <4>1, <4>2, Numbers
    <3>3. CASE V[p].next # P_INVALID
      <4>1. V[p].next \in R /\ lv[V[p].next] = lv[p] /\ lo[V[p].next] = hi[p]
        BY <1>6, <2>1, <3>3
      <4>2. hi[y] <= lo[V[p].next] \/ hi[V[p].next] <= lo[y]
        BY <1>6, <2>3, <3>1, <4>1 DEF TreeOK, Apart
      <4>3. lo[y] < hi[y] /\ lo[V[p].next] < hi[V[p].next] /\ lo[y] \in Nat /\ hi[y] \in Nat /\ hi[V[p].next] \in Nat
        BY <1>9, <4>1
      <4>4. QED
        BY <3>1, <4>1, <4>2, <4>3
    <3>4. QED
      BY <3>2, <3>3
  <2>4. ASSUME NEW y \in S
        PROVE  \/ new[y].prev = P_INVALID /\ lo2[y] = 0
               \/ new[y].prev \in S /\ lv2[new[y].prev] = lv2[y] /\ hi2[new[y].prev] = lo2[y]
    <3>1. CASE y = r
      <4>1. new[y].prev = p /\ p \in S /\ lv2[p] = lv[p] /\ lv2[y] = lv[p] /\ hi2[p] = x /\ lo2[y] = x
        BY <1>2, <1>6, <1>10, <1>13, <3>1
      <4>2. QED
        BY <4>1
    <3>2. CASE y = V[p].next /\ y # r
      <4>1. y \in R /\ y \in PageNo
        BY <1>7, <1>11, <3>2
      <4>2. new[y].prev = r
        BY <1>7, <1>15, <3>2, <4>1
      <4>3. y # P_INVALID
        BY <4>1, Numbers
      <4>4. lv[y] = lv[p] /\ lo[y] = hi[p]
        BY <1>6, <2>1, <3>2, <4>3
      <4>5. QED
        BY <1>2, <1>10, <4>1, <4>2, <4>4
    <3>3. CASE y # r /\ y # V[p].next
      <4>1. y \in R /\ y \in PageNo
        BY <1>7, <1>11, <3>3
      <4>2. new[y].prev = V[y].prev
        BY <1>12, <1>14, <1>15, <3>3, <4>1
      <4>3. lo2[y] = lo[y] /\ lv2[y] = lv[y] /\ V[y].prev # p
        BY <1>10, <2>3, <3>3, <4>1
      <4>4. \/ V[y].prev = P_INVALID /\ lo[y] = 0
            \/ V[y].prev \in R /\ lv[V[y].prev] = lv[y] /\ hi[V[y].prev] = lo[y]
        BY <2>1, <4>1
      <4>5. QED
        BY <1>2, <1>10, <4>2, <4>3, <4>4
    <3>4. QED
      BY <3>1, <3>2, <3>3
  <2>5. QED
    BY <2>2, <2>4 DEF Linked
<1>24. ASSUME NEW y \in S, y \notin {p, r, q} PROVE y \in R /\ y \in PageNo /\ new[y].ents = V[y].ents
  <2>1. y \in R /\ y \in PageNo
    BY <1>7, <1>11, <1>24
  <2>2. QED
    BY <1>15, <1>24, <2>1
<1>25. /\ \A j, k \in 1 .. N : j < k /\ (lv[p] = 0 \/ j # 1) => V[p].ents[j].k < V[p].ents[k].k
       /\ \A j, k \in 1 .. M : j < k /\ j # 1 => V[q].ents[j].k < V[q].ents[k].k
  BY <1>6, <1>16, <1>17 DEF TreeOK, Ordered
<1>26. /\ \A j \in 1 .. N : /\ lv[p] = 0 => lo[p] <= V[p].ents[j].k /\ V[p].ents[j].k < hi[p]
                            /\ j # 1 => lo[p] < V[p].ents[j].k /\ V[p].ents[j].k < hi[p]
       /\ \A j \in 1 .. M : j # 1 => lo[q] < V[q].ents[j].k /\ V[q].ents[j].k < hi[q]
  BY <1>6, <1>16, <1>17 DEF TreeOK, Within
<1>27. /\ \A j \in 1 .. M :
            /\ V[q].ents[j].v \in R
            /\ lv[V[q].ents[j].v] = lv[q] - 1
            /\ lo[V[q].ents[j].v] = IF j = 1 THEN lo[q] ELSE V[q].ents[j].k
            /\ hi[V[q].ents[j].v] = IF j = M THEN hi[q] ELSE V[q].ents[j + 1].k
       /\ lv[p] # 0 => \A j \in 1 .. N :
            /\ V[p].ents[j].v \in R
            /\ lv[V[p].ents[j].v] = lv[p] - 1
            /\ lo[V[p].ents[j].v] = IF j = 1 THEN lo[p] ELSE V[p].ents[j].k
            /\ hi[V[p].ents[j].v] = IF j = N THEN hi[p] ELSE V[p].ents[j + 1].k
  BY <1>6, <1>16, <1>17 DEF TreeOK, Down
<1>28. /\ lv[p] = 0 => V[p].ents[cut].k < x /\ x <= V[p].ents[cut + 1].k
       /\ lv[p] # 0 => x = V[p].ents[cut + 1].k
  BY DEF SplitAt
<1>29. \A j \in 1 .. N - cut : cut + j \in 1 .. N /\ cut + j # 1 /\ new[r].ents[j] = V[p].ents[cut + j]
  BY <1>6, <1>13, <1>16, <1>18
<1>30. \A j \in 1 .. cut : j \in 1 .. N /\ new[p].ents[j] = V[p].ents[j]
  BY <1>6, <1>12, <1>18
<1>31. cut \in 1 .. N /\ cut + 1 \in 1 .. N
  BY <1>6, <1>18
\* The key of the new page lies between those of its neighbours in the parent.
<1>32. /\ i # 1 => V[q].ents[i].k = lo[p]
       /\ i # M => V[q].ents[i + 1].k = hi[p] /\ i + 1 \in 1 .. M /\ i + 1 # 1
       /\ i = 1 => lo[q] = lo[p]
       /\ i = M => hi[q] = hi[p]
  BY <1>6, <1>18, <1>27
<1>33. PICK e : e = [k |-> x, v |-> r]
  OBVIOUS
<1>34. /\ Len(new[q].ents) = M + 1
       /\ \A j \in 1 .. i : j \in 1 .. M /\ new[q].ents[j] = V[q].ents[j]
       /\ i + 1 \in 1 .. M + 1 /\ new[q].ents[i + 1] = e /\ e.k = x /\ e.v = r
       /\ \A j \in i + 2 .. M + 1 : j - 1 \in 1 .. M /\ j - 1 # 1 /\ j - 1 > i /\ new[q].ents[j] = V[q].ents[j - 1]
       /\ \A j \in 1 .. M + 1 : j \in 1 .. i \/ j = i + 1 \/ j \in i + 2 .. M + 1
  <2>1. \A j \in 1 .. i : j \in 1 .. M /\ j \in 1 .. M + 1 /\ j < i + 1
    BY <1>18
  <2>2. \A j \in i + 2 .. M + 1 : j - 1 \in 1 .. M /\ j - 1 # 1 /\ j - 1 > i /\ j \in 1 .. M + 1 /\ ~(j < i + 1) /\ j # i + 1
    BY <1>18
  <2>3. i + 1 \in 1 .. M + 1 /\ ~(i + 1 < i + 1)
    BY <1>18
  <2>4. \A j \in 1 .. M + 1 : j \in 1 .. i \/ j = i + 1 \/ j \in i + 2 .. M + 1
    BY <1>18
  <2>5. \A j \in 1 .. M + 1 :
            new[q].ents[j] = IF j < i + 1 THEN V[q].ents[j]
                             ELSE IF j = i + 1 THEN e ELSE V[q].ents[j - 1]
    BY <1>14, <1>17, <1>33
  <2>6. QED
    BY <1>14, <1>17, <1>33, <2>1, <2>2, <2>3, <2>4, <2>5
<1>35. /\ \A j \in 1 .. i : j # 1 => V[q].ents[j].k < x
       /\ \A j \in 1 .. M : j > i => x < V[q].ents[j].k
  <2>1. ASSUME NEW j \in 1 .. i, j # 1 PROVE V[q].ents[j].k < x
    <3>1. j \in 1 .. M /\ (j = i \/ j < i)
      BY <1>18, <2>1
    <3>2. V[q].ents[j].k <= V[q].ents[i].k
      BY <1>18, <1>25, <2>1, <3>1
    <3>3. V[q].ents[i].k = lo[p]
      BY <1>18, <1>32, <2>1
    <3>4. QED
      BY <1>6, <1>7, <1>9, <1>18, <3>1, <3>2, <3>3
  <2>2. ASSUME NEW j \in 1 .. M, j > i PROVE x < V[q].ents[j].k
    <3>1. i # M /\ i + 1 \in 1 .. M /\ i + 1 # 1 /\ (j = i + 1 \/ i + 1 < j)
      BY <1>18, <2>2
    <3>2. V[q].ents[i + 1].k <= V[q].ents[j].k
      BY <1>18, <1>25, <3>1
    <3>3. V[q].ents[i + 1].k = hi[p]
      BY <1>32, <3>1
    <3>4. QED
      BY <1>6, <1>7, <1>9, <1>18, <3>2, <3>3
  <2>3. QED
    BY <2>1, <2>2
<1>36. Ordered(new, S, lv2)
  <2>1. ASSUME NEW y \in S, NEW j \in 1 .. Len(new[y].ents), NEW k \in 1 .. Len(new[y].ents),
               j < k, lv2[y] = 0 \/ j # 1
        PROVE  new[y].ents[j].k < new[y].ents[k].k
    <3>1. CASE y = p
      BY <1>6, <1>10, <1>12, <1>25, <1>30, <2>1, <3>1
    <3>2. CASE y = r
      <4>1. j \in 1 .. N - cut /\ k \in 1 .. N - cut
        BY <1>13, <1>16, <2>1, <3>2
      <4>2. cut + j < cut + k
        BY <1>6, <1>18, <2>1, <4>1
      <4>3. QED
        BY <1>25, <1>29, <3>2, <4>1, <4>2
    <3>3. CASE y = q
      <4>0. j # 1 /\ j \in 1 .. M + 1 /\ k \in 1 .. M + 1
        BY <1>6, <1>10, <1>34, <2>1, <3>3
      <4>1. CASE k \in 1 .. i
        <5>1. j \in 1 .. i
          BY <1>18, <2>1, <4>0, <4>1
        <5>2. QED
          BY <1>25, <1>34, <2>1, <3>3, <4>0, <4>1, <5>1
      <4>2. CASE k = i + 1
        <5>1. j \in 1 .. i
          BY <1>18, <2>1, <4>0, <4>2
        <5>2. QED
          BY <1>34, <1>35, <3>3, <4>0, <4>2, <5>1
      <4>3. CASE k \in i + 2 .. M + 1
        <5>1. CASE j \in 1 .. i
          <6>1. j < k - 1
            BY <1>18, <4>3, <5>1
          <6>2. QED
            BY <1>25, <1>34, <3>3, <4>0, <4>3, <5>1, <6>1
        <5>2. CASE j = i + 1
          BY <1>34, <1>35, <3>3, <4>3, <5>2
        <5>3. CASE j \in i + 2 .. M + 1
          <6>1. j - 1 < k - 1
            BY <1>18, <2>1, <4>3, <5>3
          <6>2. QED
            BY <1>25, <1>34, <3>3, <4>3, <5>3, <6>1
        <5>4. QED
          BY <1>34, <4>0, <5>1, <5>2, <5>3
      <4>4. QED
        BY <1>34, <4>0, <4>1, <4>2, <4>3
    <3>4. CASE y \notin {p, r, q}
      <4>1. y \in R /\ new[y].ents = V[y].ents /\ lv2[y] = lv[y]
        BY <1>10, <1>24, <3>4
      <4>2. QED
        BY <1>6, <2>1, <4>1 DEF TreeOK, Ordered
    <3>5. QED
      BY <3>1, <3>2, <3>3, <3>4
  <2>2. QED
    BY <2>1 DEF Ordered
<1>37. Within(new, S, lv2, lo2, hi2)
  <2>1. ASSUME NEW y \in S, NEW j \in 1 .. Len(new[y].ents)
        PROVE  /\ lv2[y] = 0 => lo2[y] <= new[y].ents[j].k /\ new[y].ents[j].k < hi2[y]
               /\ j # 1 => lo2[y] < new[y].ents[j].k /\ new[y].ents[j].k < hi2[y]
    <3>1. CASE y = p
      <4>1. j \in 1 .. cut /\ j \in 1 .. N /\ new[y].ents[j] = V[p].ents[j] /\ V[p].ents[j].k \in Nat
        BY <1>12, <1>18, <1>30, <2>1, <3>1
      <4>2. lo2[y] = lo[p] /\ hi2[y] = x /\ lv2[y] = lv[p]
        BY <1>6, <1>10, <3>1
      <4>3. (lv[p] = 0 \/ j # 1) => V[p].ents[j].k < x
        <5>1. CASE lv[p] = 0
          <6>1. j = cut \/ j < cut
            BY <1>6, <4>1
          <6>2. V[p].ents[j].k <= V[p].ents[cut].k
            BY <1>18, <1>25, <1>31, <4>1, <5>1, <6>1
          <6>3. QED
            BY <1>6, <1>18, <1>28, <1>31, <4>1, <5>1, <6>2
        <5>2. CASE lv[p] # 0 /\ j # 1
          <6>1. j < cut + 1
            BY <1>6, <4>1
          <6>2. QED
            BY <1>25, <1>28, <1>31, <4>1, <5>2, <6>1
        <5>3. QED
          BY <5>1, <5>2
      <4>4. QED
        BY <1>26, <4>1, <4>2, <4>3
    <3>2. CASE y = r
      <4>1. j \in 1 .. N - cut
        BY <1>13, <1>16, <2>1, <3>2
      <4>2. new[y].ents[j] = V[p].ents[cut + j] /\ cut + j \in 1 .. N /\ cut + j # 1 /\ V[p].ents[cut + j].k \in Nat
        BY <1>18, <1>29, <3>2, <4>1
      <4>3. lo2[y] = x /\ hi2[y] = hi[p] /\ lv2[y] = lv[p]
        BY <1>10, <3>2
      <4>4. V[p].ents[cut + j].k < hi[p]
        BY <1>26, <4>2
      <4>5. x <= V[p].ents[cut + 1].k /\ V[p].ents[cut + 1].k \in Nat
        BY <1>6, <1>18, <1>28, <1>31
      <4>6. CASE j = 1
        BY <4>2, <4>3, <4>4, <4>5, <4>6
      <4>7. CASE j # 1
        <5>1. cut + 1 < cut + j /\ cut + 1 # 1
          BY <1>6, <1>18, <4>1, <4>7
        <5>2. V[p].ents[cut + 1].k < V[p].ents[cut + j].k
          BY <1>25, <1>31, <4>2, <5>1
        <5>3. x < V[p].ents[cut + j].k
          <6>1. x \in Nat
            BY <1>6
          <6>2. QED
            BY <4>2, <4>5, <5>2, <6>1
        <5>4. QED
          BY <1>6, <4>2, <4>3, <4>4, <5>3
      <4>8. QED
        BY <4>6, <4>7
    <3>3. CASE y = q
      <4>1. lo2[y] = lo[q] /\ hi2[y] = hi[q] /\ lv2[y] # 0 /\ j \in 1 .. M + 1
        BY <1>6, <1>7, <1>10, <1>34, <2>1, <3>3
      <4>2. CASE j \in 1 .. i
        BY <1>26, <1>34, <3>3, <4>1, <4>2
      <4>3. CASE j = i + 1
        <5>1. lo[q] < x /\ x < hi[q]
          BY <1>6, <1>7, <1>9
        <5>2. QED
          BY <1>34, <3>3, <4>1, <4>3, <5>1
      <4>4. CASE j \in i + 2 .. M + 1
        BY <1>26, <1>34, <3>3, <4>1, <4>4
      <4>5. QED
        BY <1>34, <4>1, <4>2, <4>3, <4>4
    <3>4. CASE y \notin {p, r, q}
      <4>1. y \in R /\ new[y].ents = V[y].ents /\ lv2[y] = lv[y] /\ lo2[y] = lo[y] /\ hi2[y] = hi[y]
        BY <1>10, <1>24, <3>4
      <4>2. QED
        BY <1>6, <2>1, <4>1 DEF TreeOK, Within
    <3>5. QED
      BY <3>1, <3>2, <3>3, <3>4
  <2>2. QED
    BY <2>1 DEF Within
<1>38. Filled(new, S, lv2)
  <2>1. ASSUME NEW y \in S PROVE Len(new[y].ents) # 0 \/ (y = P_ROOT /\ lv2[y] = 0)
    <3>1. CASE y = p
      BY <1>6, <1>12, <3>1
    <3>2. CASE y = r
      BY <1>6, <1>13, <1>16, <1>18, <3>2
    <3>3. CASE y = q
      BY <1>18, <1>34, <3>3
    <3>4. CASE y \notin {p, r, q}
      <4>1. y \in R /\ new[y].ents = V[y].ents /\ lv2[y] = lv[y]
        BY <1>10, <1>24, <3>4
      <4>2. QED
        BY <1>6, <4>1 DEF TreeOK, Filled
    <3>5. QED
      BY <3>1, <3>2, <3>3, <3>4
  <2>2. QED
    BY <2>1 DEF Filled
<1>39. Fitting(new, S, q)
  <2>1. ASSUME NEW y \in S \ {q} PROVE Fits(Sizes(new[y].leaf, Len(new[y].ents)))
    <3>0. Fits(Sizes(V[p].leaf, cut)) /\ Fits(Sizes(V[p].leaf, N - cut))
      BY <1>16 DEF SplitAt
    <3>1. CASE y = p
      BY <1>12, <3>0, <3>1
    <3>2. CASE y = r
      BY <1>13, <1>16, <3>0, <3>2
    <3>3. CASE y \notin {p, r, q}
      <4>1. y \in R \ {p} /\ new[y].ents = V[y].ents /\ new[y].leaf = V[y].leaf
        BY <1>15, <1>24, <3>3
      <4>2. QED
        BY <1>6, <4>1 DEF TreeOK, Fitting
    <3>4. QED
      BY <2>1, <3>1, <3>2, <3>3
  <2>2. QED
    BY <2>1 DEF Fitting
<1>40. Down(new, S, lv2, lo2, hi2)
  <2>1. ASSUME NEW y \in S, lv2[y] # 0, NEW j \in 1 .. Len(new[y].ents)
        PROVE  /\ new[y].ents[j].v \in S
               /\ lv2[new[y].ents[j].v] = lv2[y] - 1
               /\ lo2[new[y].ents[j].v] = IF j = 1 THEN lo2[y] ELSE new[y].ents[j].k
               /\ hi2[new[y].ents[j].v] = IF j = Len(new[y].ents) THEN hi2[y] ELSE new[y].ents[j + 1].k
    <3>1. CASE y = p
      <4>1. lv[p] # 0 /\ j \in 1 .. cut /\ Len(new[y].ents) = cut /\ lo2[y] = lo[p] /\ hi2[y] = x /\ lv2[y] = lv[p]
        BY <1>6, <1>10, <1>12, <2>1, <3>1
      <4>2. PICK c : c = V[p].ents[j].v
        OBVIOUS
      <4>3. /\ c \in R /\ lv[c] = lv[p] - 1 /\ lo[c] = IF j = 1 THEN lo[p] ELSE V[p].ents[j].k
            /\ hi[c] = IF j = N THEN hi[p] ELSE V[p].ents[j + 1].k
            /\ new[y].ents[j] = V[p].ents[j]
        BY <1>27, <1>30, <3>1, <4>1, <4>2
      <4>4. c # p
        BY <1>6, <1>9, <4>3
      <4>5. hi[c] = V[p].ents[j + 1].k
        BY <1>6, <1>18, <4>1, <4>3
      <4>6. CASE j = cut
        <5>1. hi[c] = x
          BY <1>28, <4>1, <4>5, <4>6
        <5>2. QED
          BY <1>2, <1>10, <4>1, <4>2, <4>3, <4>4, <4>6, <5>1
      <4>7. CASE j # cut
        <5>1. j + 1 \in 1 .. cut
          BY <1>6, <4>1, <4>7
        <5>2. new[y].ents[j + 1] = V[p].ents[j + 1]
          BY <1>30, <3>1, <5>1
        <5>3. QED
          BY <1>2, <1>10, <4>1, <4>2, <4>3, <4>4, <4>5, <4>7, <5>2
      <4>8. QED
        BY <4>6, <4>7
    <3>2. CASE y = r
      <4>1. lv[p] # 0 /\ j \in 1 .. N - cut /\ Len(new[y].ents) = N - cut /\ lo2[y] = x /\ hi2[y] = hi[p] /\ lv2[y] = lv[p]
        BY <1>10, <1>13, <1>16, <2>1, <3>2
      <4>2. PICK c : c = V[p].ents[cut + j].v
        OBVIOUS
      <4>3. cut + j \in 1 .. N /\ cut + j # 1 /\ new[y].ents[j] = V[p].ents[cut + j]
        BY <1>29, <3>2, <4>1
      <4>4. /\ c \in R /\ lv[c] = lv[p] - 1 /\ lo[c] = V[p].ents[cut + j].k
            /\ hi[c] = IF cut + j = N THEN hi[p] ELSE V[p].ents[cut + j + 1].k
        BY <1>27, <4>1, <4>2, <4>3
      <4>5. c # p
        BY <1>6, <1>9, <4>4
      <4>6. lo[c] = IF j = 1 THEN x ELSE V[p].ents[cut + j].k
        BY <1>28, <4>1, <4>4
      <4>7. hi[c] = IF j = N - cut THEN hi[p] ELSE new[y].ents[j + 1].k
        <5>1. CASE j = N - cut
          <6>1. cut + j = N
            BY <1>6, <1>18, <5>1
          <6>2. QED
            BY <4>4, <5>1, <6>1
        <5>2. CASE j # N - cut
          <6>1. j + 1 \in 1 .. N - cut /\ cut + j # N /\ cut + (j + 1) = cut + j + 1
            BY <1>6, <1>18, <4>1, <5>2
          <6>2. new[r].ents[j + 1] = V[p].ents[cut + j + 1]
            BY <1>29, <6>1
          <6>3. QED
            BY <3>2, <4>4, <5>2, <6>1, <6>2
        <5>3. QED
          BY <5>1, <5>2
      <4>8. c \in S /\ lv2[c] = lv[c] /\ lo2[c] = lo[c] /\ hi2[c] = hi[c]
        BY <1>2, <1>10, <4>4, <4>5
      <4>9. QED
        BY <4>1, <4>2, <4>3, <4>4, <4>6, <4>7, <4>8
    <3>3. CASE y = q
      <4>1. lo2[y] = lo[q] /\ hi2[y] = hi[q] /\ lv2[y] = lv[q] /\ j \in 1 .. M + 1 /\ Len(new[y].ents) = M + 1
        BY <1>6, <1>7, <1>10, <1>34, <2>1, <3>3
      <4>2. \A m \in 1 .. M : m # i => V[q].ents[m].v # p
        BY <1>6, <1>17, OneParent
      <4>3. \A m \in 1 .. M : m # i => /\ V[q].ents[m].v \in S
                                       /\ lv2[V[q].ents[m].v] = lv[q] - 1
                                       /\ lo2[V[q].ents[m].v] = IF m = 1 THEN lo[q] ELSE V[q].ents[m].k
                                       /\ hi2[V[q].ents[m].v] = IF m = M THEN hi[q] ELSE V[q].ents[m + 1].k
        BY <1>2, <1>10, <1>27, <4>2
      <4>4. CASE j \in 1 .. i /\ j # i
        <5>1. j + 1 \in 1 .. i /\ j # M /\ j # M + 1
          BY <1>18, <4>4
        <5>2. new[q].ents[j] = V[q].ents[j] /\ new[q].ents[j + 1] = V[q].ents[j + 1] /\ j \in 1 .. M
          BY <1>34, <4>4, <5>1
        <5>3. QED
          BY <3>3, <4>1, <4>3, <4>4, <5>1, <5>2
      <4>5. CASE j = i
        <5>1. new[q].ents[j] = V[q].ents[i] /\ new[q].ents[j + 1] = e /\ j # M + 1 /\ e.k = x
          <6>1. i \in 1 .. i /\ i # M + 1
            BY <1>18
          <6>2. QED
            BY <1>34, <4>5, <6>1
        <5>2. lo[p] = IF i = 1 THEN lo[q] ELSE V[q].ents[i].k
          BY <1>32
        <5>3. V[q].ents[i].v = p /\ p \in S /\ lv2[p] = lv[q] - 1 /\ lo2[p] = lo[p] /\ hi2[p] = x
          BY <1>2, <1>6, <1>7, <1>9, <1>10
        <5>4. QED
          BY <3>3, <4>1, <4>5, <5>1, <5>2, <5>3
      <4>6. CASE j = i + 1
        <5>1. new[q].ents[j] = e /\ e.v = r /\ e.k = x /\ j # 1
          BY <1>18, <1>34, <4>6
        <5>2. r \in S /\ lv2[r] = lv[q] - 1 /\ lo2[r] = x /\ hi2[r] = hi[p]
          BY <1>2, <1>6, <1>7, <1>9, <1>10
        <5>3. hi[p] = IF j = M + 1 THEN hi[q] ELSE new[q].ents[j + 1].k
          <6>1. CASE i = M
            BY <1>32, <4>6, <6>1
          <6>2. CASE i # M
            <7>1. j + 1 \in i + 2 .. M + 1 /\ (j + 1) - 1 = i + 1 /\ j # M + 1
              BY <1>18, <4>6, <6>2
            <7>2. new[q].ents[j + 1] = V[q].ents[i + 1]
              BY <1>34, <7>1
            <7>3. QED
              BY <1>32, <6>2, <7>1, <7>2
          <6>3. QED
            BY <6>1, <6>2
        <5>4. QED
          BY <3>3, <4>1, <5>1, <5>2, <5>3
      <4>7. CASE j \in i + 2 .. M + 1
        <5>1. j - 1 \in 1 .. M /\ j - 1 # 1 /\ j - 1 # i /\ new[q].ents[j] = V[q].ents[j - 1] /\ j # 1
          <6>1. j - 1 \in 1 .. M /\ j - 1 # 1 /\ j - 1 > i /\ new[q].ents[j] = V[q].ents[j - 1]
            BY <1>34, <4>7
          <6>2. j # 1 /\ j - 1 # i
            BY <1>18, <4>7
          <6>3. QED
            BY <6>1, <6>2
        <5>2. CASE j = M + 1
          <6>1. j - 1 = M
            BY <1>18, <5>2
          <6>2. QED
            BY <3>3, <4>1, <4>3, <5>1, <5>2, <6>1
        <5>3. CASE j # M + 1
          <6>1. j + 1 \in i + 2 .. M + 1 /\ (j + 1) - 1 = j /\ (j - 1) + 1 = j /\ j - 1 # M
            BY <1>18, <4>7, <5>3
          <6>2. new[q].ents[j + 1] = V[q].ents[j]
            BY <1>34, <6>1
          <6>3. hi2[V[q].ents[j - 1].v] = V[q].ents[j].k
            BY <4>3, <5>1, <6>1
          <6>4. QED
            BY <3>3, <4>1, <4>3, <5>1, <5>3, <6>2, <6>3
        <5>4. QED
          BY <5>2, <5>3
      <4>8. QED
        BY <1>34, <4>1, <4>4, <4>5, <4>6, <4>7
    <3>4. CASE y \notin {p, r, q}
      <4>1. y \in R /\ new[y].ents = V[y].ents /\ lv2[y] = lv[y] /\ lo2[y] = lo[y] /\ hi2[y] = hi[y]
        BY <1>10, <1>24, <3>4
      <4>2. j \in 1 .. Len(V[y].ents) /\ lv[y] # 0
        BY <2>1, <4>1
      <4>3. /\ V[y].ents[j].v \in R
            /\ lv[V[y].ents[j].v] = lv[y] - 1
            /\ lo[V[y].ents[j].v] = IF j = 1 THEN lo[y] ELSE V[y].ents[j].k
            /\ hi[V[y].ents[j].v] = IF j = Len(V[y].ents) THEN hi[y] ELSE V[y].ents[j + 1].k
        BY <1>6, <4>1, <4>2 DEF TreeOK, Down
      <4>4. V[y].ents[j].v # p
        BY <1>6, <3>4, <4>1, <4>2, OneParent
      <4>5. QED
        BY <1>2, <1>10, <4>1, <4>3, <4>4
    <3>5. QED
      BY <3>1, <3>2, <3>3, <3>4
  <2>2. QED
    BY <2>1 DEF Down
<1>41. Up(new, S, lv2)
  <2>1. ASSUME NEW c \in S, c # P_ROOT
        PROVE  \E y \in S : lv2[y] = lv2[c] + 1 /\ \E j \in 1 .. Len(new[y].ents) : new[y].ents[j].v = c
    <3>1. CASE c = r
      <4>1. q \in S /\ lv2[q] = lv2[c] + 1 /\ i + 1 \in 1 .. Len(new[q].ents) /\ new[q].ents[i + 1].v = c
        BY <1>2, <1>6, <1>7, <1>10, <1>34, <3>1
      <4>2. QED
        BY <4>1
    <3>2. CASE c # r
      <4>1. c \in R /\ lv2[c] = lv[c]
        BY <1>10, <1>11, <3>2
      <4>2. PICK y \in R : lv[y] = lv[c] + 1 /\ \E j \in 1 .. Len(V[y].ents) : V[y].ents[j].v = c
        BY <1>6, <2>1, <4>1 DEF TreeOK, Up
      <4>3. PICK j \in 1 .. Len(V[y].ents) : V[y].ents[j].v = c
        BY <4>2
      <4>4. y \in S /\ lv2[y] = lv2[c] + 1
        BY <1>2, <1>10, <4>1, <4>2
      <4>5. CASE y = p
        <5>0. j \in 1 .. N
          BY <1>16, <4>3, <4>5
        <5>1. CASE j <= cut
          <6>1. j \in 1 .. cut /\ new[p].ents[j] = V[p].ents[j]
            BY <1>6, <1>30, <5>0, <5>1
          <6>2. QED
            BY <1>12, <4>3, <4>4, <4>5, <6>1
        <5>2. CASE j > cut
          <6>1. j - cut \in 1 .. N - cut /\ cut + (j - cut) = j
            BY <1>6, <1>18, <5>0, <5>2
          <6>2. new[r].ents[j - cut] = V[p].ents[j]
            BY <1>29, <6>1
          <6>3. r \in S /\ lv2[r] = lv2[c] + 1 /\ j - cut \in 1 .. Len(new[r].ents)
            BY <1>2, <1>10, <1>13, <1>16, <4>1, <4>2, <4>5, <6>1
          <6>4. QED
            BY <4>3, <4>5, <6>2, <6>3
        <5>3. QED
          BY <1>6, <5>0, <5>1, <5>2
      <4>6. CASE y = q
        <5>0. j \in 1 .. M
          BY <1>17, <4>3, <4>6
        <5>1. CASE j <= i
          <6>1. j \in 1 .. i /\ j \in 1 .. M + 1
            BY <1>18, <5>0, <5>1
          <6>2. QED
            BY <1>34, <4>3, <4>4, <4>6, <6>1
        <5>2. CASE j > i
          <6>1. j + 1 \in i + 2 .. M + 1 /\ j + 1 \in 1 .. M + 1 /\ (j + 1) - 1 = j
            BY <1>18, <5>0, <5>2
          <6>2. new[q].ents[j + 1] = V[q].ents[j]
            BY <1>34, <6>1
          <6>3. QED
            BY <1>34, <4>3, <4>4, <4>6, <6>1, <6>2
        <5>3. QED
          BY <1>18, <5>0, <5>1, <5>2
      <4>7. CASE y \notin {p, r, q}
        <5>1. new[y].ents = V[y].ents
          BY <1>24, <4>4, <4>7
        <5>2. QED
          BY <4>3, <4>4, <5>1
      <4>8. QED
        BY <1>6, <4>2, <4>5, <4>6, <4>7
    <3>3. QED
      BY <3>1, <3>2
  <2>2. QED
    BY <2>1 DEF Up
<1>42. TreeOK(new, S, lv2, lo2, hi2, q)
  BY <1>19, <1>20, <1>21, <1>22, <1>23, <1>36, <1>37, <1>38, <1>39, <1>40, <1>41 DEF TreeOK
<1>43. QED
  BY <1>1, <1>2, <1>3, <1>4, <1>5, <1>42

\* The same at the root: the records go to pages l and r.
RootPages(V, l, r, cut) ==
  [y \in PageNo |->
     IF y = P_ROOT
     THEN [leaf |-> FALSE, prev |-> V[P_ROOT].prev, next |-> V[P_ROOT].next,
           ents |-> <<[k |-> 0, v |-> l], [k |-> V[P_ROOT].ents[cut + 1].k, v |-> r]>>]
     ELSE IF y = l THEN Sibling(V[P_ROOT], P_INVALID, r, SubSeq(V[P_ROOT].ents, 1, cut))
     ELSE IF y = r THEN Sibling(V[P_ROOT], l, P_INVALID,
                                SubSeq(V[P_ROOT].ents, cut + 1, Len(V[P_ROOT].ents)))
     ELSE V[y]]

RootAt(V, R, lv, lo, hi, l, r, cut) ==
  /\ TreeOK(V, R, lv, lo, hi, P_ROOT)
  /\ l \in PageNo /\ l \notin R /\ r \in PageNo /\ r \notin R /\ l # r
  /\ cut \in Nat /\ cut # 0 /\ cut < Len(V[P_ROOT].ents)
  /\ Fits(Sizes(V[P_ROOT].leaf, cut)) /\ Fits(Sizes(V[P_ROOT].leaf, Len(V[P_ROOT].ents) - cut))

IsRootSplit(V, new, l, r, cut) ==
  /\ new \in [PageNo -> Page]
  /\ ~new[P_ROOT].leaf /\ new[P_ROOT].prev = V[P_ROOT].prev /\ new[P_ROOT].next = V[P_ROOT].next
  /\ Len(new[P_ROOT].ents) = 2 /\ new[P_ROOT].ents[1].v = l /\ new[P_ROOT].ents[2].v = r
  /\ new[P_ROOT].ents[2].k = V[P_ROOT].ents[cut + 1].k
  /\ new[l].leaf = V[P_ROOT].leaf /\ new[l].prev = P_INVALID /\ new[l].next = r
  /\ new[l].ents \in Seq(Ent) /\ Len(new[l].ents) = cut /\ \A j \in 1 .. cut : new[l].ents[j] = V[P_ROOT].ents[j]
  /\ new[r].leaf = V[P_ROOT].leaf /\ new[r].prev = l /\ new[r].next = P_INVALID
  /\ new[r].ents \in Seq(Ent) /\ Len(new[r].ents) = Len(V[P_ROOT].ents) - cut
  /\ \A j \in 1 .. Len(V[P_ROOT].ents) - cut : new[r].ents[j] = V[P_ROOT].ents[cut + j]
  /\ \A y \in PageNo : y \notin {P_ROOT, l, r} => new[y] = V[y]

\* The root has no siblings and all keys.
LEMMA RootAlone ==
  ASSUME NEW V, NEW R, NEW lv, NEW lo, NEW hi, NEW over, TreeOK(V, R, lv, lo, hi, over)
  PROVE  /\ V[P_ROOT].prev = P_INVALID /\ V[P_ROOT].next = P_INVALID
         /\ V \in [PageNo -> Page] /\ R \subseteq PageNo /\ P_ROOT \in R /\ P_ROOT \in PageNo
         /\ lo[P_ROOT] = 0 /\ hi[P_ROOT] = MaxKey + 1 /\ lv[P_ROOT] \in Nat
         /\ \A y \in R : y # P_ROOT => lv[y] < lv[P_ROOT]
<1>1. /\ P_ROOT \in R /\ lo[P_ROOT] = 0 /\ hi[P_ROOT] = MaxKey + 1 /\ V \in [PageNo -> Page]
      /\ R \subseteq PageNo
      /\ \A y \in R : y # P_ROOT => lv[y] < lv[P_ROOT]
  BY DEF TreeOK, Typed, Spans
<1>2. \A y \in R : lv[y] \in Nat
  BY InTree
<1>3. /\ \/ V[P_ROOT].next = P_INVALID
         \/ V[P_ROOT].next \in R /\ lv[V[P_ROOT].next] = lv[P_ROOT] /\ lo[V[P_ROOT].next] = hi[P_ROOT]
      /\ \/ V[P_ROOT].prev = P_INVALID
         \/ V[P_ROOT].prev \in R /\ lv[V[P_ROOT].prev] = lv[P_ROOT] /\ hi[V[P_ROOT].prev] = lo[P_ROOT]
  BY <1>1 DEF TreeOK, Linked
<1>4. \A y \in R : lv[y] = lv[P_ROOT] => y = P_ROOT
  BY <1>1, <1>2
<1>5. V[P_ROOT].prev = P_INVALID /\ V[P_ROOT].next = P_INVALID
  <2>1. 0 # MaxKey + 1
    BY Numbers
  <2>2. QED
    BY <1>1, <1>3, <1>4, <2>1
<1>6. QED
  <2>1. P_ROOT \in PageNo
    BY <1>1
  <2>2. QED
    BY <1>1, <1>2, <1>5, <2>1

\* What bt_root and bt_broot leave on each page.
LEMMA RootPagesAre ==
  ASSUME NEW V, NEW R, NEW lv, NEW lo, NEW hi, NEW l, NEW r, NEW cut,
         RootAt(V, R, lv, lo, hi, l, r, cut), NEW new, new = RootPages(V, l, r, cut)
  PROVE  IsRootSplit(V, new, l, r, cut)
<1>1. /\ TreeOK(V, R, lv, lo, hi, P_ROOT)
      /\ l \in PageNo /\ l \notin R /\ r \in PageNo /\ r \notin R /\ l # r
      /\ cut \in Nat /\ cut # 0 /\ cut < Len(V[P_ROOT].ents)
  BY DEF RootAt
<1>2. V \in [PageNo -> Page] /\ P_ROOT \in R /\ P_ROOT \in PageNo /\ l # P_ROOT /\ r # P_ROOT
      /\ V[P_ROOT].prev = P_INVALID /\ V[P_ROOT].next = P_INVALID
  BY <1>1, RootAlone
<1>3. PICK s : s = V[P_ROOT].ents
  OBVIOUS
<1>4. PICK n : n = Len(s)
  OBVIOUS
<1>5. s \in Seq(Ent) /\ n \in Nat /\ cut < n /\ V[P_ROOT].leaf \in BOOLEAN /\ \A j \in 1 .. n : s[j].k \in 0 .. MaxKey
  BY <1>1, <1>2, <1>3, <1>4, InTree
<1>6. PICK a : a = SubSeq(s, 1, cut)
  OBVIOUS
<1>7. PICK b : b = SubSeq(s, cut + 1, n)
  OBVIOUS
<1>8. a \in Seq(Ent) /\ Len(a) = cut /\ \A j \in 1 .. cut : a[j] = s[j]
  <2>1. 1 \in 1 .. Len(s) + 1 /\ cut \in 0 .. Len(s) /\ 1 <= cut + 1 /\ cut + 1 - 1 = cut
    BY <1>1, <1>4, <1>5
  <2>2. /\ SubSeq(s, 1, cut) \in Seq(Ent) /\ Len(SubSeq(s, 1, cut)) = cut + 1 - 1
        /\ \A j \in 1 .. cut + 1 - 1 : SubSeq(s, 1, cut)[j] = s[1 + j - 1]
    BY <1>5, <2>1, Part
  <2>3. \A j \in 1 .. cut : 1 + j - 1 = j
    BY <1>1
  <2>4. QED
    BY <1>6, <2>1, <2>2, <2>3
<1>9. b \in Seq(Ent) /\ Len(b) = n - cut /\ \A j \in 1 .. n - cut : b[j] = s[cut + j]
  <2>1. cut + 1 \in 1 .. n + 1 /\ n \in 0 .. n /\ cut + 1 <= n + 1 /\ n + 1 - (cut + 1) = n - cut
    BY <1>1, <1>5
  <2>2. PICK m : m = cut + 1
    OBVIOUS
  <2>3. m \in 1 .. Len(s) + 1 /\ n \in 0 .. Len(s) /\ m <= n + 1
    BY <1>4, <2>1, <2>2
  <2>4. /\ SubSeq(s, m, n) \in Seq(Ent) /\ Len(SubSeq(s, m, n)) = n + 1 - m
        /\ \A j \in 1 .. n + 1 - m : SubSeq(s, m, n)[j] = s[m + j - 1]
    BY <1>5, <2>3, Part
  <2>5. \A j \in 1 .. n - cut : m + j - 1 = cut + j
    BY <1>1, <1>5, <2>2
  <2>6. QED
    BY <1>7, <2>1, <2>2, <2>4, <2>5
<1>10. PICK e1 : e1 = [k |-> 0, v |-> l]
  OBVIOUS
<1>11. PICK e2 : e2 = [k |-> s[cut + 1].k, v |-> r]
  OBVIOUS
<1>12. /\ new = [y \in PageNo |-> new[y]]
       /\ new[P_ROOT] = [leaf |-> FALSE, prev |-> P_INVALID, next |-> P_INVALID, ents |-> <<e1, e2>>]
       /\ new[l] = [leaf |-> V[P_ROOT].leaf, prev |-> P_INVALID, next |-> r, ents |-> a]
       /\ new[r] = [leaf |-> V[P_ROOT].leaf, prev |-> l, next |-> P_INVALID, ents |-> b]
       /\ \A y \in PageNo : y \notin {P_ROOT, l, r} => new[y] = V[y]
  BY <1>1, <1>2, <1>3, <1>4, <1>6, <1>7, <1>10, <1>11 DEF RootPages, Sibling
<1>13. /\ r \in 0 .. MaxPages - 1 /\ l \in 0 .. MaxPages - 1 /\ P_INVALID \in 0 .. MaxPages - 1
  BY <1>1, Numbers
<1>14. \A j \in 1 .. n : IF V[P_ROOT].leaf THEN s[j].k \in Key /\ s[j].v \in Data ELSE s[j].v \in PageNo
  BY <1>2, <1>3, <1>4, PageParts
<1>15. new[l] \in Page
  <2>1. \A j \in 1 .. Len(a) : IF V[P_ROOT].leaf THEN a[j].k \in Key /\ a[j].v \in Data ELSE a[j].v \in PageNo
    <3>1. \A j \in 1 .. cut : j \in 1 .. n
      BY <1>1, <1>5
    <3>2. QED
      BY <1>8, <1>14, <3>1
  <2>2. [leaf |-> V[P_ROOT].leaf, prev |-> P_INVALID, next |-> r, ents |-> a] \in Page
    BY <1>5, <1>8, <1>13, <2>1, PageMade
  <2>3. QED
    BY <1>12, <2>2
<1>16. new[r] \in Page
  <2>1. \A j \in 1 .. Len(b) : IF V[P_ROOT].leaf THEN b[j].k \in Key /\ b[j].v \in Data ELSE b[j].v \in PageNo
    <3>1. \A j \in 1 .. n - cut : cut + j \in 1 .. n
      BY <1>1, <1>5
    <3>2. QED
      BY <1>9, <1>14, <3>1
  <2>2. [leaf |-> V[P_ROOT].leaf, prev |-> l, next |-> P_INVALID, ents |-> b] \in Page
    BY <1>5, <1>9, <1>13, <2>1, PageMade
  <2>3. QED
    BY <1>12, <2>2
<1>17. e1.v = l /\ e2.v = r /\ e2.k = s[cut + 1].k /\ e1 \in Ent /\ e2 \in Ent
  <2>1. cut + 1 \in 1 .. n
    BY <1>1, <1>5
  <2>2. s[cut + 1].k \in 0 .. MaxKey /\ 0 \in 0 .. MaxKey
    BY <1>5, <2>1, Numbers
  <2>3. QED
    BY <1>1, <1>10, <1>11, <2>2 DEF Ent
<1>18. <<e1, e2>> \in Seq(Ent) /\ Len(<<e1, e2>>) = 2 /\ <<e1, e2>>[1] = e1 /\ <<e1, e2>>[2] = e2
  BY <1>17
<1>19. new[P_ROOT] \in Page
  <2>1. \A j \in 1 .. Len(<<e1, e2>>) : <<e1, e2>>[j].v \in PageNo
    <3>1. \A j \in 1 .. 2 : j = 1 \/ j = 2
      OBVIOUS
    <3>2. QED
      BY <1>1, <1>17, <1>18, <3>1
  <2>2. [leaf |-> FALSE, prev |-> P_INVALID, next |-> P_INVALID, ents |-> <<e1, e2>>] \in Page
    <3>1. e1 \in [k : 0 .. MaxKey, v : PageNo] /\ e2 \in [k : 0 .. MaxKey, v : PageNo]
      BY <1>1, <1>10, <1>11, <1>17 DEF Ent
    <3>2. <<e1, e2>> \in Seq([k : 0 .. MaxKey, v : PageNo])
      BY <3>1
    <3>3. QED
      BY <1>13, <3>2 DEF Page
  <2>3. QED
    BY <1>12, <2>2
<1>20. new \in [PageNo -> Page]
  <2>1. ASSUME NEW y \in PageNo PROVE new[y] \in Page
    BY <1>2, <1>12, <1>15, <1>16, <1>19
  <2>2. QED
    BY <1>12, <2>1
<1>21. /\ ~new[P_ROOT].leaf /\ new[P_ROOT].prev = P_INVALID /\ new[P_ROOT].next = P_INVALID
       /\ new[P_ROOT].ents = <<e1, e2>>
       /\ new[l].leaf = V[P_ROOT].leaf /\ new[l].prev = P_INVALID /\ new[l].next = r /\ new[l].ents = a
       /\ new[r].leaf = V[P_ROOT].leaf /\ new[r].prev = l /\ new[r].next = P_INVALID /\ new[r].ents = b
  BY <1>12
<1>22. /\ Len(new[P_ROOT].ents) = 2 /\ new[P_ROOT].ents[1].v = l /\ new[P_ROOT].ents[2].v = r
       /\ new[P_ROOT].ents[2].k = V[P_ROOT].ents[cut + 1].k
  <2>1. new[P_ROOT].ents[1] = e1 /\ new[P_ROOT].ents[2] = e2 /\ Len(new[P_ROOT].ents) = 2
    BY <1>18, <1>21
  <2>2. QED
    BY <1>3, <1>17, <2>1
<1>23. /\ new[l].ents \in Seq(Ent) /\ Len(new[l].ents) = cut /\ \A j \in 1 .. cut : new[l].ents[j] = V[P_ROOT].ents[j]
  BY <1>3, <1>8, <1>21
<1>24. /\ new[r].ents \in Seq(Ent) /\ Len(new[r].ents) = Len(V[P_ROOT].ents) - cut
       /\ \A j \in 1 .. Len(V[P_ROOT].ents) - cut : new[r].ents[j] = V[P_ROOT].ents[cut + j]
  BY <1>3, <1>4, <1>9, <1>21
<1>25. QED
  BY <1>2, <1>12, <1>20, <1>21, <1>22, <1>23, <1>24 DEF IsRootSplit

\* The tree is one level higher after the split of the root.
LEMMA RootTree ==
  ASSUME NEW V, NEW R, NEW lv, NEW lo, NEW hi, NEW l, NEW r, NEW cut,
         RootAt(V, R, lv, lo, hi, l, r, cut), NEW x, x = V[P_ROOT].ents[cut + 1].k
  PROVE  TreeOK(RootPages(V, l, r, cut), R \cup {l, r},
                [lv EXCEPT ![l] = lv[P_ROOT], ![r] = lv[P_ROOT], ![P_ROOT] = lv[P_ROOT] + 1],
                [lo EXCEPT ![l] = 0, ![r] = x], [hi EXCEPT ![l] = x, ![r] = MaxKey + 1], P_INVALID)
<1>1. PICK new : new = RootPages(V, l, r, cut)
  OBVIOUS
<1>2. PICK S : S = R \cup {l, r}
  OBVIOUS
<1>3. PICK lv2 : lv2 = [lv EXCEPT ![l] = lv[P_ROOT], ![r] = lv[P_ROOT], ![P_ROOT] = lv[P_ROOT] + 1]
  OBVIOUS
<1>4. PICK lo2 : lo2 = [lo EXCEPT ![l] = 0, ![r] = x]
  OBVIOUS
<1>5. PICK hi2 : hi2 = [hi EXCEPT ![l] = x, ![r] = MaxKey + 1]
  OBVIOUS
<1>6. PICK h : h = lv[P_ROOT]
  OBVIOUS
<1>7. /\ TreeOK(V, R, lv, lo, hi, P_ROOT)
      /\ l \in PageNo /\ l \notin R /\ r \in PageNo /\ r \notin R /\ l # r
      /\ cut \in Nat /\ cut # 0 /\ cut < Len(V[P_ROOT].ents)
  BY DEF RootAt
<1>8. /\ V \in [PageNo -> Page] /\ R \subseteq PageNo /\ P_ROOT \in R /\ P_ROOT \in PageNo
      /\ V[P_ROOT].prev = P_INVALID /\ V[P_ROOT].next = P_INVALID
      /\ lo[P_ROOT] = 0 /\ hi[P_ROOT] = MaxKey + 1 /\ h \in Nat
      /\ (\A y \in R : y # P_ROOT => lv[y] < h) /\ l # P_ROOT /\ r # P_ROOT
  <2>1. /\ V \in [PageNo -> Page] /\ R \subseteq PageNo /\ P_ROOT \in R /\ P_ROOT \in PageNo
        /\ V[P_ROOT].prev = P_INVALID /\ V[P_ROOT].next = P_INVALID
        /\ lo[P_ROOT] = 0 /\ hi[P_ROOT] = MaxKey + 1 /\ lv[P_ROOT] \in Nat
        /\ (\A y \in R : y # P_ROOT => lv[y] < lv[P_ROOT])
    BY <1>7, RootAlone
  <2>2. QED
    BY <1>6, <1>7, <2>1
<1>9. lv \in [PageNo -> Nat] /\ lo \in [PageNo -> Nat] /\ hi \in [PageNo -> Nat]
  BY <1>7 DEF TreeOK, Typed
<1>10. \A y \in R : y \in PageNo /\ lv[y] \in Nat /\ lo[y] \in Nat /\ hi[y] \in Nat /\ lo[y] < hi[y]
  BY <1>7, InTree
<1>11. PICK N : N = Len(V[P_ROOT].ents)
  OBVIOUS
<1>12. /\ N \in Nat /\ cut < N /\ cut \in 1 .. N /\ cut + 1 \in 1 .. N /\ cut + 1 # 1
       /\ \A j \in 1 .. N : V[P_ROOT].ents[j].k \in Nat
  <2>1. N \in Nat /\ \A j \in 1 .. N : V[P_ROOT].ents[j].k \in Nat
    BY <1>7, <1>8, <1>11, InTree
  <2>2. QED
    BY <1>7, <1>11, <2>1
<1>13. \A j, k \in 1 .. N : j < k /\ (h = 0 \/ j # 1) => V[P_ROOT].ents[j].k < V[P_ROOT].ents[k].k
  BY <1>6, <1>7, <1>8, <1>11 DEF TreeOK, Ordered
<1>14. \A j \in 1 .. N : j # 1 => 0 < V[P_ROOT].ents[j].k /\ V[P_ROOT].ents[j].k < MaxKey + 1
  BY <1>7, <1>8, <1>11 DEF TreeOK, Within
<1>15. \A j \in 1 .. N : h = 0 => 0 <= V[P_ROOT].ents[j].k /\ V[P_ROOT].ents[j].k < MaxKey + 1
  BY <1>6, <1>7, <1>8, <1>11 DEF TreeOK, Within
<1>16. x \in Nat /\ 0 < x /\ x < MaxKey + 1
  BY <1>12, <1>14
<1>17. /\ lv2 \in [PageNo -> Nat] /\ lo2 \in [PageNo -> Nat] /\ hi2 \in [PageNo -> Nat]
       /\ lv2[l] = h /\ lv2[r] = h /\ lv2[P_ROOT] = h + 1 /\ \A y \in R : y # P_ROOT => lv2[y] = lv[y]
       /\ lo2[l] = 0 /\ lo2[r] = x /\ \A y \in R : lo2[y] = lo[y]
       /\ hi2[l] = x /\ hi2[r] = MaxKey + 1 /\ \A y \in R : hi2[y] = hi[y]
  <2>1. h + 1 \in Nat /\ MaxKey + 1 \in Nat
    BY <1>8, Numbers
  <2>2. /\ lv2 \in [PageNo -> Nat]
        /\ lv2[l] = h /\ lv2[r] = h /\ lv2[P_ROOT] = h + 1 /\ \A y \in R : y # P_ROOT => lv2[y] = lv[y]
    BY <1>3, <1>6, <1>7, <1>8, <1>9, <1>10, <2>1
  <2>3. lo2 \in [PageNo -> Nat] /\ lo2[l] = 0 /\ lo2[r] = x /\ \A y \in R : lo2[y] = lo[y]
    BY <1>4, <1>7, <1>8, <1>9, <1>16
  <2>4. hi2 \in [PageNo -> Nat] /\ hi2[l] = x /\ hi2[r] = MaxKey + 1 /\ \A y \in R : hi2[y] = hi[y]
    BY <1>5, <1>7, <1>8, <1>9, <1>16, <2>1
  <2>5. QED
    BY <2>2, <2>3, <2>4
<1>18. \A y \in S : y = P_ROOT \/ y = l \/ y = r \/ (y \in R /\ y \notin {P_ROOT, l, r})
  BY <1>2, <1>7
<1>19. IsRootSplit(V, new, l, r, cut)
  BY <1>1, RootPagesAre
<1>20. /\ new \in [PageNo -> Page]
       /\ ~new[P_ROOT].leaf /\ new[P_ROOT].prev = P_INVALID /\ new[P_ROOT].next = P_INVALID
       /\ Len(new[P_ROOT].ents) = 2 /\ new[P_ROOT].ents[1].v = l /\ new[P_ROOT].ents[2].v = r
       /\ new[P_ROOT].ents[2].k = x
  BY <1>8, <1>19 DEF IsRootSplit
<1>21. /\ new[l].leaf = V[P_ROOT].leaf /\ new[l].prev = P_INVALID /\ new[l].next = r
       /\ Len(new[l].ents) = cut /\ \A j \in 1 .. cut : j \in 1 .. N /\ new[l].ents[j] = V[P_ROOT].ents[j]
  <2>1. \A j \in 1 .. cut : j \in 1 .. N
    BY <1>7, <1>12
  <2>2. QED
    BY <1>19, <2>1 DEF IsRootSplit
<1>22. /\ new[r].leaf = V[P_ROOT].leaf /\ new[r].prev = l /\ new[r].next = P_INVALID
       /\ Len(new[r].ents) = N - cut
       /\ \A j \in 1 .. N - cut : cut + j \in 1 .. N /\ cut + j # 1 /\ new[r].ents[j] = V[P_ROOT].ents[cut + j]
  <2>1. \A j \in 1 .. N - cut : cut + j \in 1 .. N /\ cut + j # 1
    BY <1>7, <1>12
  <2>2. QED
    BY <1>11, <1>19, <2>1 DEF IsRootSplit
<1>23. \A y \in PageNo : y \notin {P_ROOT, l, r} => new[y] = V[y]
  BY <1>19 DEF IsRootSplit
<1>24. Typed(new, S, lv2, lo2, hi2)
  BY <1>2, <1>7, <1>8, <1>17, <1>20 DEF Typed
<1>25. Spans(S, lv2, lo2, hi2)
  <2>1. lo2[P_ROOT] = 0 /\ hi2[P_ROOT] = MaxKey + 1
    BY <1>8, <1>17
  <2>2. ASSUME NEW y \in S PROVE lo2[y] < hi2[y] /\ (y # P_ROOT => lv2[y] < lv2[P_ROOT])
    <3>1. CASE y = P_ROOT
      BY <2>1, <3>1, Numbers
    <3>2. CASE y = l
      BY <1>8, <1>16, <1>17, <3>2
    <3>3. CASE y = r
      BY <1>8, <1>16, <1>17, <3>3
    <3>4. CASE y \in R /\ y # P_ROOT
      <4>1. lo2[y] = lo[y] /\ hi2[y] = hi[y] /\ lv2[y] = lv[y] /\ lv[y] < h /\ lv[y] \in Nat /\ lo[y] < hi[y]
        BY <1>8, <1>10, <1>17, <3>4
      <4>2. QED
        BY <1>8, <1>17, <4>1
    <3>5. QED
      BY <1>18, <3>1, <3>2, <3>3, <3>4
  <2>3. QED
    BY <2>1, <2>2 DEF Spans
<1>26. Kinds(new, S, lv2)
  <2>1. (\A y \in R : V[y].leaf <=> lv[y] = 0) /\ (\A y \in PageNo \ R : V[y].leaf)
    BY <1>7 DEF TreeOK, Kinds
  <2>2. ASSUME NEW y \in S PROVE new[y].leaf <=> lv2[y] = 0
    <3>1. CASE y = P_ROOT
      BY <1>8, <1>17, <1>20, <3>1
    <3>2. CASE y \in {l, r}
      <4>1. new[y].leaf = V[P_ROOT].leaf /\ lv2[y] = h
        BY <1>17, <1>21, <1>22, <3>2
      <4>2. QED
        BY <1>6, <1>8, <2>1, <4>1
    <3>3. CASE y \in R /\ y \notin {P_ROOT, l, r}
      <4>1. new[y] = V[y] /\ lv2[y] = lv[y]
        BY <1>8, <1>17, <1>23, <3>3
      <4>2. QED
        BY <2>1, <3>3, <4>1
    <3>4. QED
      BY <1>18, <3>1, <3>2, <3>3
  <2>3. ASSUME NEW y \in PageNo \ S PROVE new[y].leaf
    <3>1. y \in PageNo \ R /\ y \notin {P_ROOT, l, r}
      BY <1>2, <1>8
    <3>2. QED
      BY <1>23, <2>1, <3>1
  <2>4. QED
    BY <2>2, <2>3 DEF Kinds
<1>27. Apart(S, lv2, lo2, hi2)
  <2>1. ASSUME NEW y \in R, y # P_ROOT PROVE lv2[y] = lv[y] /\ lv2[y] < h /\ lv2[y] \in Nat
    BY <1>8, <1>10, <1>17, <2>1
  <2>2. ASSUME NEW y \in S, NEW z \in S, y # z, lv2[y] = lv2[z]
        PROVE  hi2[y] <= lo2[z] \/ hi2[z] <= lo2[y]
    <3>1. CASE y \in {P_ROOT, l, r} \/ z \in {P_ROOT, l, r}
      <4>1. (y = l /\ z = r) \/ (y = r /\ z = l)
        BY <1>8, <1>17, <1>18, <2>1, <2>2, <3>1
      <4>2. hi2[l] <= lo2[r]
        BY <1>16, <1>17
      <4>3. QED
        BY <4>1, <4>2
    <3>2. CASE y \notin {P_ROOT, l, r} /\ z \notin {P_ROOT, l, r}
      <4>1. y \in R /\ z \in R /\ lv[y] = lv[z] /\ hi2[y] = hi[y] /\ hi2[z] = hi[z] /\ lo2[y] = lo[y] /\ lo2[z] = lo[z]
        BY <1>17, <1>18, <2>2, <3>2
      <4>2. QED
        BY <1>7, <2>2, <4>1 DEF TreeOK, Apart
    <3>3. QED
      BY <3>1, <3>2
  <2>3. QED
    BY <2>2 DEF Apart
<1>28. Linked(new, S, lv2, lo2, hi2)
  <2>1. \A y \in R :
          /\ \/ V[y].next = P_INVALID /\ hi[y] = MaxKey + 1
             \/ V[y].next \in R /\ lv[V[y].next] = lv[y] /\ lo[V[y].next] = hi[y]
          /\ \/ V[y].prev = P_INVALID /\ lo[y] = 0
             \/ V[y].prev \in R /\ lv[V[y].prev] = lv[y] /\ hi[V[y].prev] = lo[y]
    BY <1>7 DEF TreeOK, Linked
  <2>2. ASSUME NEW y \in S
        PROVE  /\ \/ new[y].next = P_INVALID /\ hi2[y] = MaxKey + 1
                  \/ new[y].next \in S /\ lv2[new[y].next] = lv2[y] /\ lo2[new[y].next] = hi2[y]
               /\ \/ new[y].prev = P_INVALID /\ lo2[y] = 0
                  \/ new[y].prev \in S /\ lv2[new[y].prev] = lv2[y] /\ hi2[new[y].prev] = lo2[y]
    <3>1. CASE y = P_ROOT
      BY <1>8, <1>17, <1>20, <3>1
    <3>2. CASE y = l
      BY <1>2, <1>17, <1>21, <3>2
    <3>3. CASE y = r
      BY <1>2, <1>17, <1>22, <3>3
    <3>4. CASE y \in R /\ y \notin {P_ROOT, l, r}
      <4>1. new[y] = V[y] /\ lv2[y] = lv[y] /\ hi2[y] = hi[y] /\ lo2[y] = lo[y] /\ lv[y] < h
        BY <1>8, <1>17, <1>23, <3>4
      <4>2. ASSUME NEW z \in R, lv[z] = lv[y]
            PROVE  z \in S /\ lv2[z] = lv2[y] /\ lo2[z] = lo[z] /\ hi2[z] = hi[z]
        <5>1. z # P_ROOT
          BY <1>6, <1>8, <1>10, <3>4, <4>1, <4>2
        <5>2. QED
          BY <1>2, <1>17, <4>1, <4>2, <5>1
      <4>3. QED
        BY <2>1, <3>4, <4>1, <4>2
    <3>5. QED
      BY <1>18, <3>1, <3>2, <3>3, <3>4
  <2>3. QED
    BY <2>2 DEF Linked
<1>29. Ordered(new, S, lv2)
  <2>1. ASSUME NEW y \in S, NEW j \in 1 .. Len(new[y].ents), NEW k \in 1 .. Len(new[y].ents),
               j < k, lv2[y] = 0 \/ j # 1
        PROVE  new[y].ents[j].k < new[y].ents[k].k
    <3>1. CASE y = P_ROOT
      <4>1. j \in 1 .. 2 /\ k \in 1 .. 2
        BY <1>20, <2>1, <3>1
      <4>3. j # 1
        BY <1>8, <1>17, <2>1, <3>1
      <4>2. QED
        BY <2>1, <4>1, <4>3
    <3>2. CASE y = l
      BY <1>13, <1>17, <1>21, <2>1, <3>2
    <3>3. CASE y = r
      <4>1. j \in 1 .. N - cut /\ k \in 1 .. N - cut
        BY <1>22, <2>1, <3>3
      <4>2. cut + j < cut + k
        BY <1>7, <1>12, <2>1, <4>1
      <4>3. QED
        BY <1>13, <1>22, <3>3, <4>1, <4>2
    <3>4. CASE y \in R /\ y \notin {P_ROOT, l, r}
      <4>1. new[y] = V[y] /\ lv2[y] = lv[y]
        BY <1>8, <1>17, <1>23, <3>4
      <4>2. QED
        BY <1>7, <2>1, <3>4, <4>1 DEF TreeOK, Ordered
    <3>5. QED
      BY <1>18, <3>1, <3>2, <3>3, <3>4
  <2>2. QED
    BY <2>1 DEF Ordered
<1>30. Within(new, S, lv2, lo2, hi2)
  <2>1. ASSUME NEW y \in S, NEW j \in 1 .. Len(new[y].ents)
        PROVE  /\ lv2[y] = 0 => lo2[y] <= new[y].ents[j].k /\ new[y].ents[j].k < hi2[y]
               /\ j # 1 => lo2[y] < new[y].ents[j].k /\ new[y].ents[j].k < hi2[y]
    <3>1. CASE y = P_ROOT
      <4>0. j \in 1 .. 2
        BY <1>20, <2>1, <3>1
      <4>1. j \in 1 .. 2 /\ lv2[y] # 0 /\ lo2[y] = 0 /\ hi2[y] = MaxKey + 1
        BY <1>8, <1>17, <3>1, <4>0
      <4>2. j # 1 => j = 2
        BY <4>1
      <4>3. QED
        BY <1>16, <1>20, <3>1, <4>1, <4>2
    <3>2. CASE y = l
      <4>1. j \in 1 .. cut /\ j \in 1 .. N /\ new[y].ents[j] = V[P_ROOT].ents[j] /\ V[P_ROOT].ents[j].k \in Nat
        BY <1>12, <1>21, <2>1, <3>2
      <4>2. lo2[y] = 0 /\ hi2[y] = x /\ lv2[y] = h
        BY <1>17, <3>2
      <4>3. j < cut + 1
        BY <1>7, <4>1
      <4>4. (h = 0 \/ j # 1) => V[P_ROOT].ents[j].k < x
        BY <1>12, <1>13, <4>1, <4>3
      <4>5. QED
        BY <1>14, <1>15, <4>1, <4>2, <4>4
    <3>3. CASE y = r
      <4>1. j \in 1 .. N - cut
        BY <1>22, <2>1, <3>3
      <4>2. /\ new[y].ents[j] = V[P_ROOT].ents[cut + j] /\ cut + j \in 1 .. N /\ cut + j # 1
            /\ V[P_ROOT].ents[cut + j].k \in Nat /\ V[P_ROOT].ents[cut + j].k < MaxKey + 1
        BY <1>12, <1>14, <1>22, <3>3, <4>1
      <4>3. lo2[y] = x /\ hi2[y] = MaxKey + 1 /\ lv2[y] = h
        BY <1>17, <3>3
      <4>4. CASE j = 1
        BY <1>16, <4>2, <4>3, <4>4
      <4>5. CASE j # 1
        <5>1. cut + 1 < cut + j
          BY <1>7, <1>12, <4>1, <4>5
        <5>2. x < V[P_ROOT].ents[cut + j].k
          BY <1>12, <1>13, <4>2, <5>1
        <5>3. QED
          BY <1>16, <4>2, <4>3, <5>2
      <4>6. QED
        BY <4>4, <4>5
    <3>4. CASE y \in R /\ y \notin {P_ROOT, l, r}
      <4>1. new[y] = V[y] /\ lv2[y] = lv[y] /\ lo2[y] = lo[y] /\ hi2[y] = hi[y]
        BY <1>8, <1>17, <1>23, <3>4
      <4>2. QED
        BY <1>7, <2>1, <3>4, <4>1 DEF TreeOK, Within
    <3>5. QED
      BY <1>18, <3>1, <3>2, <3>3, <3>4
  <2>2. QED
    BY <2>1 DEF Within
<1>31. Filled(new, S, lv2)
  <2>1. ASSUME NEW y \in S PROVE Len(new[y].ents) # 0 \/ (y = P_ROOT /\ lv2[y] = 0)
    <3>1. CASE y = P_ROOT
      BY <1>20, <3>1
    <3>2. CASE y = l
      BY <1>7, <1>21, <3>2
    <3>3. CASE y = r
      BY <1>7, <1>12, <1>22, <3>3
    <3>4. CASE y \in R /\ y \notin {P_ROOT, l, r}
      <4>1. new[y] = V[y] /\ lv2[y] = lv[y]
        BY <1>8, <1>17, <1>23, <3>4
      <4>2. QED
        BY <1>7, <3>4, <4>1 DEF TreeOK, Filled
    <3>5. QED
      BY <1>18, <3>1, <3>2, <3>3, <3>4
  <2>2. QED
    BY <2>1 DEF Filled
<1>32. Fitting(new, S, P_INVALID)
  <2>1. ASSUME NEW y \in S PROVE Fits(Sizes(new[y].leaf, Len(new[y].ents)))
    <3>0. Fits(Sizes(V[P_ROOT].leaf, cut)) /\ Fits(Sizes(V[P_ROOT].leaf, N - cut))
      BY <1>11 DEF RootAt
    <3>1. CASE y = P_ROOT
      <4>1. new[y].leaf \in BOOLEAN /\ Len(new[y].ents) \in 0 .. 2
        <5>1. new[y] \in Page
          BY <1>8, <1>20, <3>1
        <5>2. QED
          BY <1>20, <3>1, <5>1, PageParts
      <4>2. QED
        BY <4>1, FitsTwo
    <3>2. CASE y = l
      BY <1>21, <3>0, <3>2
    <3>3. CASE y = r
      BY <1>22, <3>0, <3>3
    <3>4. CASE y \in R /\ y \notin {P_ROOT, l, r}
      <4>1. new[y] = V[y]
        BY <1>8, <1>23, <3>4
      <4>2. QED
        BY <1>7, <3>4, <4>1 DEF TreeOK, Fitting
    <3>5. QED
      BY <1>18, <3>1, <3>2, <3>3, <3>4
  <2>2. QED
    BY <2>1 DEF Fitting
<1>33. h # 0 => \A j \in 1 .. N :
         /\ V[P_ROOT].ents[j].v \in R /\ V[P_ROOT].ents[j].v # P_ROOT
         /\ lv[V[P_ROOT].ents[j].v] = h - 1
         /\ lo[V[P_ROOT].ents[j].v] = IF j = 1 THEN 0 ELSE V[P_ROOT].ents[j].k
         /\ hi[V[P_ROOT].ents[j].v] = IF j = N THEN MaxKey + 1 ELSE V[P_ROOT].ents[j + 1].k
  <2>1. h # 0 => \A j \in 1 .. N :
         /\ V[P_ROOT].ents[j].v \in R
         /\ lv[V[P_ROOT].ents[j].v] = h - 1
         /\ lo[V[P_ROOT].ents[j].v] = IF j = 1 THEN lo[P_ROOT] ELSE V[P_ROOT].ents[j].k
         /\ hi[V[P_ROOT].ents[j].v] = IF j = N THEN hi[P_ROOT] ELSE V[P_ROOT].ents[j + 1].k
    BY <1>6, <1>7, <1>8, <1>11 DEF TreeOK, Down
  <2>2. h # h - 1
    BY <1>8
  <2>3. QED
    BY <1>6, <1>8, <2>1, <2>2
<1>34. Down(new, S, lv2, lo2, hi2)
  <2>1. ASSUME NEW y \in S, lv2[y] # 0, NEW j \in 1 .. Len(new[y].ents)
        PROVE  /\ new[y].ents[j].v \in S
               /\ lv2[new[y].ents[j].v] = lv2[y] - 1
               /\ lo2[new[y].ents[j].v] = IF j = 1 THEN lo2[y] ELSE new[y].ents[j].k
               /\ hi2[new[y].ents[j].v] = IF j = Len(new[y].ents) THEN hi2[y] ELSE new[y].ents[j + 1].k
    <3>1. CASE y = P_ROOT
      <4>1. lo2[y] = 0 /\ hi2[y] = MaxKey + 1 /\ lv2[y] - 1 = h /\ Len(new[y].ents) = 2
        BY <1>8, <1>17, <1>20, <3>1
      <4>2. j = 1 \/ j = 2
        BY <2>1, <4>1
      <4>3. CASE j = 1
        BY <1>2, <1>17, <1>20, <3>1, <4>1, <4>3
      <4>4. CASE j = 2
        BY <1>2, <1>17, <1>20, <3>1, <4>1, <4>4
      <4>5. QED
        BY <4>2, <4>3, <4>4
    <3>2. CASE y = l
      <4>1. h # 0 /\ j \in 1 .. cut /\ Len(new[y].ents) = cut /\ lo2[y] = 0 /\ hi2[y] = x /\ lv2[y] = h
        BY <1>17, <1>21, <2>1, <3>2
      <4>2. PICK c : c = V[P_ROOT].ents[j].v
        OBVIOUS
      <4>3. /\ c \in R /\ c # P_ROOT /\ lv[c] = h - 1 /\ lo[c] = IF j = 1 THEN 0 ELSE V[P_ROOT].ents[j].k
            /\ hi[c] = IF j = N THEN MaxKey + 1 ELSE V[P_ROOT].ents[j + 1].k
            /\ new[y].ents[j] = V[P_ROOT].ents[j]
        BY <1>21, <1>33, <3>2, <4>1, <4>2
      <4>4. hi[c] = V[P_ROOT].ents[j + 1].k
        BY <1>12, <4>1, <4>3
      <4>5. c \in S /\ lv2[c] = lv[c] /\ lo2[c] = lo[c] /\ hi2[c] = hi[c]
        BY <1>2, <1>17, <4>3
      <4>6. CASE j = cut
        <5>1. hi[c] = x
          BY <4>4, <4>6
        <5>2. QED
          BY <4>1, <4>2, <4>3, <4>5, <4>6, <5>1
      <4>7. CASE j # cut
        <5>1. j + 1 \in 1 .. cut
          BY <1>7, <4>1, <4>7
        <5>2. new[y].ents[j + 1] = V[P_ROOT].ents[j + 1]
          BY <1>21, <3>2, <5>1
        <5>3. QED
          BY <4>1, <4>2, <4>3, <4>4, <4>5, <4>7, <5>2
      <4>8. QED
        BY <4>6, <4>7
    <3>3. CASE y = r
      <4>1. h # 0 /\ j \in 1 .. N - cut /\ Len(new[y].ents) = N - cut /\ lo2[y] = x /\ hi2[y] = MaxKey + 1 /\ lv2[y] = h
        BY <1>17, <1>22, <2>1, <3>3
      <4>2. PICK c : c = V[P_ROOT].ents[cut + j].v
        OBVIOUS
      <4>3. cut + j \in 1 .. N /\ cut + j # 1 /\ new[y].ents[j] = V[P_ROOT].ents[cut + j]
        BY <1>22, <3>3, <4>1
      <4>4. /\ c \in R /\ c # P_ROOT /\ lv[c] = h - 1 /\ lo[c] = V[P_ROOT].ents[cut + j].k
            /\ hi[c] = IF cut + j = N THEN MaxKey + 1 ELSE V[P_ROOT].ents[cut + j + 1].k
        BY <1>33, <4>1, <4>2, <4>3
      <4>5. lo[c] = IF j = 1 THEN x ELSE V[P_ROOT].ents[cut + j].k
        BY <4>4
      <4>6. hi[c] = IF j = N - cut THEN MaxKey + 1 ELSE new[y].ents[j + 1].k
        <5>1. CASE j = N - cut
          <6>1. cut + j = N
            BY <1>7, <1>12, <5>1
          <6>2. QED
            BY <4>4, <5>1, <6>1
        <5>2. CASE j # N - cut
          <6>1. j + 1 \in 1 .. N - cut /\ cut + j # N /\ cut + (j + 1) = cut + j + 1
            BY <1>7, <1>12, <4>1, <5>2
          <6>2. new[r].ents[j + 1] = V[P_ROOT].ents[cut + j + 1]
            BY <1>22, <6>1
          <6>3. QED
            BY <3>3, <4>4, <5>2, <6>1, <6>2
        <5>3. QED
          BY <5>1, <5>2
      <4>7. c \in S /\ lv2[c] = lv[c] /\ lo2[c] = lo[c] /\ hi2[c] = hi[c]
        BY <1>2, <1>17, <4>4
      <4>8. QED
        BY <4>1, <4>2, <4>3, <4>4, <4>5, <4>6, <4>7
    <3>4. CASE y \in R /\ y \notin {P_ROOT, l, r}
      <4>1. new[y] = V[y] /\ lv2[y] = lv[y] /\ lo2[y] = lo[y] /\ hi2[y] = hi[y]
        BY <1>8, <1>17, <1>23, <3>4
      <4>2. j \in 1 .. Len(V[y].ents) /\ lv[y] # 0
        BY <2>1, <4>1
      <4>3. /\ V[y].ents[j].v \in R
            /\ lv[V[y].ents[j].v] = lv[y] - 1
            /\ lo[V[y].ents[j].v] = IF j = 1 THEN lo[y] ELSE V[y].ents[j].k
            /\ hi[V[y].ents[j].v] = IF j = Len(V[y].ents) THEN hi[y] ELSE V[y].ents[j + 1].k
        BY <1>7, <3>4, <4>2 DEF TreeOK, Down
      <4>4. V[y].ents[j].v # P_ROOT
        BY <1>7, <3>4, <4>2, ChildWithin
      <4>5. QED
        BY <1>2, <1>17, <4>1, <4>3, <4>4
    <3>5. QED
      BY <1>18, <3>1, <3>2, <3>3, <3>4
  <2>2. QED
    BY <2>1 DEF Down
<1>35. Up(new, S, lv2)
  <2>1. ASSUME NEW c \in S, c # P_ROOT
        PROVE  \E y \in S : lv2[y] = lv2[c] + 1 /\ \E j \in 1 .. Len(new[y].ents) : new[y].ents[j].v = c
    <3>1. CASE c \in {l, r}
      <4>1. P_ROOT \in S /\ lv2[P_ROOT] = lv2[c] + 1
        BY <1>2, <1>8, <1>17, <3>1
      <4>2. \E j \in 1 .. Len(new[P_ROOT].ents) : new[P_ROOT].ents[j].v = c
        BY <1>20, <3>1
      <4>3. QED
        BY <4>1, <4>2
    <3>2. CASE c \notin {l, r}
      <4>1. c \in R /\ lv2[c] = lv[c]
        BY <1>17, <1>18, <2>1, <3>2
      <4>2. PICK y \in R : lv[y] = lv[c] + 1 /\ \E j \in 1 .. Len(V[y].ents) : V[y].ents[j].v = c
        BY <1>7, <2>1, <4>1 DEF TreeOK, Up
      <4>3. PICK j \in 1 .. Len(V[y].ents) : V[y].ents[j].v = c
        BY <4>2
      <4>4. CASE y = P_ROOT
        <5>0. j \in 1 .. N /\ h = lv2[c] + 1
          BY <1>6, <1>11, <4>1, <4>2, <4>3, <4>4
        <5>1. CASE j <= cut
          <6>1. j \in 1 .. cut
            BY <1>7, <5>0, <5>1
          <6>2. j \in 1 .. Len(new[l].ents) /\ new[l].ents[j].v = c /\ l \in S /\ lv2[l] = lv2[c] + 1
            BY <1>2, <1>17, <1>21, <4>3, <4>4, <5>0, <6>1
          <6>3. QED
            BY <6>2
        <5>2. CASE j > cut
          <6>1. j - cut \in 1 .. N - cut /\ cut + (j - cut) = j
            BY <1>7, <1>12, <5>0, <5>2
          <6>2. new[r].ents[j - cut] = V[P_ROOT].ents[j] /\ j - cut \in 1 .. Len(new[r].ents)
            BY <1>22, <6>1
          <6>3. r \in S /\ lv2[r] = lv2[c] + 1
            BY <1>2, <1>17, <5>0
          <6>4. QED
            BY <4>3, <4>4, <6>2, <6>3
        <5>3. QED
          BY <1>7, <5>0, <5>1, <5>2
      <4>5. CASE y # P_ROOT
        <5>1. new[y] = V[y] /\ y \in S /\ lv2[y] = lv[y]
          BY <1>2, <1>7, <1>8, <1>17, <1>23, <4>5
        <5>2. QED
          BY <4>1, <4>2, <4>3, <5>1
      <4>6. QED
        BY <4>4, <4>5
    <3>3. QED
      BY <3>1, <3>2
  <2>2. QED
    BY <2>1 DEF Up
<1>36. TreeOK(new, S, lv2, lo2, hi2, P_INVALID)
  BY <1>24, <1>25, <1>26, <1>27, <1>28, <1>29, <1>30, <1>31, <1>32, <1>34, <1>35 DEF TreeOK
<1>37. QED
  BY <1>1, <1>2, <1>3, <1>4, <1>5, <1>36

-----------------------------------------------------------------------------
(* A split of the code.  The page that a record is to go to is too full.      *)

\* Two sequences with the same elements are one.
LEMMA SameSeq ==
  ASSUME NEW S, NEW a \in Seq(S), NEW b \in Seq(S), Len(a) = Len(b),
         \A i \in 1 .. Len(a) : a[i] = b[i]
  PROVE  a = b
<1>1. Len(a) \in Nat /\ DOMAIN a = 1 .. Len(a) /\ DOMAIN b = 1 .. Len(b)
  OBVIOUS
<1>2. a = [i \in 1 .. Len(a) |-> a[i]] /\ b = [i \in 1 .. Len(b) |-> b[i]]
  BY <1>1
<1>3. QED
  BY <1>2

\* Every record of the leaves of one tree is on some leaf of another.
Records(new, S, lv2, page, R, lv) ==
  \A q \in S : lv2[q] = 0 => \A j \in 1 .. Len(new[q].ents) :
    \E p \in R : lv[p] = 0 /\ \E i \in 1 .. Len(page[p].ents) : page[p].ents[i] = new[q].ents[j]

\* The leaves hold the same records when each record is on one of them still.
LEMMA HeldMoved ==
  ASSUME NEW page, NEW R, NEW lv, NEW cont, Held(page, R, lv, cont), NEW new, NEW S, NEW lv2,
         Records(new, S, lv2, page, R, lv), Records(page, R, lv, new, S, lv2)
  PROVE  Held(new, S, lv2, cont)
<1>1. ASSUME NEW q \in S, lv2[q] = 0, NEW j \in 1 .. Len(new[q].ents)
      PROVE  cont[new[q].ents[j].k] = new[q].ents[j].v
  <2>1. PICK p \in R : lv[p] = 0 /\ \E i \in 1 .. Len(page[p].ents) : page[p].ents[i] = new[q].ents[j]
    BY <1>1 DEF Records
  <2>2. PICK i \in 1 .. Len(page[p].ents) : page[p].ents[i] = new[q].ents[j]
    BY <2>1
  <2>3. cont[page[p].ents[i].k] = page[p].ents[i].v
    BY <2>1 DEF Held
  <2>4. QED
    BY <2>2, <2>3
<1>2. ASSUME NEW k \in Key, cont[k] # None
      PROVE  \E q \in S : lv2[q] = 0 /\ \E j \in 1 .. Len(new[q].ents) : new[q].ents[j].k = k
  <2>1. PICK p \in R : lv[p] = 0 /\ \E i \in 1 .. Len(page[p].ents) : page[p].ents[i].k = k
    BY <1>2 DEF Held
  <2>2. PICK i \in 1 .. Len(page[p].ents) : page[p].ents[i].k = k
    BY <2>1
  <2>3. PICK q \in S : lv2[q] = 0 /\ \E j \in 1 .. Len(new[q].ents) : new[q].ents[j] = page[p].ents[i]
    BY <2>1 DEF Records
  <2>4. QED
    BY <2>2, <2>3
<1>3. QED
  BY <1>1, <1>2 DEF Held

\* A split of a page below the root moves records and loses none.
LEMMA HeldSplit ==
  ASSUME NEW V, NEW R, NEW lv, NEW lo, NEW hi, NEW p, NEW r, NEW cut, NEW q, NEW i, NEW x,
         SplitAt(V, R, lv, lo, hi, p, r, cut, q, i, x), NEW cont, Held(V, R, lv, cont)
  PROVE  Held(SplitPages(V, p, r, cut, q, i, x), R \cup {r}, [lv EXCEPT ![r] = lv[p]], cont)
<1>1. PICK new : new = SplitPages(V, p, r, cut, q, i, x)
  OBVIOUS
<1>2. PICK S : S = R \cup {r}
  OBVIOUS
<1>3. PICK lv2 : lv2 = [lv EXCEPT ![r] = lv[p]]
  OBVIOUS
<1>4. /\ TreeOK(V, R, lv, lo, hi, p) /\ p \in R /\ q \in R /\ lv[q] # 0 /\ r \in PageNo /\ r \notin R
      /\ cut \in Nat /\ cut < Len(V[p].ents)
  BY DEF SplitAt
<1>5. R \subseteq PageNo /\ lv \in [PageNo -> Nat]
  BY <1>4 DEF TreeOK, Typed
<1>6. lv2[r] = lv[p] /\ \A y \in R : lv2[y] = lv[y]
  BY <1>3, <1>4, <1>5
<1>7. IsSplit(V, new, p, r, cut, q, i, x)
  BY <1>1, SplitPagesAre
<1>8. /\ Len(new[p].ents) = cut /\ \A j \in 1 .. cut : new[p].ents[j] = V[p].ents[j]
  BY <1>7 DEF IsSplit
<1>9. /\ Len(new[r].ents) = Len(V[p].ents) - cut
      /\ \A j \in 1 .. Len(V[p].ents) - cut : new[r].ents[j] = V[p].ents[cut + j]
  BY <1>7 DEF IsSplit
<1>10. \A y \in PageNo : y \notin {p, r, q} => new[y].ents = V[y].ents
  BY <1>7 DEF IsSplit
<1>11. Len(V[p].ents) \in Nat
  BY <1>4, InTree
<1>12. ASSUME NEW y \in S, lv2[y] = 0, NEW j \in 1 .. Len(new[y].ents)
       PROVE  \E z \in R : lv[z] = 0 /\ \E m \in 1 .. Len(V[z].ents) : V[z].ents[m] = new[y].ents[j]
  <2>1. CASE y = p
    <3>1. j \in 1 .. Len(V[p].ents) /\ new[y].ents[j] = V[p].ents[j] /\ lv[p] = 0
      BY <1>4, <1>6, <1>8, <1>11, <1>12, <2>1
    <3>2. QED
      BY <1>4, <3>1
  <2>2. CASE y = r
    <3>1. j \in 1 .. Len(V[p].ents) - cut
      BY <1>9, <1>12, <2>2
    <3>2. cut + j \in 1 .. Len(V[p].ents) /\ new[y].ents[j] = V[p].ents[cut + j] /\ lv[p] = 0
      BY <1>4, <1>6, <1>9, <1>11, <1>12, <2>2, <3>1
    <3>3. QED
      BY <1>4, <3>2
  <2>3. CASE y \notin {p, r}
    <3>1. y \in R /\ lv[y] = 0 /\ y # q
      BY <1>2, <1>4, <1>6, <1>12, <2>3
    <3>2. new[y].ents = V[y].ents
      BY <1>5, <1>10, <2>3, <3>1
    <3>3. QED
      BY <1>12, <3>1, <3>2
  <2>4. QED
    BY <2>1, <2>2, <2>3
<1>13. ASSUME NEW z \in R, lv[z] = 0, NEW m \in 1 .. Len(V[z].ents)
       PROVE  \E y \in S : lv2[y] = 0 /\ \E j \in 1 .. Len(new[y].ents) : new[y].ents[j] = V[z].ents[m]
  <2>1. CASE z = p /\ m <= cut
    <3>1. m \in 1 .. cut
      BY <1>4, <1>11, <1>13, <2>1
    <3>2. p \in S /\ lv2[p] = 0 /\ m \in 1 .. Len(new[p].ents) /\ new[p].ents[m] = V[z].ents[m]
      BY <1>2, <1>4, <1>6, <1>8, <1>13, <2>1, <3>1
    <3>3. QED
      BY <3>2
  <2>2. CASE z = p /\ m > cut
    <3>1. m - cut \in 1 .. Len(V[p].ents) - cut /\ cut + (m - cut) = m
      BY <1>4, <1>11, <1>13, <2>2
    <3>2. r \in S /\ lv2[r] = 0 /\ m - cut \in 1 .. Len(new[r].ents) /\ new[r].ents[m - cut] = V[z].ents[m]
      BY <1>2, <1>6, <1>9, <1>13, <2>2, <3>1
    <3>3. QED
      BY <3>2
  <2>3. CASE z # p
    <3>1. z \notin {p, r, q} /\ z \in S /\ lv2[z] = 0
      BY <1>2, <1>4, <1>6, <1>13, <2>3
    <3>2. new[z].ents = V[z].ents
      BY <1>5, <1>10, <3>1
    <3>3. QED
      BY <3>1, <3>2
  <2>4. m > cut \/ m <= cut
    BY <1>4, <1>13, <1>11
  <2>5. QED
    BY <2>1, <2>2, <2>3, <2>4
<1>14. Records(new, S, lv2, V, R, lv) /\ Records(V, R, lv, new, S, lv2)
  BY <1>12, <1>13 DEF Records
<1>16. Held(new, S, lv2, cont)
  BY <1>14, HeldMoved
<1>17. QED
  BY <1>1, <1>2, <1>3, <1>16

\* Nor does the split of the root.
LEMMA HeldRootSplit ==
  ASSUME NEW V, NEW R, NEW lv, NEW lo, NEW hi, NEW l, NEW r, NEW cut,
         RootAt(V, R, lv, lo, hi, l, r, cut), NEW cont, Held(V, R, lv, cont)
  PROVE  Held(RootPages(V, l, r, cut), R \cup {l, r},
              [lv EXCEPT ![l] = lv[P_ROOT], ![r] = lv[P_ROOT], ![P_ROOT] = lv[P_ROOT] + 1], cont)
<1>1. PICK new : new = RootPages(V, l, r, cut)
  OBVIOUS
<1>2. PICK S : S = R \cup {l, r}
  OBVIOUS
<1>3. PICK lv2 : lv2 = [lv EXCEPT ![l] = lv[P_ROOT], ![r] = lv[P_ROOT], ![P_ROOT] = lv[P_ROOT] + 1]
  OBVIOUS
<1>4. /\ TreeOK(V, R, lv, lo, hi, P_ROOT)
      /\ l \in PageNo /\ l \notin R /\ r \in PageNo /\ r \notin R /\ l # r
      /\ cut \in Nat /\ cut < Len(V[P_ROOT].ents)
  BY DEF RootAt
<1>5. R \subseteq PageNo /\ lv \in [PageNo -> Nat] /\ P_ROOT \in R
  BY <1>4 DEF TreeOK, Typed
<1>6. lv2[l] = lv[P_ROOT] /\ lv2[r] = lv[P_ROOT] /\ lv2[P_ROOT] # 0 /\ \A y \in R : y # P_ROOT => lv2[y] = lv[y]
  <2>1. P_ROOT \in PageNo /\ lv[P_ROOT] + 1 # 0
    BY <1>5
  <2>2. QED
    BY <1>3, <1>4, <1>5, <2>1
<1>7. IsRootSplit(V, new, l, r, cut)
  BY <1>1, RootPagesAre
<1>8. /\ Len(new[l].ents) = cut /\ \A j \in 1 .. cut : new[l].ents[j] = V[P_ROOT].ents[j]
  BY <1>7 DEF IsRootSplit
<1>9. /\ Len(new[r].ents) = Len(V[P_ROOT].ents) - cut
      /\ \A j \in 1 .. Len(V[P_ROOT].ents) - cut : new[r].ents[j] = V[P_ROOT].ents[cut + j]
  BY <1>7 DEF IsRootSplit
<1>10. \A y \in PageNo : y \notin {P_ROOT, l, r} => new[y] = V[y]
  BY <1>7 DEF IsRootSplit
<1>11. Len(V[P_ROOT].ents) \in Nat
  BY <1>4, <1>5, InTree
<1>12. ASSUME NEW y \in S, lv2[y] = 0, NEW j \in 1 .. Len(new[y].ents)
       PROVE  \E z \in R : lv[z] = 0 /\ \E m \in 1 .. Len(V[z].ents) : V[z].ents[m] = new[y].ents[j]
  <2>1. CASE y = l
    <3>1. j \in 1 .. Len(V[P_ROOT].ents) /\ new[y].ents[j] = V[P_ROOT].ents[j] /\ lv[P_ROOT] = 0
      BY <1>4, <1>6, <1>8, <1>11, <1>12, <2>1
    <3>2. QED
      BY <1>5, <3>1
  <2>2. CASE y = r
    <3>1. j \in 1 .. Len(V[P_ROOT].ents) - cut
      BY <1>9, <1>12, <2>2
    <3>2. cut + j \in 1 .. Len(V[P_ROOT].ents) /\ new[y].ents[j] = V[P_ROOT].ents[cut + j] /\ lv[P_ROOT] = 0
      BY <1>4, <1>6, <1>9, <1>11, <1>12, <2>2, <3>1
    <3>3. QED
      BY <1>5, <3>2
  <2>3. CASE y \notin {l, r}
    <3>1. y \in R /\ lv[y] = 0 /\ y # P_ROOT
      BY <1>2, <1>6, <1>12, <2>3
    <3>2. new[y] = V[y]
      BY <1>5, <1>10, <2>3, <3>1
    <3>3. QED
      BY <1>12, <3>1, <3>2
  <2>4. QED
    BY <2>1, <2>2, <2>3
<1>13. ASSUME NEW z \in R, lv[z] = 0, NEW m \in 1 .. Len(V[z].ents)
       PROVE  \E y \in S : lv2[y] = 0 /\ \E j \in 1 .. Len(new[y].ents) : new[y].ents[j] = V[z].ents[m]
  <2>1. CASE z = P_ROOT /\ m <= cut
    <3>1. m \in 1 .. cut
      BY <1>4, <1>11, <1>13, <2>1
    <3>2. l \in S /\ lv2[l] = 0 /\ m \in 1 .. Len(new[l].ents) /\ new[l].ents[m] = V[z].ents[m]
      BY <1>2, <1>6, <1>8, <1>13, <2>1, <3>1
    <3>3. QED
      BY <3>2
  <2>2. CASE z = P_ROOT /\ m > cut
    <3>1. m - cut \in 1 .. Len(V[P_ROOT].ents) - cut /\ cut + (m - cut) = m
      BY <1>4, <1>11, <1>13, <2>2
    <3>2. r \in S /\ lv2[r] = 0 /\ m - cut \in 1 .. Len(new[r].ents) /\ new[r].ents[m - cut] = V[z].ents[m]
      BY <1>2, <1>6, <1>9, <1>13, <2>2, <3>1
    <3>3. QED
      BY <3>2
  <2>3. CASE z # P_ROOT
    <3>1. z \notin {P_ROOT, l, r} /\ z \in S /\ lv2[z] = 0
      BY <1>2, <1>4, <1>6, <1>13, <2>3
    <3>2. new[z] = V[z]
      BY <1>5, <1>10, <3>1
    <3>3. QED
      BY <3>1, <3>2
  <2>4. m > cut \/ m <= cut
    BY <1>4, <1>13, <1>11
  <2>5. QED
    BY <2>1, <2>2, <2>3, <2>4
<1>14. Records(new, S, lv2, V, R, lv) /\ Records(V, R, lv, new, S, lv2)
  BY <1>12, <1>13 DEF Records
<1>16. Held(new, S, lv2, cont)
  BY <1>14, HeldMoved
<1>17. QED
  BY <1>1, <1>2, <1>3, <1>16

\* What SplitPage makes of a page that is not the root: p keeps the first cut of
\* the records all, r gets the others.
LowerPages(page, p, r, all, cut) ==
  [y \in PageNo |->
     IF y = p THEN Sibling(page[p], page[p].prev, r, SubSeq(all, 1, cut))
     ELSE IF y = r THEN Sibling(page[p], p, page[p].next, SubSeq(all, cut + 1, Len(all)))
     ELSE IF y = page[p].next THEN Sibling(page[y], r, page[y].next, page[y].ents)
     ELSE page[y]]

\* The cursor after it: as bt_psplit moves it, or, when the record is appended at
\* the right edge, where it was.
LowerCursor(U, p, r, skip, cut, c) ==
  \/ /\ c = SplitCursor(U.cursor, p, p, r, skip, cut)
     /\ cut = Cut(Sizes(U.page[p].leaf, Len(U.page[p].ents) + 1), skip)
     /\ ~(U.page[p].next = P_INVALID /\ skip = Len(U.page[p].ents) + 1)
  \/ /\ c = U.cursor
     /\ cut = Len(U.page[p].ents) /\ skip = Len(U.page[p].ents) + 1

LowerSplit(U, p, r, skip, all, cut, s) ==
  /\ cut \in 1 .. Len(U.page[p].ents)
  /\ s.up /\ s.l = p /\ s.r = r
  /\ s.t = [page |-> LowerPages(U.page, p, r, all, cut), npages |-> Taken(U).npages,
            free |-> Taken(U).free, memory |-> Taken(U).memory, cursor |-> s.t.cursor,
            last |-> U.last]
  /\ LowerCursor(U, p, r, skip, cut, s.t.cursor)

\* Inserted, Removed and Part for records.
IsInserted(new, old, i, e) ==
  /\ new \in Seq(Ent) /\ Len(new) = Len(old) + 1
  /\ \A j \in 1 .. Len(old) + 1 :
       new[j] = IF j < i THEN old[j] ELSE IF j = i THEN e ELSE old[j - 1]
IsRemoved(new, old, i) ==
  /\ new \in Seq(Ent) /\ Len(new) = Len(old) - 1
  /\ \A j \in 1 .. Len(old) - 1 : new[j] = IF j < i THEN old[j] ELSE old[j + 1]
IsPart(new, old, a, b) ==
  /\ new \in Seq(Ent) /\ Len(new) = b + 1 - a
  /\ \A j \in 1 .. b + 1 - a : new[j] = old[a + j - 1]

LEMMA EntInserted ==
  ASSUME NEW s \in Seq(Ent), NEW e \in Ent, NEW i \in 1 .. Len(s) + 1
  PROVE  IsInserted(InsertAt(s, i, e), s, i, e)
BY Inserted DEF IsInserted

LEMMA EntRemoved ==
  ASSUME NEW s \in Seq(Ent), NEW i \in 1 .. Len(s)
  PROVE  IsRemoved(RemoveAt(s, i), s, i)
BY Removed DEF IsRemoved

LEMMA EntPart ==
  ASSUME NEW s \in Seq(Ent), NEW a \in 1 .. Len(s) + 1, NEW b \in 0 .. Len(s), a <= b + 1
  PROVE  IsPart(SubSeq(s, a, b), s, a, b)
BY Part DEF IsPart

\* The members of the BTREE structure.
LEMMA TreeRecord ==
  ASSUME NEW U \in TreeM
  PROVE  /\ U = [page |-> U.page, npages |-> U.npages, free |-> U.free, memory |-> U.memory,
                 cursor |-> U.cursor, last |-> U.last]
         /\ U.page \in [PageNo -> Page] /\ U.npages \in 2 .. MaxPages /\ U.free \in 0 .. MaxPages - 1
         /\ U.memory \in Nat /\ U.cursor \in Cursor /\ U.last \in Hint
BY DEF TreeM

\* SplitPage below the root, written as new pages and a new cursor.
LEMMA LowerIs ==
  ASSUME NEW U \in TreeM, NEW R, NEW fl, NEW n, FreeOK(U.page, U.free, U.npages, R, fl, n),
         R \subseteq PageNo, NEW p \in R, p # P_ROOT, NEW e \in Ent,
         NEW skip \in 1 .. Len(U.page[p].ents) + 1, NEW all, all = InsertAt(U.page[p].ents, skip, e),
         Fits(Sizes(U.page[p].leaf, Len(U.page[p].ents))), ~HasRoom(U.page[p]),
         Len(U.page[p].ents) # 0,
         NEW s, s = SplitPage(U, p, skip, e), s.r # P_INVALID, NEW r, r = Spare(U)
  PROVE  r # P_INVALID /\ \E cut : LowerSplit(U, p, r, skip, all, cut, s)
<1>1. PICK h : h = U.page[p]
  OBVIOUS
<1>2. /\ h \in Page /\ h.leaf \in BOOLEAN /\ h.ents \in Seq(Ent) /\ Len(h.ents) \in Nat
      /\ h = Sibling(h, h.prev, h.next, h.ents)
  <2>1. h \in Page
    BY <1>1, TreeRecord
  <2>2. QED
    BY <2>1, PageParts
<1>3. PICK m : m = Len(h.ents)
  OBVIOUS
<1>4. m \in Nat /\ m # 0 /\ skip \in 1 .. m + 1
  BY <1>1, <1>2, <1>3
<1>5. all \in Seq(Ent) /\ Len(all) = m + 1
      /\ \A j \in 1 .. m + 1 : all[j] = IF j < skip THEN h.ents[j] ELSE IF j = skip THEN e ELSE h.ents[j - 1]
  <2>1. IsInserted(all, h.ents, skip, e)
    BY <1>1, <1>2, EntInserted
  <2>2. QED
    BY <1>3, <2>1 DEF IsInserted
<1>6. CASE h.next = P_INVALID /\ skip = m + 1
  <2>1. s = SortSplit(U, p, e)
    BY <1>1, <1>3, <1>6 DEF SplitPage
  <2>2. r # P_INVALID
    BY <2>1 DEF SortSplit, Failed
  <2>3. s = [t |-> [Taken(U) EXCEPT !.page[p].next = r,
                                    !.page[r] = Sibling(U.page[p], p, P_INVALID, <<e>>)],
             l |-> p, r |-> r, up |-> TRUE]
    BY <2>1, <2>2 DEF SortSplit
  <2>4. /\ Taken(U) \in TreeM /\ Taken(U).page = U.page /\ Taken(U).cursor = U.cursor
        /\ Taken(U).last = U.last /\ r \in PageNo /\ r \notin R
    BY <2>2, Take
  <2>5. PICK new : new = [[U.page EXCEPT ![p].next = r] EXCEPT ![r] = Sibling(h, p, P_INVALID, <<e>>)]
    OBVIOUS
  <2>6. s.t = [page |-> new, npages |-> Taken(U).npages,
               free |-> Taken(U).free, memory |-> Taken(U).memory, cursor |-> U.cursor,
               last |-> U.last]
    <3>1. Taken(U) = [page |-> U.page, npages |-> Taken(U).npages, free |-> Taken(U).free,
                      memory |-> Taken(U).memory, cursor |-> U.cursor, last |-> U.last]
      BY <2>4, TreeRecord
    <3>2. s.t = [Taken(U) EXCEPT !.page = new]
      <4>1. PICK X : X = Taken(U)
        OBVIOUS
      <4>2. PICK z : z = Sibling(h, p, P_INVALID, <<e>>)
        OBVIOUS
      <4>3. X = [page |-> X.page, npages |-> X.npages, free |-> X.free,
                 memory |-> X.memory, cursor |-> X.cursor, last |-> X.last] /\ X.page = U.page
        BY <2>4, <4>1, TreeRecord
      <4>4. s.t = [X EXCEPT !.page[p].next = r, !.page[r] = z]
        BY <1>1, <2>3, <4>1, <4>2
      <4>5. [X EXCEPT !.page[p].next = r, !.page[r] = z]
              = [X EXCEPT !.page = [[X.page EXCEPT ![p].next = r] EXCEPT ![r] = z]]
        BY ONLY <4>3
      <4>6. QED
        BY <2>5, <4>1, <4>2, <4>3, <4>4, <4>5
    <3>3. QED
      BY <3>1, <3>2
  <2>7. SubSeq(all, 1, m) = h.ents
    <3>1. 1 \in 1 .. Len(all) + 1 /\ m \in 0 .. Len(all) /\ 1 <= m + 1 /\ m + 1 - 1 = m
      BY <1>4, <1>5
    <3>2. /\ SubSeq(all, 1, m) \in Seq(Ent) /\ Len(SubSeq(all, 1, m)) = m + 1 - 1
          /\ \A j \in 1 .. m + 1 - 1 : SubSeq(all, 1, m)[j] = all[1 + j - 1]
      BY <1>5, <3>1, Part
    <3>3. \A j \in 1 .. m : 1 + j - 1 = j /\ j \in 1 .. m + 1 /\ j < skip
      BY <1>4, <1>6
    <3>4. \A j \in 1 .. m : SubSeq(all, 1, m)[j] = h.ents[j]
      BY <1>5, <3>1, <3>2, <3>3
    <3>5. QED
      BY <1>2, <1>3, <3>1, <3>2, <3>4, SameSeq
  <2>8. SubSeq(all, m + 1, Len(all)) = <<e>>
    <3>1. PICK a : a = m + 1
      OBVIOUS
    <3>2. a \in 1 .. Len(all) + 1 /\ a \in 0 .. Len(all) /\ a <= a + 1 /\ a + 1 - a = 1 /\ a = Len(all)
      BY <1>4, <1>5, <3>1
    <3>3. /\ SubSeq(all, a, a) \in Seq(Ent) /\ Len(SubSeq(all, a, a)) = a + 1 - a
          /\ \A j \in 1 .. a + 1 - a : SubSeq(all, a, a)[j] = all[a + j - 1]
      BY ONLY <1>5, <3>2, Part, SMT
    <3>4. a + 1 - 1 = a /\ a = skip /\ a \in 1 .. m + 1
      BY <1>4, <1>6, <3>1
    <3>5. all[a] = e
      BY <1>5, <3>4
    <3>6. <<e>> \in Seq(Ent) /\ Len(<<e>>) = 1 /\ <<e>>[1] = e
      BY Single
    <3>7. \A j \in 1 .. 1 : SubSeq(all, a, a)[j] = <<e>>[j]
      BY <3>2, <3>3, <3>4, <3>5, <3>6
    <3>8. QED
      BY <3>1, <3>2, <3>3, <3>6, <3>7, SameSeq
  <2>9. new = LowerPages(U.page, p, r, all, m)
    <3>1. U.page \in [PageNo -> Page] /\ p \in PageNo /\ p # r
      BY <2>4, TreeRecord
    <3>2. \A y \in PageNo : y # h.next
      BY <1>6, Numbers
    <3>3. [h EXCEPT !.next = r] = Sibling(h, h.prev, r, h.ents)
      BY <1>2 DEF Sibling
    <3>4. new = [y \in PageNo |-> IF y = p THEN Sibling(h, h.prev, r, h.ents)
                                  ELSE IF y = r THEN Sibling(h, p, P_INVALID, <<e>>) ELSE U.page[y]]
      BY <1>1, <2>4, <2>5, <3>1, <3>3
    <3>5. QED
      BY <1>1, <1>6, <2>7, <2>8, <3>2, <3>4 DEF LowerPages
  <2>10. s.t.cursor = U.cursor
    BY <2>6
  <2>11. LowerCursor(U, p, r, skip, m, s.t.cursor)
    BY <1>1, <1>3, <1>6, <2>10 DEF LowerCursor
  <2>12. m \in 1 .. Len(U.page[p].ents)
    BY <1>1, <1>3, <1>4
  <2>13. s.up /\ s.l = p /\ s.r = r
    BY <2>3
  <2>14. LowerSplit(U, p, r, skip, all, m, s)
    BY <2>6, <2>9, <2>10, <2>11, <2>12, <2>13 DEF LowerSplit
  <2>15. QED
    BY <2>2, <2>14
<1>7. CASE ~(h.next = P_INVALID /\ skip = m + 1)
  <2>1. s = PageSplitAt(U, p, skip, e)
    BY <1>1, <1>3, <1>7 DEF SplitPage
  <2>2. r # P_INVALID
    BY <2>1 DEF PageSplitAt, Failed
  <2>3. PICK cut : cut = Cut(Sizes(h.leaf, m + 1), skip)
    OBVIOUS
  <2>4. cut \in 1 .. m
    <3>1. Fits(Sizes(h.leaf, m)) /\ ~Fits(Sizes(h.leaf, m + 1)) /\ skip \in Nat
      BY <1>1, <1>3, <1>4 DEF HasRoom
    <3>2. QED
      BY <1>2, <1>4, <2>3, <3>1, CutIs
  <2>5. PICK new : new = [q \in PageNo |->
                    IF q = p THEN Sibling(h, h.prev, r, SubSeq(all, 1, cut))
                    ELSE IF q = r THEN Sibling(h, p, h.next, SubSeq(all, cut + 1, Len(all)))
                    ELSE IF q = h.next THEN [U.page[q] EXCEPT !.prev = r] ELSE U.page[q]]
    OBVIOUS
  <2>6. s = [t |-> [Taken(U) EXCEPT !.page = new, !.cursor = SplitCursor(@, p, p, r, skip, cut)],
             l |-> p, r |-> r, up |-> TRUE]
    <3>1. InsertAt(h.ents, skip, e) = all /\ Cut(Sizes(h.leaf, Len(all)), skip) = cut
      BY <1>1, <1>5, <2>3
    <3>2. QED
      BY <1>1, <2>1, <2>2, <2>5, <3>1 DEF PageSplitAt
  <2>7. /\ Taken(U) \in TreeM /\ Taken(U).page = U.page /\ Taken(U).cursor = U.cursor
        /\ Taken(U).last = U.last /\ r \in PageNo /\ r \notin R
    BY <2>2, Take
  <2>8. s.t = [page |-> new, npages |-> Taken(U).npages,
               free |-> Taken(U).free, memory |-> Taken(U).memory,
               cursor |-> SplitCursor(U.cursor, p, p, r, skip, cut), last |-> U.last]
    <3>0. PICK X : X = Taken(U)
      OBVIOUS
    <3>1. X = [page |-> X.page, npages |-> X.npages, free |-> X.free,
               memory |-> X.memory, cursor |-> X.cursor, last |-> U.last]
      BY <2>7, <3>0, TreeRecord
    <3>2. s.t = [X EXCEPT !.page = new, !.cursor = SplitCursor(X.cursor, p, p, r, skip, cut)]
      BY <2>6, <3>0
    <3>3. PICK c : c = SplitCursor(U.cursor, p, p, r, skip, cut)
      OBVIOUS
    <3>4. s.t = [X EXCEPT !.page = new, !.cursor = c]
      BY <2>7, <3>0, <3>2, <3>3
    <3>5. s.t = [page |-> new, npages |-> X.npages, free |-> X.free, memory |-> X.memory,
                 cursor |-> c, last |-> U.last]
      BY <2>7, <3>0, <3>4 DEF TreeM
    <3>6. QED
      BY <3>0, <3>3, <3>5
  <2>9. new = LowerPages(U.page, p, r, all, cut)
    <3>1. ASSUME NEW y \in PageNo PROVE [U.page[y] EXCEPT !.prev = r] = Sibling(U.page[y], r, U.page[y].next, U.page[y].ents)
      <4>1. U.page[y] \in Page
        BY TreeRecord
      <4>2. U.page[y] = Sibling(U.page[y], U.page[y].prev, U.page[y].next, U.page[y].ents)
        BY <4>1, PageParts
      <4>3. QED
        BY <4>2 DEF Sibling
    <3>2. QED
      BY <1>1, <2>5, <3>1 DEF LowerPages
  <2>10. s.t.cursor = SplitCursor(U.cursor, p, p, r, skip, cut)
    BY <2>8
  <2>11. LowerCursor(U, p, r, skip, cut, s.t.cursor)
    BY <1>1, <1>3, <1>7, <2>3, <2>10 DEF LowerCursor
  <2>12. cut \in 1 .. Len(U.page[p].ents)
    BY <1>1, <1>3, <2>4
  <2>13. s.up /\ s.l = p /\ s.r = r
    BY <2>6
  <2>14. LowerSplit(U, p, r, skip, all, cut, s)
    BY <2>8, <2>9, <2>10, <2>11, <2>12, <2>13 DEF LowerSplit
  <2>15. QED
    BY <2>2, <2>14
<1>8. QED
  BY <1>6, <1>7

\* A tree in the middle of an operation, all but its records.
Mid(U, R, lv, key) ==
  /\ U \in TreeM
  /\ \E fl, n : FreeOK(U.page, U.free, U.npages, R, fl, n)
  /\ CursorOK(U.cursor, U.page, R, lv, key)

\* Page p has no room for e, which would be right as its record skip.
Over(U, p, skip, e, R, lv, lo, hi, cont) ==
  /\ p \in R /\ e \in Ent /\ skip \in 1 .. Len(U.page[p].ents) + 1
  /\ Fits(Sizes(U.page[p].leaf, Len(U.page[p].ents)))
  /\ TreeOK(WithEnts(U.page, p, InsertAt(U.page[p].ents, skip, e)), R, lv, lo, hi, p)
  /\ Held(WithEnts(U.page, p, InsertAt(U.page[p].ents, skip, e)), R, lv, cont)

\* What LowerPages makes of each page.
IsLower(page, new, p, r, all, cut) ==
  /\ new[p].leaf = page[p].leaf /\ new[p].next = r
  /\ new[p].ents \in Seq(Ent) /\ Len(new[p].ents) = cut
  /\ \A j \in 1 .. cut : new[p].ents[j] = all[j]
  /\ new[r].leaf = page[p].leaf /\ new[r].next = page[p].next
  /\ new[r].ents \in Seq(Ent) /\ Len(new[r].ents) = Len(all) - cut
  /\ \A j \in 1 .. Len(all) - cut : new[r].ents[j] = all[cut + j]
  /\ \A y \in PageNo : y \notin {p, r} =>
       /\ new[y].next = page[y].next /\ new[y].ents = page[y].ents /\ new[y].leaf = page[y].leaf
       /\ y # page[p].next => new[y] = page[y]

\* What is on the two halves before the parent knows of the second.
LEMMA LowerPagesAre ==
  ASSUME NEW page \in [PageNo -> Page], NEW p \in PageNo, NEW r \in PageNo, r # p, NEW all \in Seq(Ent),
         NEW cut \in 1 .. Len(all), cut # Len(all), NEW new, new = LowerPages(page, p, r, all, cut)
  PROVE  IsLower(page, new, p, r, all, cut)
<1>1. Len(all) \in Nat /\ cut \in Nat
  OBVIOUS
<1>2. PICK a : a = SubSeq(all, 1, cut)
  OBVIOUS
<1>3. PICK c : c = cut + 1
  OBVIOUS
<1>4. PICK b : b = SubSeq(all, c, Len(all))
  OBVIOUS
<1>5. a \in Seq(Ent) /\ Len(a) = cut /\ \A j \in 1 .. cut : a[j] = all[j]
  <2>1. 1 \in 1 .. Len(all) + 1 /\ cut \in 0 .. Len(all) /\ 1 <= cut + 1
    BY <1>1
  <2>2. IsPart(a, all, 1, cut)
    BY <1>2, <2>1, EntPart
  <2>3. cut + 1 - 1 = cut /\ \A j \in 1 .. cut : 1 + j - 1 = j
    BY <1>1
  <2>4. QED
    BY <2>2, <2>3 DEF IsPart
<1>6. b \in Seq(Ent) /\ Len(b) = Len(all) - cut /\ \A j \in 1 .. Len(all) - cut : b[j] = all[cut + j]
  <2>1. c \in 1 .. Len(all) + 1 /\ Len(all) \in 0 .. Len(all) /\ c <= Len(all) + 1
    BY <1>1, <1>3
  <2>2. IsPart(b, all, c, Len(all))
    BY <1>4, <2>1, EntPart
  <2>3. Len(all) + 1 - c = Len(all) - cut /\ \A j \in 1 .. Len(all) - cut : c + j - 1 = cut + j
    BY <1>1, <1>3
  <2>4. QED
    BY <2>2, <2>3 DEF IsPart
<1>7. /\ new[p] = [leaf |-> page[p].leaf, prev |-> page[p].prev, next |-> r, ents |-> a]
      /\ new[r] = [leaf |-> page[p].leaf, prev |-> p, next |-> page[p].next, ents |-> b]
      /\ \A y \in PageNo : y \notin {p, r} =>
           new[y] = IF y = page[p].next
                    THEN [leaf |-> page[y].leaf, prev |-> r, next |-> page[y].next, ents |-> page[y].ents]
                    ELSE page[y]
  BY <1>2, <1>3, <1>4 DEF LowerPages, Sibling
<1>8. /\ new[p].leaf = page[p].leaf /\ new[p].next = r /\ new[p].ents = a
      /\ new[r].leaf = page[p].leaf /\ new[r].next = page[p].next /\ new[r].ents = b
  BY <1>7
<1>9. ASSUME NEW y \in PageNo, y \notin {p, r}
      PROVE  /\ new[y].next = page[y].next /\ new[y].ents = page[y].ents /\ new[y].leaf = page[y].leaf
             /\ y # page[p].next => new[y] = page[y]
  <2>1. CASE y = page[p].next
    <3>1. new[y] = [leaf |-> page[y].leaf, prev |-> r, next |-> page[y].next, ents |-> page[y].ents]
      BY <1>7, <1>9, <2>1
    <3>2. QED
      BY <2>1, <3>1
  <2>2. CASE y # page[p].next
    <3>1. new[y] = page[y]
      BY <1>7, <1>9, <2>2
    <3>2. QED
      BY <2>2, <3>1
  <2>3. QED
    BY <2>1, <2>2
<1>10. QED
  BY <1>5, <1>6, <1>8, <1>9 DEF IsLower

LEMMA SplitCursorType ==
  ASSUME NEW c \in Cursor, NEW p, NEW l \in PageNo, NEW r \in PageNo, NEW skip \in Nat, NEW cut \in Nat, cut # 0,
         NEW d, d = SplitCursor(c, p, l, r, skip, cut)
  PROVE  d \in Cursor /\ d.init = c.init /\ d.acquire = c.acquire /\ d.key = c.key
<1>1. l \in 0 .. MaxPages - 1 /\ r \in 0 .. MaxPages - 1
  BY Numbers
<1>2. PICK nxt : nxt = IF skip <= cut THEN cut - 1 ELSE cut
  OBVIOUS
<1>3. PICK i : i = IF c.index >= skip THEN c.index + 1 ELSE c.index
  OBVIOUS
<1>4. /\ c.index \in Nat /\ c.init \in BOOLEAN /\ c.acquire \in BOOLEAN /\ c.key \in Key \cup {None}
      /\ c = [init |-> c.init, acquire |-> c.acquire, key |-> c.key, pgno |-> c.pgno, index |-> c.index]
  BY DEF Cursor
<1>5. nxt \in Nat /\ i \in Nat
  BY <1>2, <1>3, <1>4
<1>6. d = IF ~c.init \/ c.pgno # p THEN c
          ELSE IF i <= nxt THEN [c EXCEPT !.pgno = l, !.index = i] ELSE [c EXCEPT !.pgno = r, !.index = i - nxt]
  BY <1>2, <1>3 DEF SplitCursor
<1>7. CASE ~c.init \/ c.pgno # p
  BY <1>6, <1>7
<1>8. CASE ~(~c.init \/ c.pgno # p) /\ i <= nxt
  <2>1. d = [init |-> c.init, acquire |-> c.acquire, key |-> c.key, pgno |-> l, index |-> i]
    BY <1>4, <1>6, <1>8
  <2>2. QED
    BY <1>1, <1>4, <1>5, <2>1 DEF Cursor
<1>9. CASE ~(~c.init \/ c.pgno # p) /\ ~(i <= nxt)
  <2>1. PICK m : m = i - nxt
    OBVIOUS
  <2>2. m \in Nat
    BY <1>5, <1>9, <2>1
  <2>3. d = [init |-> c.init, acquire |-> c.acquire, key |-> c.key, pgno |-> r, index |-> m]
    BY <1>4, <1>6, <1>9, <2>1
  <2>4. QED
    BY <1>1, <1>4, <2>2, <2>3 DEF Cursor
<1>10. QED
  BY <1>7, <1>8, <1>9

\* bt_psplit and the cursor: the left page has the first cut of the records, the
\* right one the others; a cursor that does not slip is on its record still.
Fore(a, all, cut) == Len(a) = cut /\ \A j \in 1 .. cut : a[j] = all[j]
Back(b, all, cut) == Len(b) = Len(all) - cut /\ \A j \in 1 .. Len(all) - cut : b[j] = all[cut + j]
Slips(skip, cut, i) == skip <= cut /\ i >= skip /\ i >= cut - 1
IsAt(d, l, a, r, b, rec) ==
  \/ d.pgno = l /\ d.index \in 1 .. Len(a) /\ a[d.index] = rec
  \/ d.pgno = r /\ d.index \in 1 .. Len(b) /\ b[d.index] = rec

\* A cursor that does not slip is on its record after bt_psplit.
LEMMA MovedCursor ==
  ASSUME NEW c \in Cursor, NEW p, c.init, c.pgno = p, NEW old, Len(old) \in Nat, c.index \in 1 .. Len(old),
         NEW skip \in 1 .. Len(old) + 1, NEW e, NEW all, IsInserted(all, old, skip, e),
         NEW cut \in 1 .. Len(old), ~Slips(skip, cut, c.index),
         NEW l, NEW r, NEW a, Fore(a, all, cut), NEW b, Back(b, all, cut),
         NEW d, d = SplitCursor(c, p, l, r, skip, cut)
  PROVE  IsAt(d, l, a, r, b, old[c.index])
<1>1. PICK m : m = Len(old)
  OBVIOUS
<1>2. m \in Nat /\ c.index \in Nat /\ c.index \in 1 .. m /\ skip \in Nat /\ cut \in Nat /\ cut # 0 /\ cut <= m
  BY <1>1
<1>3. PICK i : i = IF c.index >= skip THEN c.index + 1 ELSE c.index
  OBVIOUS
<1>4. i \in 1 .. m + 1
  BY <1>2, <1>3
<1>5. all[i] = IF i < skip THEN old[i] ELSE IF i = skip THEN e ELSE old[i - 1]
  BY <1>1, <1>4 DEF IsInserted
<1>6. all[i] = old[c.index]
  <2>1. CASE c.index >= skip
    <3>1. i = c.index + 1 /\ ~(i < skip) /\ i # skip /\ i - 1 = c.index
      BY <1>2, <1>3, <2>1
    <3>2. QED
      BY <1>5, <3>1
  <2>2. CASE ~(c.index >= skip)
    <3>1. i = c.index /\ i < skip
      BY <1>2, <1>3, <2>2
    <3>2. QED
      BY <1>5, <3>1
  <2>3. QED
    BY <2>1, <2>2
<1>7. PICK nxt : nxt = IF skip <= cut THEN cut - 1 ELSE cut
  OBVIOUS
<1>8. d = IF i <= nxt THEN [c EXCEPT !.pgno = l, !.index = i] ELSE [c EXCEPT !.pgno = r, !.index = i - nxt]
  BY <1>3, <1>7 DEF SplitCursor
<1>9. c = [init |-> c.init, acquire |-> c.acquire, key |-> c.key, pgno |-> c.pgno, index |-> c.index]
  BY DEF Cursor
<1>10. CASE i <= nxt
  <2>1. d.pgno = l /\ d.index = i
    BY <1>8, <1>9, <1>10
  <2>2. nxt <= cut /\ nxt \in Nat /\ i \in Nat
    BY <1>2, <1>4, <1>7
  <2>3. i \in 1 .. cut
    BY <1>2, <1>4, <1>10, <2>2
  <2>4. QED
    BY <1>6, <2>1, <2>3 DEF Fore, IsAt
<1>11. CASE ~(i <= nxt)
  <2>1. nxt = cut /\ i > cut
    BY <1>2, <1>3, <1>7, <1>11 DEF Slips
  <2>2. d.pgno = r /\ d.index = i - cut
    BY <1>8, <1>9, <1>11, <2>1
  <2>3. i - cut \in 1 .. m + 1 - cut /\ cut + (i - cut) = i
    BY <1>2, <1>4, <2>1
  <2>4. Len(all) = m + 1
    BY <1>1 DEF IsInserted
  <2>5. i - cut \in 1 .. Len(all) - cut
    BY <1>2, <2>3, <2>4
  <2>6. QED
    BY <1>6, <2>2, <2>3, <2>5 DEF Back, IsAt
<1>12. QED
  BY <1>10, <1>11

\* Pages stay on their levels.
Kept(R, lv, lv2) == \A y \in R : lv2[y] = lv[y]

\* A cursor that does not slip is on its record still.
LEMMA LowerCursorIs ==
  ASSUME NEW U \in TreeM, NEW R \in SUBSET PageNo, NEW lv, NEW key, CursorOK(U.cursor, U.page, R, lv, key),
         NEW p \in R, p # P_ROOT, NEW r \in PageNo, r \notin R, NEW skip \in 1 .. Len(U.page[p].ents) + 1, NEW e,
         NEW all \in Seq(Ent), IsInserted(all, U.page[p].ents, skip, e),
         NEW cut \in 1 .. Len(U.page[p].ents), NEW new, IsLower(U.page, new, p, r, all, cut),
         NEW c, LowerCursor(U, p, r, skip, cut, c), ~CursorSlips(U, p, skip),
         NEW lv2, lv2[r] = lv[p], Kept(R, lv, lv2)
  PROVE  c \in Cursor /\ CursorOK(c, new, R \cup {r}, lv2, key)
<1>1. PICK d : d = U.cursor
  OBVIOUS
<1>2. PICK m : m = Len(U.page[p].ents)
  OBVIOUS
<1>3. /\ d \in Cursor /\ d.index \in Nat /\ d.init \in BOOLEAN /\ d.acquire \in BOOLEAN
      /\ m \in Nat /\ skip \in Nat /\ cut \in Nat /\ cut # 0 /\ cut <= m
  <2>1. d \in Cursor /\ U.page[p] \in Page
    BY <1>1, TreeRecord
  <2>2. m \in Nat
    BY <1>2, <2>1, PageParts
  <2>3. QED
    BY <1>2, <2>1, <2>2 DEF Cursor
<1>4. c \in Cursor /\ c.init = d.init /\ c.acquire = d.acquire /\ c.key = d.key
  <2>1. CASE c = d
    BY <1>3, <2>1
  <2>2. CASE c = SplitCursor(d, p, p, r, skip, cut)
    BY <1>3, <2>2, SplitCursorType
  <2>3. QED
    BY <1>1, <2>1, <2>2 DEF LowerCursor
<1>5. c.acquire => c.init /\ c.key \in Key
  BY <1>1, <1>4 DEF CursorOK
<1>6. /\ Len(new[p].ents) = cut /\ \A j \in 1 .. cut : new[p].ents[j] = all[j]
      /\ Len(new[r].ents) = m + 1 - cut /\ \A j \in 1 .. m + 1 - cut : new[r].ents[j] = all[cut + j]
      /\ \A y \in PageNo : y \notin {p, r} => new[y].ents = U.page[y].ents
  <2>1. Len(all) = m + 1
    BY <1>2 DEF IsInserted
  <2>2. Len(new[p].ents) = cut /\ \A j \in 1 .. cut : new[p].ents[j] = all[j]
    BY DEF IsLower
  <2>3. /\ Len(new[r].ents) = Len(all) - cut
        /\ \A j \in 1 .. Len(all) - cut : new[r].ents[j] = all[cut + j]
    BY DEF IsLower
  <2>4. \A y \in PageNo : y \notin {p, r} => new[y].ents = U.page[y].ents
    BY DEF IsLower
  <2>5. Len(all) - cut = m + 1 - cut
    BY <1>3, <2>1
  <2>6. /\ Len(new[r].ents) = m + 1 - cut
        /\ \A j \in 1 .. m + 1 - cut : new[r].ents[j] = all[cut + j]
    BY <2>3, <2>5, Zenon
  <2>7. QED
    BY <2>2, <2>4, <2>6, Zenon
<1>7. ASSUME d.init, ~d.acquire
      PROVE  /\ c.pgno \in R \cup {r} /\ lv2[c.pgno] = 0
             /\ c.index \in 1 .. Len(new[c.pgno].ents)
             /\ new[c.pgno].ents[c.index].k = key
  <2>1. /\ d.pgno \in R /\ lv[d.pgno] = 0 /\ d.index \in 1 .. Len(U.page[d.pgno].ents)
        /\ U.page[d.pgno].ents[d.index].k = key
    BY <1>1, <1>7 DEF CursorOK
  <2>2. CASE d.pgno # p
    <3>1. c = d
      BY <1>1, <2>2 DEF LowerCursor, SplitCursor
    <3>2. new[d.pgno].ents = U.page[d.pgno].ents
      BY <1>6, <2>1, <2>2
    <3>3. lv2[d.pgno] = lv[d.pgno]
      BY <2>1 DEF Kept
    <3>4. QED
      BY <2>1, <3>1, <3>2, <3>3
  <2>3. CASE d.pgno = p
    <3>1. d.index \in 1 .. m /\ U.page[p].ents[d.index].k = key
      BY <1>2, <2>1, <2>3
    <3>2. lv2[p] = 0 /\ lv2[r] = 0
      BY <2>1, <2>3 DEF Kept
    <3>3. CASE c = d /\ cut = m /\ skip = m + 1
      <4>1. d.index \in 1 .. cut /\ d.index \in 1 .. m + 1 /\ d.index < skip
        BY <1>3, <3>1, <3>3
      <4>2. all[d.index] = U.page[p].ents[d.index]
        BY <1>2, <4>1 DEF IsInserted
      <4>3. QED
        BY <1>6, <2>3, <3>1, <3>2, <3>3, <4>1, <4>2
    <3>4. CASE /\ c = SplitCursor(d, p, p, r, skip, cut)
               /\ cut = Cut(Sizes(U.page[p].leaf, m + 1), skip)
               /\ ~(U.page[p].next = P_INVALID /\ skip = m + 1)
      <4>1. ~Slips(skip, cut, d.index)
        <5>1. On(d, p)
          BY <1>7, <2>3 DEF On
        <5>2. QED
          BY <1>1, <1>2, <3>4, <5>1 DEF CursorSlips, Slips
      <4>2. PICK old : old = U.page[p].ents
        OBVIOUS
      <4>3. PICK a : a = new[p].ents
        OBVIOUS
      <4>4. PICK b : b = new[r].ents
        OBVIOUS
      <4>5. /\ Len(old) = m /\ IsInserted(all, old, skip, e)
        BY <1>2, <4>2
      <4>6. Fore(a, all, cut) /\ Back(b, all, cut)
        BY <4>3, <4>4 DEF IsLower, Fore, Back
      <4>7. Len(old) \in Nat /\ d.index \in 1 .. Len(old) /\ skip \in 1 .. Len(old) + 1 /\ cut \in 1 .. Len(old)
        BY <1>2, <1>3, <3>1, <4>2
      <4>8. IsAt(c, p, a, r, b, old[d.index])
        BY <1>3, <1>7, <2>3, <3>4, <4>1, <4>5, <4>6, <4>7, MovedCursor
      <4>9. QED
        BY <3>1, <3>2, <4>2, <4>3, <4>4, <4>8 DEF IsAt
    <3>5. QED
      BY <1>1, <1>2, <3>3, <3>4 DEF LowerCursor
  <2>4. QED
    BY <2>2, <2>3
<1>8. QED
  BY <1>4, <1>5, <1>7 DEF CursorOK

\* The free list after a split took one page from it.
LEMMA LowerFree ==
  ASSUME NEW U \in TreeM, NEW R \in SUBSET PageNo, NEW fl, NEW n, FreeOK(U.page, U.free, U.npages, R, fl, n),
         NEW p \in R, NEW r, r = Spare(U), r # P_INVALID, NEW all, NEW cut,
         NEW new, IsLower(U.page, new, p, r, all, cut)
  PROVE  \E f, m : FreeOK(new, Taken(U).free, Taken(U).npages, R \cup {r}, f, m)
<1>1. /\ r \in PageNo /\ r \notin R /\ r < Taken(U).npages /\ U.npages <= Taken(U).npages
      /\ \E f, m : FreeOK(U.page, Taken(U).free, Taken(U).npages, R \cup {r}, f, m)
  BY Take
<1>2. PICK f, m : FreeOK(U.page, Taken(U).free, Taken(U).npages, R \cup {r}, f, m)
  BY <1>1
<1>3. PICK np : np = Taken(U).npages
  OBVIOUS
<1>4. /\ f \in [1 .. m -> PageNo] /\ \A i \in 1 .. m : f[i] \notin R \cup {r}
      /\ (\A y \in R \cup {r} : y < np) /\ \A y \in PageNo : U.page[y].next < np
  BY <1>2, <1>3 DEF FreeOK
<1>5. /\ new[p].next = r /\ new[r].next = U.page[p].next
      /\ \A y \in PageNo : y \notin {p, r} => new[y].next = U.page[y].next
  BY DEF IsLower
<1>6. \A y \in PageNo : new[y].next < np
  BY <1>1, <1>3, <1>4, <1>5
<1>7. \A i \in 1 .. m : new[f[i]].next = U.page[f[i]].next
  BY <1>4, <1>5
<1>8. FreeOK(new, Taken(U).free, np, R \cup {r}, f, m)
  BY <1>2, <1>3, <1>4, <1>6, <1>7, FreeKept
<1>9. QED
  BY <1>3, <1>8

\* What the parent is to get for page r, which a split put after page l.
KeyFor(page, l, r, x) ==
  x = page[r].ents[1].k \/ (page[r].leaf /\ x = Last(page[l].ents).k + 1)

\* The two pages, and the key for the parent.
LEMMA LowerAt ==
  ASSUME NEW U \in TreeM, NEW R \in SUBSET PageNo, NEW lv, NEW lo, NEW hi, NEW cont, NEW p \in R, p # P_ROOT, NEW e, NEW skip,
         Over(U, p, skip, e, R, lv, lo, hi, cont),
         NEW all \in Seq(Ent), all = InsertAt(U.page[p].ents, skip, e), Len(all) = Len(U.page[p].ents) + 1,
         NEW r \in PageNo, r \notin R,
         NEW cut \in 1 .. Len(U.page[p].ents), NEW new, IsLower(U.page, new, p, r, all, cut),
         NEW q \in R, lv[q] = lv[p] + 1, NEW i \in 1 .. Len(U.page[q].ents), U.page[q].ents[i].v = p,
         NEW x, KeyFor(new, p, r, x),
         NEW V, V = WithEnts(U.page, p, all)
  PROVE  SplitAt(V, R, lv, lo, hi, p, r, cut, q, i, x)
<1>1. TreeOK(V, R, lv, lo, hi, p) /\ Fits(Sizes(U.page[p].leaf, Len(U.page[p].ents)))
  BY DEF Over
<1>2. PICK m : m = Len(U.page[p].ents)
  OBVIOUS
<1>3. /\ U.page \in [PageNo -> Page] /\ p \in PageNo /\ q \in PageNo
  BY TreeRecord
<1>4. m \in Nat /\ U.page[p].leaf \in BOOLEAN
  BY <1>2, <1>3, PageParts
<1>5. V[p].ents = all /\ V[p].leaf = U.page[p].leaf /\ \A y \in PageNo : y # p => V[y] = U.page[y]
  BY <1>3, WithEntsIs
<1>6. lv[p] \in Nat /\ lv[q] \in Nat /\ lv[q] # 0 /\ q # p /\ (V[p].leaf <=> lv[p] = 0)
  <2>1. lv[p] \in Nat /\ (V[p].leaf <=> lv[p] = 0) /\ lv[q] \in Nat
    BY <1>1, InTree
  <2>2. QED
    BY <2>1
<1>7. V[q].ents[i].v = p /\ i \in 1 .. Len(V[q].ents)
  BY <1>3, <1>5, <1>6
<1>8. cut \in Nat /\ cut # 0 /\ cut < Len(V[p].ents) /\ cut \in 1 .. m + 1 /\ cut + 1 \in 1 .. m + 1 /\ cut < cut + 1
  BY <1>2, <1>4, <1>5
<1>9. /\ Len(new[p].ents) = cut /\ new[p].ents \in Seq(Ent) /\ new[p].ents[cut] = all[cut]
      /\ new[r].ents[1] = all[cut + 1] /\ new[r].leaf = U.page[p].leaf
  <2>1. /\ Len(new[p].ents) = cut /\ new[p].ents \in Seq(Ent) /\ \A j \in 1 .. cut : new[p].ents[j] = all[j]
    BY DEF IsLower
  <2>2. new[r].leaf = U.page[p].leaf /\ \A j \in 1 .. Len(all) - cut : new[r].ents[j] = all[cut + j]
    BY DEF IsLower
  <2>3. 1 \in 1 .. Len(all) - cut /\ cut \in 1 .. cut
    BY <1>2, <1>4, <1>8
  <2>4. QED
    BY <2>1, <2>2, <2>3
<1>10. Last(new[p].ents) = all[cut]
  BY <1>9 DEF Last
<1>11. /\ all[cut].k \in Nat /\ all[cut + 1].k \in Nat
       /\ lv[p] = 0 => all[cut].k < all[cut + 1].k
  <2>1. \A a, b \in 1 .. Len(V[p].ents) : a < b /\ (lv[p] = 0 \/ a # 1) => V[p].ents[a].k < V[p].ents[b].k
    BY <1>1 DEF TreeOK, Ordered
  <2>2. \A a \in 1 .. Len(V[p].ents) : V[p].ents[a].k \in Nat
    BY <1>1, InTree
  <2>3. cut \in 1 .. Len(all) /\ cut + 1 \in 1 .. Len(all)
    BY <1>2, <1>8
  <2>4. QED
    BY <1>5, <1>8, <2>1, <2>2, <2>3
<1>12. x = all[cut + 1].k \/ (lv[p] = 0 /\ x = all[cut].k + 1)
  BY <1>5, <1>6, <1>9, <1>10 DEF KeyFor
<1>13. x \in Nat /\ IF lv[p] = 0 THEN all[cut].k < x /\ x <= all[cut + 1].k ELSE x = all[cut + 1].k
  BY <1>11, <1>12
<1>14. Fits(Sizes(V[p].leaf, cut)) /\ Fits(Sizes(V[p].leaf, Len(V[p].ents) - cut))
  <2>1. cut \in 0 .. m /\ Len(V[p].ents) - cut \in 0 .. m
    BY <1>2, <1>4, <1>5, <1>8
  <2>2. QED
    BY <1>1, <1>2, <1>4, <1>5, <2>1, FitsFewer
<1>15. QED
  BY <1>1, <1>5, <1>6, <1>7, <1>8, <1>13, <1>14 DEF SplitAt

\* With the new page in the parent the pages are those of SplitPages.
LEMMA LowerJoin ==
  ASSUME NEW page \in [PageNo -> Page], NEW R, NEW lv, NEW lo, NEW hi, NEW p \in PageNo, NEW r \in PageNo, NEW all,
         NEW cut, NEW q \in PageNo, NEW i, NEW x, NEW V, V = WithEnts(page, p, all),
         SplitAt(V, R, lv, lo, hi, p, r, cut, q, i, x), NEW new, new = LowerPages(page, p, r, all, cut)
  PROVE  /\ WithEnts(new, q, InsertAt(new[q].ents, i + 1, [k |-> x, v |-> r])) = SplitPages(V, p, r, cut, q, i, x)
         /\ new[q] = page[q]
<1>1. /\ p # q /\ r # p /\ r # q /\ V[p].next # q /\ V[p].next # p /\ V[p].next # r
  BY SplitKey
<1>2. /\ V[p].ents = all /\ V[p].leaf = page[p].leaf /\ V[p].prev = page[p].prev /\ V[p].next = page[p].next
      /\ \A y \in PageNo : y # p => V[y] = page[y]
  BY WithEntsIs
<1>3. new[q] = page[q] /\ V[q] = page[q]
  BY <1>1, <1>2 DEF LowerPages
<1>4. PICK f : f = InsertAt(page[q].ents, i + 1, [k |-> x, v |-> r])
  OBVIOUS
<1>5. WithEnts(new, q, f) = [y \in PageNo |-> IF y = q THEN Sibling(page[q], page[q].prev, page[q].next, f) ELSE new[y]]
  BY <1>3 DEF WithEnts, LowerPages
<1>6. SplitPages(V, p, r, cut, q, i, x) =
        [y \in PageNo |->
           IF y = p THEN Sibling(page[p], page[p].prev, r, SubSeq(all, 1, cut))
           ELSE IF y = r THEN Sibling(page[p], p, page[p].next, SubSeq(all, cut + 1, Len(all)))
           ELSE IF y = q THEN Sibling(page[q], page[q].prev, page[q].next, f)
           ELSE IF y = page[p].next THEN Sibling(page[y], r, page[y].next, page[y].ents)
           ELSE page[y]]
  BY <1>1, <1>2, <1>3, <1>4 DEF SplitPages, Sibling
<1>7. QED
  BY <1>1, <1>3, <1>4, <1>5, <1>6 DEF LowerPages

\* A split moves a cursor to another page; that it is one, and the key it has
\* saved, stay.
SameMark(c, d) == d.init = c.init /\ d.acquire = c.acquire /\ d.key = c.key

LEMMA SplitMark ==
  ASSUME NEW c \in Cursor, NEW p, NEW l, NEW r, NEW skip, NEW cut
  PROVE  SameMark(c, SplitCursor(c, p, l, r, skip, cut))
<1>1. /\ c = [init |-> c.init, acquire |-> c.acquire, key |-> c.key, pgno |-> c.pgno, index |-> c.index]
  BY DEF Cursor
<1>2. QED
  BY <1>1 DEF SplitCursor, SameMark

\* The file does not shrink, and the hint is as before.
Grown(U, W) == /\ W.last = U.last /\ U.npages \in Nat /\ W.npages \in Nat /\ U.npages <= W.npages
               /\ SameMark(U.cursor, W.cursor)

\* Splits only add pages to the file.
LEMMA GrownTwice ==
  ASSUME NEW M, NEW U, NEW W, Grown(M, U), Grown(U, W)
  PROVE  Grown(M, W)
BY DEF Grown, SameMark

\* A split leaves the pages from level h on.
Above(U, W, R, lv, S, lv2, h) ==
  /\ R \subseteq S /\ Kept(R, lv, lv2)
  /\ \A y \in R : lv[y] >= h => W.page[y] = U.page[y]
  /\ Grown(U, W)

\* A page without room is not empty.
LEMMA NoRoom ==
  ASSUME NEW pg \in Page, ~HasRoom(pg)
  PROVE  Len(pg.ents) # 0
<1>1. pg.leaf \in BOOLEAN /\ ~Fits(Sizes(pg.leaf, Len(pg.ents) + 1))
  BY PageParts DEF HasRoom
<1>2. Fits(Sizes(pg.leaf, 1))
  BY <1>1, FitsTwo
<1>3. QED
  BY <1>1, <1>2

\* The parent's turn: its record i + 1 is to be the new page.
SplitUp(U, R, lv, cont, key, q, i, h, s, x) ==
  \E S, lv2, lo2, hi2 : /\ Mid(s.t, S, lv2, key)
                        /\ Over(s.t, q, i + 1, [k |-> x, v |-> s.r], S, lv2, lo2, hi2, cont)
                        /\ Above(U, s.t, R, lv, S, lv2, h)

SplitHere(U, R, lv, lo, hi, cont, key, p, e, skip, q, i, s, x) ==
  /\ Mid(U, R, lv, key) /\ Over(U, p, skip, e, R, lv, lo, hi, cont) /\ p # P_ROOT /\ ~HasRoom(U.page[p])
  /\ q \in R /\ lv[q] = lv[p] + 1 /\ i \in 1 .. Len(U.page[q].ents) /\ U.page[q].ents[i].v = p
  /\ s = SplitPage(U, p, skip, e) /\ s.r # P_INVALID /\ ~CursorSlips(U, p, skip) /\ KeyFor(s.t.page, s.l, s.r, x)

\* bt_page and bt_psplit below the root: the parent is to have room for a record.
LEMMA SplitLower ==
  ASSUME NEW U, NEW R, NEW lv, NEW lo, NEW hi, NEW cont, NEW key, NEW p, NEW e, NEW skip, NEW q, NEW i, NEW s, NEW x,
         SplitHere(U, R, lv, lo, hi, cont, key, p, e, skip, q, i, s, x)
  PROVE  s.up /\ s.l = p /\ SplitUp(U, R, lv, cont, key, q, i, lv[p] + 1, s, x)
<1>0. /\ Mid(U, R, lv, key) /\ Over(U, p, skip, e, R, lv, lo, hi, cont) /\ p # P_ROOT /\ ~HasRoom(U.page[p])
      /\ q \in R /\ lv[q] = lv[p] + 1 /\ i \in 1 .. Len(U.page[q].ents) /\ U.page[q].ents[i].v = p
      /\ s = SplitPage(U, p, skip, e) /\ s.r # P_INVALID /\ ~CursorSlips(U, p, skip) /\ KeyFor(s.t.page, s.l, s.r, x)
  BY DEF SplitHere
<1> USE <1>0
<1>1. PICK all : all = InsertAt(U.page[p].ents, skip, e)
  OBVIOUS
<1>2. PICK V : V = WithEnts(U.page, p, all)
  OBVIOUS
<1>3. PICK r : r = Spare(U)
  OBVIOUS
<1>4. /\ U \in TreeM /\ CursorOK(U.cursor, U.page, R, lv, key) /\ \E fl, n : FreeOK(U.page, U.free, U.npages, R, fl, n)
  BY DEF Mid
<1>5. PICK fl, n : FreeOK(U.page, U.free, U.npages, R, fl, n)
  BY <1>4
<1>6. /\ p \in R /\ e \in Ent /\ skip \in 1 .. Len(U.page[p].ents) + 1
      /\ Fits(Sizes(U.page[p].leaf, Len(U.page[p].ents)))
      /\ TreeOK(V, R, lv, lo, hi, p) /\ Held(V, R, lv, cont)
  BY <1>1, <1>2 DEF Over
<1>7. R \in SUBSET PageNo /\ lv \in [PageNo -> Nat]
  BY <1>6 DEF TreeOK, Typed
<1>8. U.page \in [PageNo -> Page] /\ p \in PageNo /\ q \in PageNo /\ U.page[p] \in Page /\ U.page[q] \in Page
  BY <1>4, <1>6, <1>7, TreeRecord
<1>9. U.page[p].ents \in Seq(Ent) /\ Len(U.page[p].ents) \in Nat /\ Len(U.page[p].ents) # 0 /\ Len(U.page[q].ents) \in Nat
  BY <1>8, PageParts, NoRoom
<1>10. IsInserted(all, U.page[p].ents, skip, e)
  BY <1>1, <1>6, <1>9, EntInserted
<1>11. all \in Seq(Ent) /\ Len(all) = Len(U.page[p].ents) + 1
  BY <1>10 DEF IsInserted
<1>12. r # P_INVALID /\ \E cut : LowerSplit(U, p, r, skip, all, cut, s)
  BY <1>1, <1>3, <1>4, <1>5, <1>6, <1>7, <1>9, LowerIs
<1>13. PICK cut : LowerSplit(U, p, r, skip, all, cut, s)
  BY <1>12
<1>14. r \in PageNo /\ r \notin R /\ Taken(U) \in TreeM
  BY <1>3, <1>4, <1>5, <1>7, <1>12, Take
<1>15. PICK new : new = LowerPages(U.page, p, r, all, cut)
  OBVIOUS
<1>16. /\ cut \in 1 .. Len(U.page[p].ents) /\ s.up /\ s.l = p /\ s.r = r
       /\ s.t = [page |-> new, npages |-> Taken(U).npages,
                 free |-> Taken(U).free, memory |-> Taken(U).memory, cursor |-> s.t.cursor, last |-> U.last]
       /\ LowerCursor(U, p, r, skip, cut, s.t.cursor)
  BY <1>13, <1>15 DEF LowerSplit
<1>17. cut \in 1 .. Len(all) /\ cut # Len(all) /\ p # r
  BY <1>6, <1>9, <1>11, <1>14, <1>16
<1>18. IsLower(U.page, new, p, r, all, cut)
  BY <1>8, <1>11, <1>14, <1>15, <1>17, LowerPagesAre
<1>19. s.t.page = new /\ s.t.npages = Taken(U).npages /\ s.t.free = Taken(U).free /\ s.t.last = U.last
  BY <1>16
<1>20. KeyFor(new, p, r, x)
  BY <1>16, <1>19
<1>21. SplitAt(V, R, lv, lo, hi, p, r, cut, q, i, x)
  <2>1. U \in TreeM /\ p \in R /\ r \in PageNo /\ r \notin R /\ cut \in 1 .. Len(U.page[p].ents)
    BY <1>4, <1>6, <1>14, <1>16
  <2>2. QED
    BY <1>1, <1>2, <1>7, <1>11, <1>18, <1>20, <2>1, LowerAt
<1>22. PICK S : S = R \cup {r}
  OBVIOUS
<1>23. PICK lv2 : lv2 = [lv EXCEPT ![r] = lv[p]]
  OBVIOUS
<1>24. PICK lo2 : lo2 = [lo EXCEPT ![r] = x]
  OBVIOUS
<1>25. PICK hi2 : hi2 = [hi EXCEPT ![r] = hi[p], ![p] = x]
  OBVIOUS
<1>26. lv2[r] = lv[p] /\ Kept(R, lv, lv2)
  BY <1>7, <1>14, <1>23 DEF Kept
<1>27. /\ WithEnts(new, q, InsertAt(new[q].ents, i + 1, [k |-> x, v |-> r])) = SplitPages(V, p, r, cut, q, i, x)
       /\ new[q] = U.page[q]
  BY <1>2, <1>8, <1>14, <1>15, <1>21, LowerJoin
<1>28. TreeOK(WithEnts(new, q, InsertAt(new[q].ents, i + 1, [k |-> x, v |-> r])), S, lv2, lo2, hi2, q)
  <2>1. TreeOK(SplitPages(V, p, r, cut, q, i, x), R \cup {r}, [lv EXCEPT ![r] = lv[p]],
                [lo EXCEPT ![r] = x], [hi EXCEPT ![r] = hi[p], ![p] = x], q)
    BY <1>21, SplitTree
  <2>2. QED
    BY <1>22, <1>23, <1>24, <1>25, <1>27, <2>1, Zenon
<1>29. Held(WithEnts(new, q, InsertAt(new[q].ents, i + 1, [k |-> x, v |-> r])), S, lv2, cont)
  <2>1. Held(SplitPages(V, p, r, cut, q, i, x), R \cup {r}, [lv EXCEPT ![r] = lv[p]], cont)
    BY <1>6, <1>21, HeldSplit
  <2>2. QED
    BY <1>22, <1>23, <1>27, <2>1, Zenon
<1>30. q # p /\ x \in 0 .. MaxKey
  BY <1>21, SplitKey
<1>31. Fits(Sizes(new[q].leaf, Len(new[q].ents)))
  <2>1. Fits(Sizes(V[q].leaf, Len(V[q].ents)))
    BY <1>6, <1>30 DEF TreeOK, Fitting
  <2>2. V[q] = U.page[q]
    BY <1>2, <1>8, <1>30, WithEntsIs
  <2>3. QED
    BY <1>27, <2>1, <2>2
<1>32. q \in S /\ [k |-> x, v |-> r] \in Ent /\ i + 1 \in 1 .. Len(new[q].ents) + 1
  BY <1>9, <1>14, <1>22, <1>27, <1>30 DEF Ent
<1>33. Over(s.t, q, i + 1, [k |-> x, v |-> s.r], S, lv2, lo2, hi2, cont)
  BY <1>16, <1>19, <1>28, <1>29, <1>31, <1>32 DEF Over
<1>34. s.t.cursor \in Cursor /\ CursorOK(s.t.cursor, new, S, lv2, key)
  <2>1. PICK c : c = s.t.cursor
    OBVIOUS
  <2>2. LowerCursor(U, p, r, skip, cut, c) /\ cut \in 1 .. Len(U.page[p].ents)
    BY <1>16, <2>1
  <2>3. c \in Cursor /\ CursorOK(c, new, R \cup {r}, lv2, key)
    <3>1. /\ U \in TreeM /\ R \in SUBSET PageNo /\ CursorOK(U.cursor, U.page, R, lv, key)
          /\ p \in R /\ r \in PageNo /\ r \notin R /\ skip \in 1 .. Len(U.page[p].ents) + 1 /\ all \in Seq(Ent)
      BY <1>4, <1>6, <1>7, <1>11, <1>14
    <3>2. QED
      BY <1>10, <1>18, <1>26, <2>2, <3>1, LowerCursorIs
  <2>4. QED
    BY <1>22, <2>1, <2>3
<1>35. new \in [PageNo -> Page]
  <2>1. WithEnts(new, q, InsertAt(new[q].ents, i + 1, [k |-> x, v |-> r])) \in [PageNo -> Page]
    BY <1>28 DEF TreeOK, Typed
  <2>2. PICK f : f = InsertAt(new[q].ents, i + 1, [k |-> x, v |-> r])
    OBVIOUS
  <2>3. WithEnts(new, q, f) = [new EXCEPT ![q] = Sibling(new[q], new[q].prev, new[q].next, f)]
    BY DEF WithEnts
  <2>4. DOMAIN new = PageNo /\ new = [y \in PageNo |-> new[y]]
    BY <1>15 DEF LowerPages
  <2>5. \A y \in PageNo : y # q => new[y] = WithEnts(new, q, f)[y]
    BY <1>8, <2>3, <2>4
  <2>6. \A y \in PageNo : new[y] \in Page
    BY <1>8, <1>27, <2>1, <2>2, <2>5
  <2>7. QED
    BY <2>4, <2>6
<1>36. s.t \in TreeM
  <2>1. Taken(U).npages \in 2 .. MaxPages /\ Taken(U).free \in 0 .. MaxPages - 1 /\ Taken(U).memory \in Nat
    BY <1>14, TreeRecord
  <2>2. U.last \in Hint
    BY <1>4, TreeRecord
  <2>3. QED
    BY <1>16, <1>34, <1>35, <2>1, <2>2 DEF TreeM
<1>37. \E f, m : FreeOK(new, Taken(U).free, Taken(U).npages, S, f, m)
  BY <1>3, <1>4, <1>5, <1>6, <1>7, <1>12, <1>18, <1>22, LowerFree
<1>38. Mid(s.t, S, lv2, key)
  BY <1>19, <1>34, <1>36, <1>37 DEF Mid
<1>39. ASSUME NEW y \in R, lv[y] >= lv[p] + 1 PROVE new[y] = U.page[y]
  <2>1. y # p /\ y # r /\ y \in PageNo
    <3>1. lv[p] \in Nat
      BY <1>7, <1>8
    <3>2. QED
      BY <1>6, <1>7, <1>14, <1>39, <3>1
  <2>2. y # U.page[p].next
    <3>1. V[p].next = U.page[p].next
      BY <1>2, <1>8, WithEntsIs
    <3>2. V[p].next \in R => lv[V[p].next] = lv[p]
      <4>1. \/ V[p].next = P_INVALID \/ lv[V[p].next] = lv[p]
        BY <1>6 DEF TreeOK, Linked
      <4>2. P_INVALID \notin R
        BY <1>7, Numbers
      <4>3. QED
        BY <4>1, <4>2
    <3>3. lv[p] \in Nat
      BY <1>7, <1>8
    <3>4. QED
      BY <1>39, <3>1, <3>2, <3>3
  <2>3. QED
    BY <1>18, <2>1, <2>2 DEF IsLower
<1>40. Above(U, s.t, R, lv, S, lv2, lv[p] + 1)
  <2>1. U.npages \in Nat /\ Taken(U).npages \in Nat
    BY <1>4, <1>14, TreeRecord
  <2>2. U.npages <= Taken(U).npages
    BY <1>3, <1>4, <1>5, <1>7, <1>12, Take
  <2>5. SameMark(U.cursor, s.t.cursor)
    <3>1. s.t.cursor = U.cursor \/ s.t.cursor = SplitCursor(U.cursor, p, p, r, skip, cut)
      BY <1>16 DEF LowerCursor
    <3>2. U.cursor \in Cursor
      BY <1>4, TreeRecord
    <3>3. QED
      BY ONLY <3>1, <3>2, SplitMark DEF SameMark
  <2>3. Grown(U, s.t)
    BY ONLY <1>19, <2>1, <2>2, <2>5 DEF Grown
  <2>4. QED
    BY <1>19, <1>22, <1>26, <1>39, <2>3 DEF Above
<1>41. QED
  BY <1>16, <1>33, <1>38, <1>40 DEF SplitUp

\* A tree whose records all fit.
Sound(U, R, lv, lo, hi, cont) ==
  /\ TreeOK(U.page, R, lv, lo, hi, P_INVALID)
  /\ Held(U.page, R, lv, cont)

\* What RootSplit returns.
RootSplitIs(U, l, r, skip, all, cut, s) ==
  /\ cut \in 1 .. Len(U.page[P_ROOT].ents) /\ cut = Cut(Sizes(U.page[P_ROOT].leaf, Len(U.page[P_ROOT].ents) + 1), skip)
  /\ ~s.up
  /\ s.t = [page |-> RootPages(WithEnts(U.page, P_ROOT, all), l, r, cut), npages |-> Taken(Taken(U)).npages,
            free |-> Taken(Taken(U)).free, memory |-> Taken(Taken(U)).memory,
            cursor |-> SplitCursor(U.cursor, P_ROOT, l, r, skip, cut), last |-> U.last]

\* The two pages of a root split.
TwoTaken(U, R, l, r, T) ==
  /\ l # P_INVALID /\ l \in PageNo /\ l \notin R /\ r \in PageNo /\ r \notin R /\ l # r
  /\ T \in TreeM /\ T.page = U.page /\ T.cursor = U.cursor /\ Grown(U, T)
  /\ l < T.npages /\ r < T.npages
  /\ \E f, m : FreeOK(U.page, T.free, T.npages, R \cup {l, r}, f, m)

\* Two pages for the halves of the root.
LEMMA TakeTwo ==
  ASSUME NEW U \in TreeM, NEW R \in SUBSET PageNo, NEW fl, NEW n, FreeOK(U.page, U.free, U.npages, R, fl, n),
         NEW l, l = Spare(U), NEW r, r = Spare(Taken(U)), r # P_INVALID
  PROVE  TwoTaken(U, R, l, r, Taken(Taken(U)))
<1>1. l # P_INVALID
  <2>1. ASSUME l = P_INVALID PROVE FALSE
    <3>1. Taken(U) = U
      BY <2>1 DEF Taken
    <3>2. QED
      BY <2>1, <3>1
  <2>2. QED
    BY <2>1
<1>2. PICK T : T = Taken(U)
  OBVIOUS
<1>3. /\ T \in TreeM /\ T.page = U.page /\ T.cursor = U.cursor /\ T.last = U.last
      /\ l \in PageNo /\ l \notin R /\ l < T.npages /\ U.npages <= T.npages
      /\ \E f, m : FreeOK(U.page, T.free, T.npages, R \cup {l}, f, m)
  BY <1>1, <1>2, Take
<1>4. PICK f, m : FreeOK(T.page, T.free, T.npages, R \cup {l}, f, m)
  BY <1>3
<1>5. PICK S : S = R \cup {l}
  OBVIOUS
<1>6. S \subseteq PageNo /\ r = Spare(T) /\ FreeOK(T.page, T.free, T.npages, S, f, m)
  BY <1>2, <1>3, <1>4, <1>5
<1>7. PICK W : W = Taken(T)
  OBVIOUS
<1>8. /\ W \in TreeM /\ W.page = T.page /\ W.cursor = T.cursor /\ W.last = T.last
      /\ r \in PageNo /\ r \notin S /\ r < W.npages /\ T.npages <= W.npages
      /\ \E g, k : FreeOK(T.page, W.free, W.npages, S \cup {r}, g, k)
  BY <1>3, <1>6, <1>7, Take
<1>9. S \cup {r} = R \cup {l, r} /\ l # r /\ r \notin R
  BY <1>5, <1>8
<1>10. l < W.npages
  <2>1. T.npages \in Nat /\ W.npages \in Nat /\ l \in Nat
    <3>1. T.npages \in 2 .. MaxPages /\ W.npages \in 2 .. MaxPages
      BY <1>3, <1>8, TreeRecord
    <3>2. QED
      BY <1>3, <3>1, Numbers
  <2>2. QED
    BY <1>3, <1>8, <2>1
<1>11. W = Taken(Taken(U))
  BY <1>2, <1>7
<1>12. \E g, k : FreeOK(U.page, W.free, W.npages, R \cup {l, r}, g, k)
  BY <1>3, <1>8, <1>9
<1>13. Grown(U, W)
  <2>1. U.npages \in Nat /\ T.npages \in Nat /\ W.npages \in Nat
    BY <1>3, <1>8, TreeRecord
  <2>2. QED
    BY ONLY <1>3, <1>8, <2>1 DEF Grown, SameMark
<1>14. QED
  BY <1>1, <1>3, <1>8, <1>9, <1>10, <1>11, <1>12, <1>13 DEF TwoTaken

\* SplitPage of the root, written as new pages and a new cursor.
LEMMA RootIs ==
  ASSUME NEW U \in TreeM, NEW R \in SUBSET PageNo, NEW fl, NEW n, FreeOK(U.page, U.free, U.npages, R, fl, n), P_ROOT \in R,
         NEW e \in Ent,
         NEW skip \in 1 .. Len(U.page[P_ROOT].ents) + 1, NEW all, all = InsertAt(U.page[P_ROOT].ents, skip, e),
         Fits(Sizes(U.page[P_ROOT].leaf, Len(U.page[P_ROOT].ents))), ~HasRoom(U.page[P_ROOT]),
         NEW s, s = RootSplit(U, skip, e), s.r # P_INVALID, NEW l, l = Spare(U), NEW r, r = Spare(Taken(U))
  PROVE  r # P_INVALID /\ \E cut : RootSplitIs(U, l, r, skip, all, cut, s)
<1>1. r # P_INVALID
  BY DEF RootSplit, Failed
<1>2. PICK h : h = U.page[P_ROOT]
  OBVIOUS
<1>3. /\ h \in Page /\ h.leaf \in BOOLEAN /\ h.ents \in Seq(Ent) /\ Len(h.ents) \in Nat /\ P_ROOT \in PageNo
      /\ h = Sibling(h, h.prev, h.next, h.ents) /\ U.page \in [PageNo -> Page]
  <2>1. h \in Page /\ P_ROOT \in PageNo /\ U.page \in [PageNo -> Page]
    BY <1>2, TreeRecord
  <2>2. QED
    BY <2>1, PageParts
<1>4. PICK m : m = Len(h.ents)
  OBVIOUS
<1>5. m \in Nat /\ skip \in 1 .. m + 1 /\ Len(all) = m + 1
  <2>1. IsInserted(all, h.ents, skip, e)
    BY <1>2, <1>3, EntInserted
  <2>2. QED
    BY <1>2, <1>3, <1>4, <2>1 DEF IsInserted
<1>6. PICK cut : cut = Cut(Sizes(h.leaf, m + 1), skip)
  OBVIOUS
<1>7. cut \in 1 .. m
  <2>1. Fits(Sizes(h.leaf, m)) /\ ~Fits(Sizes(h.leaf, m + 1)) /\ skip \in Nat
    BY <1>2, <1>4, <1>5 DEF HasRoom
  <2>2. QED
    BY <1>3, <1>5, <1>6, <2>1, CutIs
<1>8. PICK T : T = Taken(Taken(U))
  OBVIOUS
<1>9. /\ T \in TreeM /\ T.page = U.page /\ T.cursor = U.cursor /\ T.last = U.last
      /\ l \in PageNo /\ l \notin R /\ r \in PageNo /\ r \notin R /\ l # r
  <2>1. TwoTaken(U, R, l, r, Taken(Taken(U)))
    BY <1>1, TakeTwo
  <2>2. QED
    BY <1>8, <2>1 DEF TwoTaken, Grown
<1>10. PICK a : a = Sibling(h, P_INVALID, r, SubSeq(all, 1, cut))
  OBVIOUS
<1>11. PICK b : b = Sibling(h, l, P_INVALID, SubSeq(all, cut + 1, Len(all)))
  OBVIOUS
<1>12. PICK g : g = <<[k |-> 0, v |-> l], [k |-> all[cut + 1].k, v |-> r]>>
  OBVIOUS
<1>13. PICK z : z = [h EXCEPT !.leaf = FALSE, !.ents = g]
  OBVIOUS
<1>14. PICK c : c = SplitCursor(U.cursor, P_ROOT, l, r, skip, cut)
  OBVIOUS
<1>15. s = [t |-> [T EXCEPT !.page[l] = a, !.page[r] = b, !.page[P_ROOT] = z,
                            !.cursor = SplitCursor(@, P_ROOT, l, r, skip, cut)],
            l |-> l, r |-> r, up |-> FALSE]
  <2>1. InsertAt(h.ents, skip, e) = all /\ Cut(Sizes(h.leaf, Len(all)), skip) = cut
    BY <1>2, <1>5, <1>6
  <2>2. QED
    BY <1>1, <1>2, <1>8, <1>10, <1>11, <1>12, <1>13, <2>1 DEF RootSplit
<1>16. PICK new : new = [[[U.page EXCEPT ![l] = a] EXCEPT ![r] = b] EXCEPT ![P_ROOT] = z]
  OBVIOUS
<1>17. s.t = [page |-> new, npages |-> T.npages, free |-> T.free, memory |-> T.memory,
              cursor |-> c, last |-> U.last]
  <2>1. s.t = [T EXCEPT !.page[l] = a, !.page[r] = b, !.page[P_ROOT] = z,
                        !.cursor = SplitCursor(T.cursor, P_ROOT, l, r, skip, cut)]
    BY <1>15
  <2>2. s.t = [T EXCEPT !.page[l] = a, !.page[r] = b, !.page[P_ROOT] = z, !.cursor = c]
    BY <1>9, <1>14, <2>1
  <2>3. T = [page |-> T.page, npages |-> T.npages, free |-> T.free, memory |-> T.memory,
             cursor |-> T.cursor, last |-> T.last]
    BY <1>9, TreeRecord
  <2>4. s.t = [T EXCEPT !.page = [[[T.page EXCEPT ![l] = a] EXCEPT ![r] = b] EXCEPT ![P_ROOT] = z], !.cursor = c]
    BY ONLY <2>2, <2>3
  <2>5. s.t = [T EXCEPT !.page = new, !.cursor = c]
    BY <1>9, <1>16, <2>4
  <2>6. QED
    BY <1>9, <2>5 DEF TreeM
<1>18. PICK V : V = WithEnts(U.page, P_ROOT, all)
  OBVIOUS
<1>19. new = RootPages(V, l, r, cut)
  <2>1. /\ V[P_ROOT].ents = all /\ V[P_ROOT].leaf = h.leaf /\ V[P_ROOT].prev = h.prev /\ V[P_ROOT].next = h.next
        /\ \A y \in PageNo : y # P_ROOT => V[y] = U.page[y]
    BY <1>2, <1>3, <1>18, WithEntsIs
  <2>2. z = [leaf |-> FALSE, prev |-> h.prev, next |-> h.next, ents |-> g]
    BY <1>3, <1>13 DEF Sibling
  <2>3. l # P_ROOT /\ r # P_ROOT
    BY <1>9
  <2>4. new = [y \in PageNo |-> IF y = P_ROOT THEN z ELSE IF y = l THEN a ELSE IF y = r THEN b ELSE U.page[y]]
    BY <1>3, <1>9, <1>16, <2>3
  <2>5. a = Sibling(V[P_ROOT], P_INVALID, r, SubSeq(V[P_ROOT].ents, 1, cut))
    BY <1>10, <2>1 DEF Sibling
  <2>6. b = Sibling(V[P_ROOT], l, P_INVALID, SubSeq(V[P_ROOT].ents, cut + 1, Len(V[P_ROOT].ents)))
    BY <1>11, <2>1 DEF Sibling
  <2>7. z = [leaf |-> FALSE, prev |-> V[P_ROOT].prev, next |-> V[P_ROOT].next,
             ents |-> <<[k |-> 0, v |-> l], [k |-> V[P_ROOT].ents[cut + 1].k, v |-> r]>>]
    BY <1>12, <2>1, <2>2
  <2>8. QED
    BY <2>1, <2>4, <2>5, <2>6, <2>7 DEF RootPages
<1>20. ~s.up
  BY <1>15
<1>21. RootSplitIs(U, l, r, skip, all, cut, s)
  BY <1>2, <1>4, <1>6, <1>7, <1>8, <1>14, <1>17, <1>18, <1>19, <1>20 DEF RootSplitIs
<1>22. QED
  BY <1>1, <1>21

\* A cursor on a root that was a leaf follows its record to one of the
\* halves.
LEMMA RootCursorIs ==
  ASSUME NEW U \in TreeM, NEW R \in SUBSET PageNo, NEW lv, NEW key, CursorOK(U.cursor, U.page, R, lv, key),
         P_ROOT \in R, NEW l \in PageNo, l \notin R, NEW r \in PageNo, r \notin R,
         NEW skip \in 1 .. Len(U.page[P_ROOT].ents) + 1, NEW e,
         NEW all \in Seq(Ent), IsInserted(all, U.page[P_ROOT].ents, skip, e),
         NEW cut \in 1 .. Len(U.page[P_ROOT].ents),
         cut = Cut(Sizes(U.page[P_ROOT].leaf, Len(U.page[P_ROOT].ents) + 1), skip),
         NEW V, V = WithEnts(U.page, P_ROOT, all), NEW new, IsRootSplit(V, new, l, r, cut),
         NEW c, c = SplitCursor(U.cursor, P_ROOT, l, r, skip, cut), ~CursorSlips(U, P_ROOT, skip),
         NEW lv2, lv2[l] = lv[P_ROOT], lv2[r] = lv[P_ROOT], Kept(R \ {P_ROOT}, lv, lv2)
  PROVE  c \in Cursor /\ CursorOK(c, new, R \cup {l, r}, lv2, key)
<1>1. PICK d : d = U.cursor
  OBVIOUS
<1>2. PICK old : old = U.page[P_ROOT].ents
  OBVIOUS
<1>3. U.page \in [PageNo -> Page] /\ P_ROOT \in PageNo /\ U.page[P_ROOT] \in Page /\ d \in Cursor
  BY <1>1, TreeRecord
<1>4. Len(old) \in Nat /\ skip \in Nat /\ cut \in Nat /\ cut # 0
  <2>1. Len(old) \in Nat
    BY <1>2, <1>3, PageParts
  <2>2. QED
    BY <1>2, <2>1
<1>5. c \in Cursor /\ c.init = d.init /\ c.acquire = d.acquire /\ c.key = d.key
  BY <1>1, <1>3, <1>4, SplitCursorType
<1>6. c.acquire => c.init /\ c.key \in Key
  BY <1>1, <1>5 DEF CursorOK
<1>7. ASSUME d.init, ~d.acquire
      PROVE  /\ c.pgno \in R \cup {l, r} /\ lv2[c.pgno] = 0
             /\ c.index \in 1 .. Len(new[c.pgno].ents)
             /\ new[c.pgno].ents[c.index].k = key
  <2>1. /\ d.pgno \in R /\ lv[d.pgno] = 0 /\ d.index \in 1 .. Len(U.page[d.pgno].ents)
        /\ U.page[d.pgno].ents[d.index].k = key
    BY <1>1, <1>7 DEF CursorOK
  <2>2. CASE d.pgno # P_ROOT
    <3>1. c = d
      BY <1>1, <2>2 DEF SplitCursor
    <3>2. d.pgno \in PageNo /\ d.pgno \notin {P_ROOT, l, r}
      BY <2>1, <2>2
    <3>3. new[d.pgno] = V[d.pgno]
      BY <3>2 DEF IsRootSplit
    <3>4. V[d.pgno] = U.page[d.pgno]
      BY <1>3, <3>2, WithEntsIs
    <3>5. lv2[d.pgno] = lv[d.pgno]
      BY <2>1, <2>2 DEF Kept
    <3>6. QED
      BY <2>1, <3>1, <3>3, <3>4, <3>5
  <2>3. CASE d.pgno = P_ROOT
    <3>1. d.index \in 1 .. Len(old) /\ old[d.index].k = key
      BY <1>2, <2>1, <2>3
    <3>2. lv2[l] = 0 /\ lv2[r] = 0
      BY <2>1, <2>3
    <3>3. ~Slips(skip, cut, d.index)
      <4>1. On(d, P_ROOT)
        BY <1>7, <2>3 DEF On
      <4>2. QED
        BY <1>1, <1>2, <4>1 DEF CursorSlips, Slips
    <3>4. PICK a : a = new[l].ents
      OBVIOUS
    <3>5. PICK b : b = new[r].ents
      OBVIOUS
    <3>6. V[P_ROOT].ents = all
      BY <1>3, WithEntsIs
    <3>7. Fore(a, all, cut)
      BY <3>4, <3>6 DEF IsRootSplit, Fore
    <3>8. Back(b, all, cut)
      BY <3>5, <3>6 DEF IsRootSplit, Back
    <3>9. IsInserted(all, old, skip, e) /\ skip \in 1 .. Len(old) + 1 /\ cut \in 1 .. Len(old)
      BY <1>2
    <3>10. IsAt(c, l, a, r, b, old[d.index])
      BY <1>1, <1>3, <1>4, <1>7, <2>3, <3>1, <3>3, <3>7, <3>8, <3>9, MovedCursor
    <3>11. QED
      BY <3>1, <3>2, <3>4, <3>5, <3>10 DEF IsAt
  <2>4. QED
    BY <2>2, <2>3
<1>8. QED
  BY <1>5, <1>6, <1>7 DEF CursorOK

\* bt_root, bt_broot and bt_rroot
LEMMA SplitRoot ==
  ASSUME NEW U, NEW R, NEW lv, NEW lo, NEW hi, NEW cont, NEW key, NEW e, NEW skip,
         Mid(U, R, lv, key), Over(U, P_ROOT, skip, e, R, lv, lo, hi, cont), ~HasRoom(U.page[P_ROOT]),
         NEW s, s = SplitPage(U, P_ROOT, skip, e), s.r # P_INVALID, ~CursorSlips(U, P_ROOT, skip)
  PROVE  /\ ~s.up /\ Grown(U, s.t)
         /\ \E S, lv2, lo2, hi2 : Mid(s.t, S, lv2, key) /\ Sound(s.t, S, lv2, lo2, hi2, cont)
<1>1. PICK all : all = InsertAt(U.page[P_ROOT].ents, skip, e)
  OBVIOUS
<1>2. PICK V : V = WithEnts(U.page, P_ROOT, all)
  OBVIOUS
<1>3. PICK l : l = Spare(U)
  OBVIOUS
<1>4. PICK r : r = Spare(Taken(U))
  OBVIOUS
<1>5. /\ U \in TreeM /\ CursorOK(U.cursor, U.page, R, lv, key) /\ \E fl, n : FreeOK(U.page, U.free, U.npages, R, fl, n)
  BY DEF Mid
<1>6. PICK fl, n : FreeOK(U.page, U.free, U.npages, R, fl, n)
  BY <1>5
<1>7. /\ P_ROOT \in R /\ e \in Ent /\ skip \in 1 .. Len(U.page[P_ROOT].ents) + 1
      /\ Fits(Sizes(U.page[P_ROOT].leaf, Len(U.page[P_ROOT].ents)))
      /\ TreeOK(V, R, lv, lo, hi, P_ROOT) /\ Held(V, R, lv, cont)
  BY <1>1, <1>2 DEF Over
<1>8. R \in SUBSET PageNo /\ lv \in [PageNo -> Nat]
  BY <1>7 DEF TreeOK, Typed
<1>9. U.page \in [PageNo -> Page] /\ P_ROOT \in PageNo /\ U.page[P_ROOT] \in Page
  BY <1>5, <1>7, <1>8, TreeRecord
<1>10. /\ U.page[P_ROOT].ents \in Seq(Ent) /\ Len(U.page[P_ROOT].ents) \in Nat /\ U.page[P_ROOT].leaf \in BOOLEAN
  BY <1>9, PageParts
<1>11. IsInserted(all, U.page[P_ROOT].ents, skip, e)
  BY <1>1, <1>7, <1>10, EntInserted
<1>12. all \in Seq(Ent) /\ Len(all) = Len(U.page[P_ROOT].ents) + 1
  BY <1>11 DEF IsInserted
<1>13. s = RootSplit(U, skip, e)
  BY DEF SplitPage
<1>14. r # P_INVALID /\ \E cut : RootSplitIs(U, l, r, skip, all, cut, s)
  BY <1>1, <1>3, <1>4, <1>5, <1>6, <1>7, <1>8, <1>13, RootIs
<1>15. PICK cut : RootSplitIs(U, l, r, skip, all, cut, s)
  BY <1>14
<1>16. PICK T : T = Taken(Taken(U))
  OBVIOUS
<1>17. TwoTaken(U, R, l, r, T)
  BY <1>3, <1>4, <1>5, <1>6, <1>8, <1>14, <1>16, TakeTwo
<1>18. /\ l \in PageNo /\ l \notin R /\ r \in PageNo /\ r \notin R /\ l # r
       /\ T \in TreeM /\ T.page = U.page /\ l < T.npages /\ r < T.npages
  BY <1>17 DEF TwoTaken
<1>19. PICK new : new = RootPages(V, l, r, cut)
  OBVIOUS
<1>20. PICK c : c = SplitCursor(U.cursor, P_ROOT, l, r, skip, cut)
  OBVIOUS
<1>21. /\ cut \in 1 .. Len(U.page[P_ROOT].ents) /\ cut = Cut(Sizes(U.page[P_ROOT].leaf, Len(U.page[P_ROOT].ents) + 1), skip)
       /\ ~s.up
       /\ s.t = [page |-> new, npages |-> T.npages, free |-> T.free, memory |-> T.memory, cursor |-> c, last |-> U.last]
  BY <1>2, <1>15, <1>16, <1>19, <1>20 DEF RootSplitIs
<1>22. V[P_ROOT].ents = all /\ V[P_ROOT].leaf = U.page[P_ROOT].leaf
       /\ \A y \in PageNo : V[y].next = U.page[y].next
  BY <1>2, <1>9, WithEntsIs
<1>23. RootAt(V, R, lv, lo, hi, l, r, cut)
  <2>1. cut \in Nat /\ cut # 0 /\ cut < Len(V[P_ROOT].ents)
    BY <1>10, <1>12, <1>21, <1>22
  <2>2. PICK m : m = Len(U.page[P_ROOT].ents)
    OBVIOUS
  <2>3. m \in Nat /\ cut \in 0 .. m /\ Len(V[P_ROOT].ents) - cut \in 0 .. m
    BY <1>10, <1>12, <1>21, <1>22, <2>2
  <2>4. Fits(Sizes(V[P_ROOT].leaf, cut)) /\ Fits(Sizes(V[P_ROOT].leaf, Len(V[P_ROOT].ents) - cut))
    BY <1>7, <1>10, <1>22, <2>2, <2>3, FitsFewer
  <2>5. QED
    BY <1>7, <1>18, <2>1, <2>4 DEF RootAt
<1>24. PICK S : S = R \cup {l, r}
  OBVIOUS
<1>25. PICK lv2 : lv2 = [lv EXCEPT ![l] = lv[P_ROOT], ![r] = lv[P_ROOT], ![P_ROOT] = lv[P_ROOT] + 1]
  OBVIOUS
<1>26. PICK x : x = V[P_ROOT].ents[cut + 1].k
  OBVIOUS
<1>27. PICK lo2 : lo2 = [lo EXCEPT ![l] = 0, ![r] = x]
  OBVIOUS
<1>28. PICK hi2 : hi2 = [hi EXCEPT ![l] = x, ![r] = MaxKey + 1]
  OBVIOUS
<1>29. TreeOK(new, S, lv2, lo2, hi2, P_INVALID)
  <2>1. TreeOK(RootPages(V, l, r, cut), R \cup {l, r},
                [lv EXCEPT ![l] = lv[P_ROOT], ![r] = lv[P_ROOT], ![P_ROOT] = lv[P_ROOT] + 1],
                [lo EXCEPT ![l] = 0, ![r] = x], [hi EXCEPT ![l] = x, ![r] = MaxKey + 1], P_INVALID)
    BY <1>23, <1>26, RootTree
  <2>2. QED
    BY <1>19, <1>24, <1>25, <1>27, <1>28, <2>1, Zenon
<1>30. Held(new, S, lv2, cont)
  <2>1. Held(RootPages(V, l, r, cut), R \cup {l, r},
             [lv EXCEPT ![l] = lv[P_ROOT], ![r] = lv[P_ROOT], ![P_ROOT] = lv[P_ROOT] + 1], cont)
    BY <1>7, <1>23, HeldRootSplit
  <2>2. QED
    BY <1>19, <1>24, <1>25, <2>1, Zenon
<1>31. IsRootSplit(V, new, l, r, cut)
  BY <1>19, <1>23, RootPagesAre
<1>32. lv2[l] = lv[P_ROOT] /\ lv2[r] = lv[P_ROOT] /\ Kept(R \ {P_ROOT}, lv, lv2)
  <2>1. l # P_ROOT /\ r # P_ROOT
    BY <1>7, <1>18
  <2>2. lv2[l] = lv[P_ROOT] /\ lv2[r] = lv[P_ROOT]
    BY <1>8, <1>18, <1>25, <2>1
  <2>3. \A y \in R \ {P_ROOT} : lv2[y] = lv[y]
    BY <1>8, <1>18, <1>25
  <2>4. QED
    BY <2>2, <2>3 DEF Kept
<1>33. c \in Cursor /\ CursorOK(c, new, S, lv2, key)
  <2>1. cut \in 1 .. Len(U.page[P_ROOT].ents) /\ cut = Cut(Sizes(U.page[P_ROOT].leaf, Len(U.page[P_ROOT].ents) + 1), skip)
    BY <1>21
  <2>2. U \in TreeM /\ CursorOK(U.cursor, U.page, R, lv, key) /\ P_ROOT \in R /\ skip \in 1 .. Len(U.page[P_ROOT].ents) + 1
    BY <1>5, <1>7
  <2>3. l \in PageNo /\ l \notin R /\ r \in PageNo /\ r \notin R /\ all \in Seq(Ent)
    BY <1>12, <1>18
  <2>4. c \in Cursor /\ CursorOK(c, new, R \cup {l, r}, lv2, key)
    BY <1>2, <1>8, <1>11, <1>20, <1>31, <1>32, <2>1, <2>2, <2>3, RootCursorIs
  <2>5. QED
    BY <1>24, <2>4
<1>34. s.t \in TreeM
  <2>1. T.npages \in 2 .. MaxPages /\ T.free \in 0 .. MaxPages - 1 /\ T.memory \in Nat
    BY <1>18, TreeRecord
  <2>2. U.last \in Hint
    BY <1>5, TreeRecord
  <2>3. new \in [PageNo -> Page]
    BY <1>31 DEF IsRootSplit
  <2>4. QED
    BY <1>21, <1>33, <2>1, <2>2, <2>3 DEF TreeM
<1>35. \E f, m : FreeOK(new, T.free, T.npages, S, f, m)
  <2>1. PICK f, m : FreeOK(U.page, T.free, T.npages, S, f, m)
    BY <1>17, <1>24 DEF TwoTaken
  <2>2. PICK np : np = T.npages
    OBVIOUS
  <2>3. /\ f \in [1 .. m -> PageNo] /\ \A i \in 1 .. m : f[i] \notin S
        /\ \A y \in S : y < np
        /\ \A y \in PageNo : U.page[y].next < np
    BY <2>1, <2>2 DEF FreeOK
  <2>4. /\ new[l].next = r /\ new[r].next = P_INVALID /\ new[P_ROOT].next = V[P_ROOT].next
        /\ \A y \in PageNo : y \notin {P_ROOT, l, r} => new[y] = V[y]
    BY <1>31 DEF IsRootSplit
  <2>5. P_INVALID < np
    <3>1. np \in 2 .. MaxPages
      BY <1>18, <2>2, TreeRecord
    <3>2. QED
      BY <3>1 DEF P_INVALID
  <2>6. \A y \in PageNo : new[y].next < np
    BY <1>9, <1>18, <1>22, <2>2, <2>3, <2>4, <2>5
  <2>7. \A i \in 1 .. m : new[f[i]].next = U.page[f[i]].next
    BY <1>7, <1>22, <1>24, <2>3, <2>4
  <2>8. FreeOK(new, T.free, np, S, f, m)
    BY <2>1, <2>2, <2>3, <2>6, <2>7, FreeKept
  <2>9. QED
    BY <2>2, <2>8
<1>36. s.t.page = new /\ s.t.npages = T.npages /\ s.t.free = T.free /\ s.t.last = U.last /\ s.t.cursor = c
  BY <1>21
<1>37. Mid(s.t, S, lv2, key)
  BY <1>33, <1>34, <1>35, <1>36 DEF Mid
<1>38. Sound(s.t, S, lv2, lo2, hi2, cont)
  BY <1>29, <1>30, <1>36 DEF Sound
<1>39. Grown(U, s.t)
  <2>1. U.cursor \in Cursor
    BY <1>5, TreeRecord
  <2>2. SameMark(U.cursor, s.t.cursor)
    BY ONLY <1>20, <1>36, <2>1, SplitMark
  <2>3. QED
    BY <1>17, <1>36, <2>2 DEF TwoTaken, Grown
<1>40. QED
  BY <1>21, <1>37, <1>38, <1>39

\* bt_split ends at a page with room.
LEMMA SplitRoom ==
  ASSUME NEW U, NEW R, NEW lv, NEW lo, NEW hi, NEW cont, NEW key, NEW p, NEW e, NEW skip,
         Mid(U, R, lv, key), Over(U, p, skip, e, R, lv, lo, hi, cont), lv[p] # 0, HasRoom(U.page[p]),
         NEW W, W = [U EXCEPT !.page[p].ents = InsertAt(@, skip, e)]
  PROVE  /\ Grown(U, W)
         /\ Mid(W, R, lv, key) /\ Sound(W, R, lv, lo, hi, cont)
<1>1. PICK all : all = InsertAt(U.page[p].ents, skip, e)
  OBVIOUS
<1>2. PICK V : V = WithEnts(U.page, p, all)
  OBVIOUS
<1>3. /\ U \in TreeM /\ CursorOK(U.cursor, U.page, R, lv, key) /\ \E fl, n : FreeOK(U.page, U.free, U.npages, R, fl, n)
  BY DEF Mid
<1>4. PICK fl, n : FreeOK(U.page, U.free, U.npages, R, fl, n)
  BY <1>3
<1>5. /\ p \in R /\ e \in Ent /\ skip \in 1 .. Len(U.page[p].ents) + 1
      /\ TreeOK(V, R, lv, lo, hi, p) /\ Held(V, R, lv, cont)
  BY <1>1, <1>2 DEF Over
<1>6. R \in SUBSET PageNo /\ V \in [PageNo -> Page]
  BY <1>5 DEF TreeOK, Typed
<1>7. U.page \in [PageNo -> Page] /\ p \in PageNo /\ U.page[p] \in Page
  BY <1>3, <1>5, <1>6, TreeRecord
<1>8. /\ U.page[p].ents \in Seq(Ent) /\ Len(U.page[p].ents) \in Nat
  BY <1>7, PageParts
<1>9. Len(all) = Len(U.page[p].ents) + 1
  <2>1. IsInserted(all, U.page[p].ents, skip, e)
    BY <1>1, <1>5, <1>8, EntInserted
  <2>2. QED
    BY <2>1 DEF IsInserted
<1>10. /\ V[p].ents = all /\ V[p].leaf = U.page[p].leaf /\ V = [U.page EXCEPT ![p].ents = all]
       /\ \A y \in PageNo : V[y].next = U.page[y].next /\ (y # p => V[y] = U.page[y])
  BY <1>2, <1>7, WithEntsIs
<1>11. W = [page |-> V, npages |-> U.npages, free |-> U.free, memory |-> U.memory,
            cursor |-> U.cursor, last |-> U.last]
  <2>1. W = [U EXCEPT !.page = [U.page EXCEPT ![p].ents = all]]
    BY <1>1, <1>3 DEF TreeM
  <2>2. W = [U EXCEPT !.page = V]
    BY <1>10, <2>1
  <2>3. QED
    BY <1>3, <2>2 DEF TreeM
<1>12. /\ W.page = V /\ W.npages = U.npages /\ W.free = U.free /\ W.cursor = U.cursor /\ W.last = U.last
  BY <1>11
<1>13. W \in TreeM
  <2>1. /\ U.npages \in 2 .. MaxPages /\ U.free \in 0 .. MaxPages - 1
        /\ U.memory \in Nat /\ U.cursor \in Cursor /\ U.last \in Hint
    BY <1>3, TreeRecord
  <2>2. [page |-> V, npages |-> U.npages, free |-> U.free, memory |-> U.memory,
         cursor |-> U.cursor, last |-> U.last] \in TreeM
    BY ONLY <1>6, <2>1 DEF TreeM
  <2>3. QED
    BY ONLY <1>11, <2>2
<1>14. TreeOK(V, R, lv, lo, hi, P_INVALID)
  <2>1. Fits(Sizes(V[p].leaf, Len(V[p].ents)))
    BY <1>9, <1>10 DEF HasRoom
  <2>2. QED
    BY <1>5, <2>1, AllFit
<1>15. CursorOK(U.cursor, V, R, lv, key)
  BY <1>3, <1>6, <1>10 DEF CursorOK
<1>16. FreeOK(V, U.free, U.npages, R, fl, n)
  <2>1. PICK np : np = U.npages
    OBVIOUS
  <2>2. /\ fl \in [1 .. n -> PageNo] /\ \A i \in 1 .. n : fl[i] \notin R
        /\ \A y \in R : y < np
        /\ \A y \in PageNo : U.page[y].next < np
    BY <1>4, <2>1 DEF FreeOK
  <2>3. \A y \in PageNo : V[y].next < np
    BY <1>10, <2>2
  <2>4. \A i \in 1 .. n : V[fl[i]].next = U.page[fl[i]].next
    BY <1>10, <2>2
  <2>5. FreeOK(V, U.free, np, R, fl, n)
    BY <1>4, <2>1, <2>2, <2>3, <2>4, FreeKept
  <2>6. QED
    BY <2>1, <2>5
<1>17. Grown(U, W)
  <2>1. U.npages \in Nat
    BY <1>3, TreeRecord
  <2>2. QED
    BY ONLY <1>12, <2>1 DEF Grown, SameMark
<1>18. QED
  BY <1>5, <1>12, <1>13, <1>14, <1>15, <1>16, <1>17 DEF Mid, Sound

\* __bt_new finds no page: the tree is as before, but for a page that a root
\* split took in vain.
LEMMA SplitFails ==
  ASSUME NEW U, NEW R \in SUBSET PageNo, NEW lv, NEW key, Mid(U, R, lv, key), NEW p, NEW e, NEW skip,
         NEW s, s = SplitPage(U, p, skip, e)
  PROVE  /\ s = [t |-> s.t, l |-> s.l, r |-> s.r, up |-> s.up]
         /\ s.r = P_INVALID => /\ ~s.up /\ Grown(U, s.t) /\ s.t.page = U.page /\ s.t.cursor = U.cursor
                               /\ Mid(s.t, R, lv, key)
<1>1. s = [t |-> s.t, l |-> s.l, r |-> s.r, up |-> s.up]
  BY DEF SplitPage, RootSplit, SortSplit, PageSplitAt, Failed
<1>0. U.npages \in Nat /\ Grown(U, U)
  <2>1. U \in TreeM
    BY DEF Mid
  <2>2. U.npages \in Nat
    BY <2>1, TreeRecord
  <2>3. QED
    BY ONLY <2>2 DEF Grown, SameMark
<1>2. CASE s = Failed(U)
  <2>1. ~s.up /\ s.t = U
    BY <1>2 DEF Failed
  <2>2. QED
    BY <1>0, <1>1, <2>1
<1>3. CASE s = Failed(Taken(U))
  <2>1. ~s.up /\ s.t = Taken(U)
    BY <1>3 DEF Failed
  <2>2. CASE Spare(U) = P_INVALID
    BY <1>0, <1>1, <2>1, <2>2 DEF Taken
  <2>3. CASE Spare(U) # P_INVALID
    <3>1. /\ U \in TreeM /\ CursorOK(U.cursor, U.page, R, lv, key) /\ \E fl, n : FreeOK(U.page, U.free, U.npages, R, fl, n)
      BY DEF Mid
    <3>2. PICK fl, n : FreeOK(U.page, U.free, U.npages, R, fl, n)
      BY <3>1
    <3>3. PICK T : T = Taken(U)
      OBVIOUS
    <3>4. /\ T \in TreeM /\ T.page = U.page /\ T.cursor = U.cursor /\ T.last = U.last
          /\ U.npages <= T.npages
          /\ \E f, m : FreeOK(U.page, T.free, T.npages, R \cup {Spare(U)}, f, m)
      BY <2>3, <3>1, <3>2, <3>3, Take
    <3>5. PICK f, m : FreeOK(U.page, T.free, T.npages, R \cup {Spare(U)}, f, m)
      BY <3>4
    <3>6. FreeOK(U.page, T.free, T.npages, R, f, m)
      BY <3>5 DEF FreeOK
    <3>7. Mid(T, R, lv, key)
      BY <3>1, <3>4, <3>6 DEF Mid
    <3>8. T.npages \in Nat
      BY <3>4, TreeRecord
    <3>9. Grown(U, T)
      BY ONLY <1>0, <3>4, <3>8 DEF Grown, SameMark
    <3>10. QED
      BY <1>1, <2>1, <3>3, <3>4, <3>7, <3>9
  <2>4. QED
    BY <2>2, <2>3
<1>4. CASE s.r # P_INVALID
  BY <1>1, <1>4
<1>5. s = Failed(U) \/ s = Failed(Taken(U)) \/ s.r # P_INVALID
  BY DEF SplitPage, RootSplit, SortSplit, PageSplitAt
<1>6. QED
  BY <1>2, <1>3, <1>4, <1>5

\* The table of steps that Split reads.
IsWalk(M, path, e, short, pgs, f) ==
  f = [j \in pgs |->
         IF j = 0 THEN SplitPage(M, path[Len(path)].pgno, path[Len(path)].index, e)
         ELSE IF f[j - 1].up THEN SplitParent(f[j - 1], path[Len(path) - j], short) ELSE f[j - 1]]

\* The table that Split builds from the leaf upwards exists.
LEMMA WalkExists ==
  ASSUME NEW M, NEW path, NEW e, NEW short, NEW n \in Nat
  PROVE  \E f : IsWalk(M, path, e, short, 0 .. n, f)
<1> DEFINE S == {m \in Nat : \E f : IsWalk(M, path, e, short, 0 .. m, f)}
<1>1. 0 \in S
  <2>1. PICK a : a = SplitPage(M, path[Len(path)].pgno, path[Len(path)].index, e)
    OBVIOUS
  <2>2. PICK f : f = [j \in 0 .. 0 |-> a]
    OBVIOUS
  <2>3. f = [j \in 0 .. 0 |-> IF j = 0 THEN a
               ELSE IF f[j - 1].up THEN SplitParent(f[j - 1], path[Len(path) - j], short) ELSE f[j - 1]]
    BY <2>2
  <2>4. IsWalk(M, path, e, short, 0 .. 0, f)
    BY <2>1, <2>3 DEF IsWalk
  <2>5. QED
    BY <2>4
<1>2. ASSUME NEW m \in 0 .. n, m # n, m \in S PROVE m + 1 \in S
  <2>1. PICK f : IsWalk(M, path, e, short, 0 .. m, f)
    BY <1>2
  <2>2. PICK a : a = SplitPage(M, path[Len(path)].pgno, path[Len(path)].index, e)
    OBVIOUS
  <2>3. PICK h : h = [j \in 0 .. m + 1 |-> IF f[j - 1].up THEN SplitParent(f[j - 1], path[Len(path) - j], short) ELSE f[j - 1]]
    OBVIOUS
  <2>4. m \in Nat /\ m + 1 \in Nat
    BY <1>2
  <2>5. PICK g : g = [j \in 0 .. m + 1 |-> IF j \in 0 .. m THEN f[j] ELSE h[j]]
    OBVIOUS
  <2>6. \A j \in 0 .. m + 1 : j # 0 => j - 1 \in 0 .. m /\ j - 1 \in 0 .. m + 1
    BY <2>4
  <2>7. \A j \in 0 .. m + 1 : j # 0 => g[j - 1] = f[j - 1]
    BY <2>5, <2>6
  <2>8. f = [j \in 0 .. m |-> IF j = 0 THEN a
               ELSE IF f[j - 1].up THEN SplitParent(f[j - 1], path[Len(path) - j], short) ELSE f[j - 1]]
    BY <2>1, <2>2 DEF IsWalk
  <2>9. \A j \in 0 .. m : j \in 0 .. m + 1 /\ f[j] = IF j = 0 THEN a ELSE h[j]
    BY <2>3, <2>4, <2>8
  <2>10. \A j \in 0 .. m + 1 : g[j] = IF j = 0 THEN a ELSE h[j]
    BY <2>4, <2>5, <2>9
  <2>11. \A j \in 0 .. m + 1 : j # 0 => h[j] = IF g[j - 1].up THEN SplitParent(g[j - 1], path[Len(path) - j], short) ELSE g[j - 1]
    BY <2>3, <2>7
  <2>12. g = [j \in 0 .. m + 1 |-> IF j = 0 THEN a
               ELSE IF g[j - 1].up THEN SplitParent(g[j - 1], path[Len(path) - j], short) ELSE g[j - 1]]
    BY <2>5, <2>10, <2>11
  <2>13. IsWalk(M, path, e, short, 0 .. m + 1, g)
    BY <2>2, <2>12 DEF IsWalk
  <2>14. QED
    BY <2>4, <2>13
<1>3. n \in S
  <2> HIDE DEF S
  <2>1. \A m \in 0 .. n : m \in S
    BY <1>1, <1>2, Counting
  <2>2. QED
    BY <2>1
<1>4. QED
  BY <1>3

\* Split is the last entry of that table.
LEMMA SplitWalk ==
  ASSUME NEW M, NEW path, NEW e, NEW short, Len(path) \in Nat, Len(path) # 0
  PROVE  \E f : IsWalk(M, path, e, short, 0 .. Len(path) - 1, f) /\ Split(M, path, e, short) = f[Len(path) - 1]
<1> DEFINE f == CHOOSE g : IsWalk(M, path, e, short, 0 .. Len(path) - 1, g)
<1>1. Len(path) - 1 \in Nat
  OBVIOUS
<1>2. IsWalk(M, path, e, short, 0 .. Len(path) - 1, f)
  <2>1. \E g : IsWalk(M, path, e, short, 0 .. Len(path) - 1, g)
    BY <1>1, WalkExists
  <2>2. QED
    BY <2>1
<1>3. Split(M, path, e, short) = f[Len(path) - 1]
  BY DEF Split, IsWalk
<1>4. QED
  BY <1>2, <1>3

\* A split that is done, and one that is the parent's turn.
TurnDone(M, cont, key, s) ==
  /\ s.r # P_INVALID /\ ~s.up /\ Grown(M, s.t)
  /\ \E S, lv2, lo2, hi2 : Mid(s.t, S, lv2, key) /\ Sound(s.t, S, lv2, lo2, hi2, cont)
TurnUp(M, R, lv, cont, key, par, h, s) ==
  /\ s.r # P_INVALID /\ s.up
  /\ \A x : KeyFor(s.t.page, s.l, s.r, x) => SplitUp(M, R, lv, cont, key, par.pgno, par.index, h, s, x)
Turn(M, R, lv, cont, key, path, j, s) ==
  /\ s = [t |-> s.t, l |-> s.l, r |-> s.r, up |-> s.up]
  /\ \/ s.r = P_INVALID /\ ~s.up
     \/ TurnDone(M, cont, key, s)
     \/ j + 1 < Len(path) /\ TurnUp(M, R, lv, cont, key, path[Len(path) - (j + 1)], j + 1, s)

\* A split one level up touches no page below it.
LEMMA AboveTwice ==
  ASSUME NEW M, NEW U, NEW W, NEW R, NEW lv, NEW S, NEW lv2, NEW Q, NEW lv3, NEW h \in Nat,
         Above(M, U, R, lv, S, lv2, h), Above(U, W, S, lv2, Q, lv3, h + 1), \A y \in R : lv[y] \in Nat
  PROVE  Above(M, W, R, lv, Q, lv3, h + 1)
<1>1. /\ R \subseteq S /\ (\A y \in R : lv2[y] = lv[y]) /\ (\A y \in R : lv[y] >= h => U.page[y] = M.page[y])
      /\ Grown(M, U)
  BY DEF Above, Kept
<1>2. /\ S \subseteq Q /\ (\A y \in S : lv3[y] = lv2[y]) /\ (\A y \in S : lv2[y] >= h + 1 => W.page[y] = U.page[y])
      /\ Grown(U, W)
  BY DEF Above, Kept
<1>3. ASSUME NEW y \in R, lv[y] >= h + 1 PROVE W.page[y] = M.page[y]
  <2>1. lv[y] >= h /\ lv2[y] >= h + 1 /\ y \in S
    BY <1>1, <1>3
  <2>2. QED
    BY <1>1, <1>2, <2>1
<1>4. R \subseteq Q /\ \A y \in R : lv3[y] = lv[y]
  BY <1>1, <1>2
<1>5. Grown(M, W)
  BY ONLY <1>1, <1>2, GrownTwice
<1>6. QED
  BY <1>1, <1>2, <1>3, <1>4, <1>5 DEF Above, Kept

\* The stack of a search, from page m on.
IsClimb(page, R, lv, path, j) ==
  /\ Len(path) \in Nat /\ Len(path) = lv[P_ROOT] + 1
  /\ path[Len(path) - j].pgno \in R /\ lv[path[Len(path) - j].pgno] = j
  /\ path[Len(path) - j].index \in Nat
  /\ path[Len(path) - j].pgno # P_ROOT => j + 1 < Len(path)
  /\ j + 1 < Len(path) => /\ path[Len(path) - (j + 1)].index \in 1 .. Len(page[path[Len(path) - (j + 1)].pgno].ents)
                          /\ page[path[Len(path) - (j + 1)].pgno].ents[path[Len(path) - (j + 1)].index].v
                               = path[Len(path) - j].pgno

\* The page j levels up on the path to k is at level j.
LEMMA Climb ==
  ASSUME NEW page, NEW R, NEW lv, NEW lo, NEW hi, NEW k, NEW path, IsPath(page, R, lv, lo, hi, P_ROOT, k, path),
         NEW j \in Nat, j < Len(path), lv[P_ROOT] \in Nat
  PROVE  IsClimb(page, R, lv, path, j)
<1>1. PICK n : n = Len(path)
  OBVIOUS
<1>2. n \in Nat /\ n = lv[P_ROOT] + 1 /\ path \in Seq([pgno : PageNo, index : Nat]) /\ path[1].pgno = P_ROOT
  BY <1>1 DEF IsPath, Stack
<1>3. PICK m : m = n - j
  OBVIOUS
<1>4. m \in 1 .. n /\ n - m = j
  BY <1>1, <1>2, <1>3
<1>5. path[m].pgno \in R /\ lv[path[m].pgno] = n - m
  BY <1>1, <1>4 DEF IsPath
<1>6. path[m].index \in Nat
  <2>1. path[m] \in [pgno : PageNo, index : Nat]
    BY ONLY <1>1, <1>2, <1>4, SeqFacts
  <2>2. QED
    BY ONLY <2>1
<1>7. path[m].pgno # P_ROOT => j + 1 < n
  <2>0. n \in Nat
    BY ONLY <1>2
  <2>1. m = 1 \/ j + 1 < n
    BY ONLY <2>0, <1>4, j \in Nat
  <2>2. QED
    BY <1>2, <2>1
<1>8. ASSUME j + 1 < n
      PROVE  /\ path[n - (j + 1)].index \in 1 .. Len(page[path[n - (j + 1)].pgno].ents)
             /\ page[path[n - (j + 1)].pgno].ents[path[n - (j + 1)].index].v = path[m].pgno
  <2>1. PICK a : a = n - (j + 1)
    OBVIOUS
  <2>2. a \in 1 .. n - 1 /\ a + 1 = m
    BY ONLY <1>2, <1>3, <1>8, <2>1, j \in Nat
  <2>3. /\ path[a].index \in 1 .. Len(page[path[a].pgno].ents)
        /\ page[path[a].pgno].ents[path[a].index].v = path[a + 1].pgno
    BY <1>1, <2>2 DEF IsPath
  <2>4. QED
    BY <2>1, <2>2, <2>3
<1>9. QED
  BY <1>1, <1>2, <1>3, <1>4, <1>5, <1>6, <1>7, <1>8 DEF IsClimb

TurnAt(M, R, lv, lo, hi, k, path, key, cont, j, p, U, S, lvS, loS, hiS, e, skip, s) ==
  /\ R \in SUBSET PageNo /\ lv \in [PageNo -> Nat] /\ P_ROOT \in R
  /\ IsPath(M.page, R, lv, lo, hi, P_ROOT, k, path)
  /\ j \in Nat /\ j < Len(path) /\ p = path[Len(path) - j].pgno
  /\ Mid(U, S, lvS, key) /\ Over(U, p, skip, e, S, lvS, loS, hiS, cont) /\ Above(M, U, R, lv, S, lvS, j)
  /\ ~HasRoom(U.page[p]) /\ ~CursorSlips(U, p, skip) /\ s = SplitPage(U, p, skip, e)

\* One turn of the loop of __bt_split, at any level.
LEMMA TurnIs ==
  ASSUME NEW M, NEW R, NEW lv, NEW lo, NEW hi, NEW k, NEW path, NEW key, NEW cont, NEW j, NEW p,
         NEW U, NEW S, NEW lvS, NEW loS, NEW hiS, NEW e, NEW skip, NEW s,
         TurnAt(M, R, lv, lo, hi, k, path, key, cont, j, p, U, S, lvS, loS, hiS, e, skip, s)
  PROVE  Turn(M, R, lv, cont, key, path, j, s)
<1>0. /\ R \in SUBSET PageNo /\ lv \in [PageNo -> Nat] /\ P_ROOT \in R
      /\ IsPath(M.page, R, lv, lo, hi, P_ROOT, k, path)
      /\ j \in Nat /\ j < Len(path) /\ p = path[Len(path) - j].pgno
      /\ Mid(U, S, lvS, key) /\ Over(U, p, skip, e, S, lvS, loS, hiS, cont) /\ Above(M, U, R, lv, S, lvS, j)
      /\ ~HasRoom(U.page[p]) /\ ~CursorSlips(U, p, skip) /\ s = SplitPage(U, p, skip, e)
  BY DEF TurnAt
<1> USE <1>0
<1>1. P_ROOT \in PageNo /\ lv[P_ROOT] \in Nat
  OBVIOUS
<1>2. S \in SUBSET PageNo
  BY DEF Over, TreeOK, Typed
<1>3. s = [t |-> s.t, l |-> s.l, r |-> s.r, up |-> s.up] /\ (s.r = P_INVALID => ~s.up)
  BY <1>2, SplitFails
<1>4. CASE s.r = P_INVALID
  BY <1>3, <1>4 DEF Turn
<1>5. CASE s.r # P_INVALID /\ p = P_ROOT
  <2>1. /\ ~s.up /\ Grown(U, s.t)
        /\ \E S2, lv2, lo2, hi2 : Mid(s.t, S2, lv2, key) /\ Sound(s.t, S2, lv2, lo2, hi2, cont)
    BY <1>5, SplitRoot
  <2>2. Grown(M, s.t)
    <3>1. Grown(M, U)
      BY DEF Above
    <3>2. QED
      BY ONLY <2>1, <3>1, GrownTwice
  <2>3. TurnDone(M, cont, key, s)
    BY <1>5, <2>1, <2>2 DEF TurnDone
  <2>4. QED
    BY <1>3, <2>3 DEF Turn
<1>6. CASE s.r # P_INVALID /\ p # P_ROOT
  <2>1. PICK par : par = path[Len(path) - (j + 1)]
    OBVIOUS
  <2>2. PICK q : q = par.pgno
    OBVIOUS
  <2>3. PICK i : i = par.index
    OBVIOUS
  <2>4. /\ j + 1 < Len(path) /\ p \in R /\ lv[p] = j /\ i \in 1 .. Len(M.page[q].ents) /\ M.page[q].ents[i].v = p
    <3>1. IsClimb(M.page, R, lv, path, j)
      BY <1>1, Climb
    <3>2. QED
      BY ONLY <1>6, <2>1, <2>2, <2>3, <3>1, p = path[Len(path) - j].pgno DEF IsClimb
  <2>5. q \in R /\ lv[q] = j + 1
    <3>1. j + 1 \in Nat
      OBVIOUS
    <3>2. IsClimb(M.page, R, lv, path, j + 1)
      BY <1>1, <2>4, <3>1, Climb
    <3>3. QED
      BY ONLY <2>1, <2>2, <3>2 DEF IsClimb
  <2>6. q \in S /\ lvS[q] = lvS[p] + 1 /\ lvS[p] = j /\ U.page[q] = M.page[q]
    <3>1. lv[q] >= j
      BY <2>5
    <3>2. QED
      BY <2>4, <2>5, <3>1 DEF Above, Kept
  <2>7. i \in 1 .. Len(U.page[q].ents) /\ U.page[q].ents[i].v = p
    BY <2>4, <2>6
  <2>8. ASSUME NEW x, KeyFor(s.t.page, s.l, s.r, x)
        PROVE  s.up /\ SplitUp(M, R, lv, cont, key, q, i, j + 1, s, x)
    <3>1. s.up /\ SplitUp(U, S, lvS, cont, key, q, i, lvS[p] + 1, s, x)
      <4>1. q \in S /\ lvS[q] = lvS[p] + 1
        BY ONLY <2>6
      <4>2. s.r # P_INVALID /\ p # P_ROOT
        BY ONLY <1>6
      <4>3. SplitHere(U, S, lvS, loS, hiS, cont, key, p, e, skip, q, i, s, x)
        BY <4>1, <4>2, <2>7, <2>8 DEF SplitHere
      <4>4. QED
        BY ONLY <4>3, SplitLower
    <3>2. PICK S2, lv2, lo2, hi2 : /\ Mid(s.t, S2, lv2, key)
                                   /\ Over(s.t, q, i + 1, [k |-> x, v |-> s.r], S2, lv2, lo2, hi2, cont)
                                   /\ Above(U, s.t, S, lvS, S2, lv2, lvS[p] + 1)
      BY ONLY <3>1 DEF SplitUp
    <3>3. Above(M, s.t, R, lv, S2, lv2, j + 1)
      <4>1. \A y \in R : lv[y] \in Nat
        OBVIOUS
      <4>2. Above(U, s.t, S, lvS, S2, lv2, j + 1)
        BY <2>6, <3>2
      <4>3. QED
        BY <4>1, <4>2, AboveTwice
    <3>4. QED
      BY <2>2, <2>3, <3>1, <3>2, <3>3 DEF SplitUp
  <2>9. s.up
    <3>1. KeyFor(s.t.page, s.l, s.r, s.t.page[s.r].ents[1].k)
      BY DEF KeyFor
    <3>2. QED
      BY <2>8, <3>1
  <2>10. TurnUp(M, R, lv, cont, key, par, j + 1, s)
    BY <1>6, <2>2, <2>3, <2>8, <2>9 DEF TurnUp
  <2>11. QED
    BY <1>3, <2>1, <2>4, <2>10 DEF Turn
<1>7. QED
  BY <1>4, <1>5, <1>6

\* The leaf that a search for k has found is full.
SplitStart(M, R, lv, lo, hi, cont, key, k, path, e) ==
  /\ R \in SUBSET PageNo /\ lv \in [PageNo -> Nat] /\ P_ROOT \in R
  /\ IsPath(M.page, R, lv, lo, hi, P_ROOT, k, path) /\ Mid(M, R, lv, key)
  /\ Over(M, path[Len(path)].pgno, path[Len(path)].index, e, R, lv, lo, hi, cont)
  /\ ~HasRoom(M.page[path[Len(path)].pgno])
  /\ ~CursorSlips(M, path[Len(path)].pgno, path[Len(path)].index)

\* The turn that splits the leaf.
LEMMA TurnFirst ==
  ASSUME NEW M, NEW R, NEW lv, NEW lo, NEW hi, NEW cont, NEW key, NEW k, NEW path, NEW e,
         SplitStart(M, R, lv, lo, hi, cont, key, k, path, e),
         NEW s, s = SplitPage(M, path[Len(path)].pgno, path[Len(path)].index, e)
  PROVE  Turn(M, R, lv, cont, key, path, 0, s)
<1>1. Len(path) \in Nat /\ 0 < Len(path)
  <2>1. Len(path) = lv[P_ROOT] + 1 /\ lv[P_ROOT] \in Nat
    BY DEF SplitStart, IsPath
  <2>2. QED
    BY ONLY <2>1
<1>2. path[Len(path) - 0] = path[Len(path)]
  BY ONLY <1>1
<1>3. Above(M, M, R, lv, R, lv, 0)
  <2>1. M \in TreeM
    BY DEF SplitStart, Mid
  <2>2. M.npages \in Nat
    BY <2>1, TreeRecord
  <2>3. QED
    BY ONLY <2>2 DEF Above, Kept, Grown, SameMark
<1>4. TurnAt(M, R, lv, lo, hi, k, path, key, cont, 0, path[Len(path)].pgno, M, R, lv, lo, hi, e, path[Len(path)].index, s)
  BY <1>1, <1>2, <1>3 DEF TurnAt, SplitStart
<1>5. QED
  BY ONLY <1>4, TurnIs

\* The key for the parent separates the halves, shortened or not.
LEMMA SeparatorIs ==
  ASSUME NEW T, NEW l, NEW r, NEW parent, NEW short
  PROVE  KeyFor(T.page, l, r, Separator(T, l, r, parent, short))
BY DEF KeyFor, Separator

\* The turn that puts the separator into the next parent.
LEMMA TurnNext ==
  ASSUME NEW M, NEW R, NEW lv, NEW lo, NEW hi, NEW cont, NEW key, NEW k, NEW path, NEW e,
         SplitStart(M, R, lv, lo, hi, cont, key, k, path, e),
         NEW j \in Nat, j + 1 < Len(path), NEW s, s.up, Turn(M, R, lv, cont, key, path, j, s), NEW short,
         NEW u, u = SplitParent(s, path[Len(path) - (j + 1)], short)
  PROVE  Turn(M, R, lv, cont, key, path, j + 1, u)
<1>1. PICK par : par = path[Len(path) - (j + 1)]
  OBVIOUS
<1>2. PICK q : q = par.pgno
  OBVIOUS
<1>3. PICK x : x = Separator(s.t, s.l, s.r, par, short)
  OBVIOUS
<1>4. PICK skip : skip = par.index + 1
  OBVIOUS
<1>5. PICK f : f = [k |-> x, v |-> s.r]
  OBVIOUS
<1>6. TurnUp(M, R, lv, cont, key, par, j + 1, s) /\ s = [t |-> s.t, l |-> s.l, r |-> s.r, up |-> s.up]
  BY <1>1 DEF Turn, TurnDone
<1>7. KeyFor(s.t.page, s.l, s.r, x)
  BY ONLY <1>3, SeparatorIs
<1>8. s.r # P_INVALID /\ SplitUp(M, R, lv, cont, key, q, par.index, j + 1, s, x)
  BY ONLY <1>2, <1>6, <1>7 DEF TurnUp
<1>9. PICK S, lv2, lo2, hi2 : Mid(s.t, S, lv2, key) /\ Over(s.t, q, skip, f, S, lv2, lo2, hi2, cont)
                              /\ Above(M, s.t, R, lv, S, lv2, j + 1)
  BY ONLY <1>4, <1>5, <1>8 DEF SplitUp
<1>10. q \in R /\ lv[q] = j + 1
  <2>1. IsPath(M.page, R, lv, lo, hi, P_ROOT, k, path) /\ lv[P_ROOT] \in Nat
    BY DEF SplitStart
  <2>2. j + 1 \in Nat
    OBVIOUS
  <2>3. IsClimb(M.page, R, lv, path, j + 1)
    BY ONLY <2>1, <2>2, j + 1 < Len(path), Climb
  <2>4. QED
    BY ONLY <1>1, <1>2, <2>3 DEF IsClimb
<1>11. lv2[q] = j + 1
  BY <1>9, <1>10 DEF Above, Kept
<1>12. lv2[q] # 0
  BY ONLY <1>11, j \in Nat
<1>13. u = IF HasRoom(s.t.page[q]) THEN [s EXCEPT !.t.page[q].ents = InsertAt(@, skip, f), !.up = FALSE]
           ELSE SplitPage(s.t, q, skip, f)
  BY ONLY <1>1, <1>2, <1>3, <1>4, <1>5, u = SplitParent(s, path[Len(path) - (j + 1)], short) DEF SplitParent
<1>14. CASE HasRoom(s.t.page[q])
  <2>1. PICK W : W = [s.t EXCEPT !.page[q].ents = InsertAt(@, skip, f)]
    OBVIOUS
  <2>2. Grown(s.t, W) /\ Mid(W, S, lv2, key) /\ Sound(W, S, lv2, lo2, hi2, cont)
    BY ONLY <1>9, <1>12, <1>14, <2>1, SplitRoom
  <2>3. u = [t |-> W, l |-> s.l, r |-> s.r, up |-> FALSE]
    <3>1. u = [s EXCEPT !.t.page[q].ents = InsertAt(@, skip, f), !.up = FALSE]
      BY ONLY <1>13, <1>14
    <3>2. QED
      BY ONLY <1>6, <2>1, <3>1
  <2>4. Grown(M, W)
    <3>1. Grown(M, s.t)
      BY ONLY <1>9 DEF Above
    <3>2. QED
      BY ONLY <2>2, <3>1, GrownTwice
  <2>5. TurnDone(M, cont, key, u)
    BY ONLY <1>8, <2>2, <2>3, <2>4 DEF TurnDone
  <2>6. QED
    BY ONLY <2>3, <2>5 DEF Turn
<1>15. CASE ~HasRoom(s.t.page[q])
  <2>1. ~CursorSlips(s.t, q, skip)
    <3>1. CursorOK(s.t.cursor, s.t.page, S, lv2, key)
      BY ONLY <1>9 DEF Mid
    <3>2. ~On(s.t.cursor, q)
      BY ONLY <1>12, <3>1 DEF CursorOK, On
    <3>3. QED
      BY ONLY <3>2 DEF CursorSlips
  <2>2. u = SplitPage(s.t, q, skip, f)
    BY ONLY <1>13, <1>15
  <2>3. TurnAt(M, R, lv, lo, hi, k, path, key, cont, j + 1, q, s.t, S, lv2, lo2, hi2, f, skip, u)
    BY <1>1, <1>2, <1>9, <1>15, <2>1, <2>2 DEF TurnAt, SplitStart
  <2>4. QED
    BY ONLY <2>3, TurnIs
<1>16. QED
  BY ONLY <1>14, <1>15

\* __bt_split finds the pages it needs, or it does not.
LEMMA SplitIs ==
  ASSUME NEW M, NEW R, NEW lv, NEW lo, NEW hi, NEW cont, NEW key, NEW k, NEW path, NEW e,
         SplitStart(M, R, lv, lo, hi, cont, key, k, path, e), NEW short,
         NEW s, s = Split(M, path, e, short)
  PROVE  s.r = P_INVALID \/ TurnDone(M, cont, key, s)
<1>1. PICK n : n = Len(path) - 1
  OBVIOUS
<1>2. n \in Nat /\ Len(path) = n + 1 /\ Len(path) \in Nat /\ Len(path) # 0
  <2>1. Len(path) = lv[P_ROOT] + 1 /\ lv[P_ROOT] \in Nat
    BY DEF SplitStart, IsPath
  <2>2. QED
    BY ONLY <1>1, <2>1
<1>3. PICK f : IsWalk(M, path, e, short, 0 .. Len(path) - 1, f) /\ s = f[Len(path) - 1]
  BY <1>2, SplitWalk
<1>4. s = f[n]
  BY ONLY <1>1, <1>3
<1>5. \A j \in 0 .. n : f[j] = IF j = 0 THEN SplitPage(M, path[Len(path)].pgno, path[Len(path)].index, e)
                               ELSE IF f[j - 1].up THEN SplitParent(f[j - 1], path[Len(path) - j], short) ELSE f[j - 1]
  BY ONLY <1>1, <1>3 DEF IsWalk
<1> DEFINE Done == {j \in 0 .. n : Turn(M, R, lv, cont, key, path, j, f[j])}
<1>6. 0 \in Done
  <2>1. 0 \in 0 .. n
    BY <1>2
  <2>2. f[0] = SplitPage(M, path[Len(path)].pgno, path[Len(path)].index, e)
    BY <1>5, <2>1
  <2>3. QED
    BY <2>1, <2>2, TurnFirst
<1>7. ASSUME NEW j \in 0 .. n, j # n, j \in Done PROVE j + 1 \in Done
  <2>1. Turn(M, R, lv, cont, key, path, j, f[j])
    BY ONLY <1>7
  <2>2. j \in Nat /\ j + 1 \in 0 .. n /\ j + 1 # 0 /\ (j + 1) - 1 = j /\ j + 1 < Len(path)
    BY ONLY <1>2, <1>7
  <2>3. f[j + 1] = IF f[j].up THEN SplitParent(f[j], path[Len(path) - (j + 1)], short) ELSE f[j]
    BY ONLY <1>5, <2>2
  <2>4. CASE f[j].up
    <3>1. f[j + 1] = SplitParent(f[j], path[Len(path) - (j + 1)], short)
      BY ONLY <2>3, <2>4
    <3>2. Turn(M, R, lv, cont, key, path, j + 1, f[j + 1])
      BY <2>1, <2>2, <2>4, <3>1, TurnNext
    <3>3. QED
      BY ONLY <2>2, <3>2
  <2>5. CASE ~f[j].up
    <3>1. f[j + 1] = f[j]
      BY ONLY <2>3, <2>5
    <3>2. f[j].r = P_INVALID \/ TurnDone(M, cont, key, f[j])
      BY ONLY <2>1, <2>5 DEF Turn, TurnUp
    <3>3. Turn(M, R, lv, cont, key, path, j + 1, f[j])
      BY ONLY <2>1, <2>5, <3>2 DEF Turn
    <3>4. QED
      BY ONLY <2>2, <3>1, <3>3
  <2>6. QED
    BY ONLY <2>4, <2>5
<1>8. n \in Done
  <2> HIDE DEF Done
  <2>1. \A i \in 0 .. n : i # n /\ i \in Done => i + 1 \in Done
    BY ONLY <1>7
  <2>2. \A i \in 0 .. n : i \in Done
    BY ONLY <1>2, <1>6, <2>1, Counting
  <2>3. QED
    BY <1>2, <2>2
<1>9. Turn(M, R, lv, cont, key, path, n, s)
  BY ONLY <1>4, <1>8
<1>10. ~(n + 1 < Len(path))
  BY ONLY <1>2
<1>11. QED
  BY ONLY <1>9, <1>10 DEF Turn

\* When the first page is missing, nothing has happened.
LEMMA SplitNot ==
  ASSUME NEW M, NEW path, NEW e, NEW short, Len(path) \in Nat, Len(path) # 0,
         NEW u, u = SplitPage(M, path[Len(path)].pgno, path[Len(path)].index, e), ~u.up
  PROVE  Split(M, path, e, short) = u
<1>1. PICK n : n = Len(path) - 1
  OBVIOUS
<1>2. n \in Nat
  BY ONLY <1>1, Len(path) \in Nat, Len(path) # 0
<1>3. PICK f : IsWalk(M, path, e, short, 0 .. n, f) /\ Split(M, path, e, short) = f[n]
  BY <1>1, SplitWalk
<1>4. \A j \in 0 .. n : f[j] = IF j = 0 THEN u
                               ELSE IF f[j - 1].up THEN SplitParent(f[j - 1], path[Len(path) - j], short) ELSE f[j - 1]
  BY ONLY <1>3, u = SplitPage(M, path[Len(path)].pgno, path[Len(path)].index, e) DEF IsWalk
<1> DEFINE Same == {j \in 0 .. n : f[j] = u}
<1>5. 0 \in Same
  BY ONLY <1>2, <1>4
<1>6. ASSUME NEW j \in 0 .. n, j # n, j \in Same PROVE j + 1 \in Same
  <2>1. j + 1 \in 0 .. n /\ j + 1 # 0 /\ (j + 1) - 1 = j
    BY ONLY <1>2, <1>6
  <2>2. f[j + 1] = IF f[j].up THEN SplitParent(f[j], path[Len(path) - (j + 1)], short) ELSE f[j]
    BY ONLY <1>4, <2>1
  <2>3. f[j] = u
    BY ONLY <1>6
  <2>4. QED
    BY ONLY <2>1, <2>2, <2>3, ~u.up
<1>7. n \in Same
  <2> HIDE DEF Same
  <2>1. \A i \in 0 .. n : i # n /\ i \in Same => i + 1 \in Same
    BY ONLY <1>6
  <2>2. \A i \in 0 .. n : i \in Same
    BY ONLY <1>2, <1>5, <2>1, Counting
  <2>3. QED
    BY <1>2, <2>2
<1>8. QED
  BY ONLY <1>3, <1>7

-----------------------------------------------------------------------------
(* Removing pages: __bt_relink and __bt_free *)

\* The pages of a level are linked both ways.
Chained(page, R, lv) ==
  \A p \in R :
    /\ \/ page[p].next = P_INVALID
       \/ page[p].next \in R /\ lv[page[p].next] = lv[p] /\ page[page[p].next].prev = p /\ page[p].next # p
    /\ \/ page[p].prev = P_INVALID
       \/ page[p].prev \in R /\ lv[page[p].prev] = lv[p] /\ page[page[p].prev].next = p /\ page[p].prev # p
    /\ page[p].next = page[p].prev => page[p].next = P_INVALID

\* Siblings point at each other.
LEMMA ChainedIs ==
  ASSUME NEW page, NEW R, NEW lv, NEW lo, NEW hi, NEW over, TreeOK(page, R, lv, lo, hi, over)
  PROVE  Chained(page, R, lv)
<1>1. Linked(page, R, lv, lo, hi) /\ Apart(R, lv, lo, hi)
  BY DEF TreeOK
<1>2. \A p \in R : lo[p] \in Nat /\ hi[p] \in Nat /\ lo[p] < hi[p] /\ p # P_INVALID
  BY InTree
<1>3. ASSUME NEW p \in R, NEW y \in R, lv[y] = lv[p], hi[y] = hi[p] \/ lo[y] = lo[p] PROVE y = p
  <2>1. /\ lo[p] \in Nat /\ hi[p] \in Nat /\ lo[p] < hi[p] /\ lo[y] \in Nat /\ hi[y] \in Nat /\ lo[y] < hi[y]
    BY ONLY <1>2, <1>3
  <2>2. y = p \/ hi[y] <= lo[p] \/ hi[p] <= lo[y]
    BY ONLY <1>1, <1>3 DEF Apart
  <2>3. QED
    BY ONLY <1>3, <2>1, <2>2
<1>4. ASSUME NEW p \in R, page[p].next # P_INVALID
      PROVE  /\ page[p].next \in R /\ lv[page[p].next] = lv[p] /\ lo[page[p].next] = hi[p]
             /\ page[page[p].next].prev = p /\ page[p].next # p
  <2>1. PICK x : x = page[p].next
    OBVIOUS
  <2>2. x \in R /\ lv[x] = lv[p] /\ lo[x] = hi[p]
    BY ONLY <1>1, <1>4, <2>1 DEF Linked
  <2>3. lo[x] # 0 /\ x # p
    BY ONLY <1>2, <1>4, <2>2
  <2>4. PICK y : y = page[x].prev
    OBVIOUS
  <2>5. y \in R /\ lv[y] = lv[x] /\ hi[y] = lo[x]
    BY ONLY <1>1, <2>2, <2>3, <2>4 DEF Linked
  <2>6. y = p
    BY ONLY <1>3, <1>4, <2>2, <2>5
  <2>7. QED
    BY ONLY <2>1, <2>2, <2>3, <2>4, <2>6
<1>5. ASSUME NEW p \in R, page[p].prev # P_INVALID
      PROVE  /\ page[p].prev \in R /\ lv[page[p].prev] = lv[p] /\ hi[page[p].prev] = lo[p]
             /\ page[page[p].prev].next = p /\ page[p].prev # p
  <2>1. PICK x : x = page[p].prev
    OBVIOUS
  <2>2. x \in R /\ lv[x] = lv[p] /\ hi[x] = lo[p]
    BY ONLY <1>1, <1>5, <2>1 DEF Linked
  <2>3. hi[x] # MaxKey + 1 /\ x # p
    <3>1. hi[p] <= MaxKey + 1
      BY <1>5, Bounded
    <3>2. MaxKey \in Nat
      BY Numbers
    <3>3. QED
      BY ONLY <1>2, <1>5, <2>2, <3>1, <3>2
  <2>4. PICK y : y = page[x].next
    OBVIOUS
  <2>5. y \in R /\ lv[y] = lv[x] /\ lo[y] = hi[x]
    BY ONLY <1>1, <2>2, <2>3, <2>4 DEF Linked
  <2>6. y = p
    BY ONLY <1>3, <1>5, <2>2, <2>5
  <2>7. QED
    BY ONLY <2>1, <2>2, <2>3, <2>4, <2>6
<1>6. ASSUME NEW p \in R, page[p].next = page[p].prev, page[p].next # P_INVALID PROVE FALSE
  <2>1. PICK x : x = page[p].next
    OBVIOUS
  <2>2. x \in R /\ lo[x] = hi[p] /\ hi[x] = lo[p]
    BY ONLY <1>4, <1>5, <1>6, <2>1
  <2>3. QED
    BY ONLY <1>2, <1>6, <2>2
<1>7. QED
  BY ONLY <1>4, <1>5, <1>6 DEF Chained

\* Page X out of its level and at the head of the free list.
IsFreed(page, new, X, free) ==
  /\ new \in [PageNo -> Page]
  /\ new[X] = [leaf |-> TRUE, prev |-> P_INVALID, next |-> free, ents |-> <<>>]
  /\ \A y \in PageNo : y # X =>
       new[y] = Sibling(page[y], IF y = page[X].next THEN page[X].prev ELSE page[y].prev,
                        IF y = page[X].prev /\ y # page[X].next THEN page[X].next ELSE page[y].next, page[y].ents)

LEMMA EmptyLeaf ==
  ASSUME NEW free \in 0 .. MaxPages - 1
  PROVE  [leaf |-> TRUE, prev |-> P_INVALID, next |-> free, ents |-> <<>>] \in Page
<1>1. PICK es : es = <<>>
  OBVIOUS
<1>2. es \in Seq(Ent) /\ Len(es) = 0
  BY ONLY <1>1
<1>3. P_INVALID \in 0 .. MaxPages - 1
  BY Numbers
<1>4. \A i \in 1 .. Len(es) : IF TRUE THEN es[i].k \in Key /\ es[i].v \in Data ELSE es[i].v \in PageNo
  BY ONLY <1>2
<1>5. [leaf |-> TRUE, prev |-> P_INVALID, next |-> free, ents |-> es] \in Page
  BY <1>2, <1>3, <1>4, PageMade
<1>6. QED
  BY ONLY <1>1, <1>5

\* __bt_relink and __bt_free of one page, written as new pages.
LEMMA FreedIs ==
  ASSUME NEW S \in TreeM, NEW X \in PageNo, NEW W, W = Free(Relink(S, X), X)
  PROVE  /\ W = [page |-> W.page, npages |-> S.npages, free |-> X, memory |-> S.memory,
                 cursor |-> S.cursor, last |-> S.last]
         /\ IsFreed(S.page, W.page, X, S.free) /\ W \in TreeM
<1>1. PICK h : h = S.page[X]
  OBVIOUS
<1>2. PICK g : g = [q \in PageNo |-> IF q = h.next THEN [S.page[q] EXCEPT !.prev = h.prev]
                                     ELSE IF q = h.prev THEN [S.page[q] EXCEPT !.next = h.next] ELSE S.page[q]]
  OBVIOUS
<1>3. /\ S = [page |-> S.page, npages |-> S.npages, free |-> S.free, memory |-> S.memory,
              cursor |-> S.cursor, last |-> S.last]
      /\ S.page \in [PageNo -> Page] /\ S.npages \in 2 .. MaxPages /\ S.free \in 0 .. MaxPages - 1
      /\ S.memory \in Nat /\ S.cursor \in Cursor /\ S.last \in Hint
  BY TreeRecord
<1>4. Relink(S, X) = [S EXCEPT !.page = g]
  BY ONLY <1>1, <1>2 DEF Relink
<1>5. Relink(S, X) = [page |-> g, npages |-> S.npages, free |-> S.free, memory |-> S.memory,
                      cursor |-> S.cursor, last |-> S.last]
  BY ONLY <1>3, <1>4
<1>6. PICK f : f = [g EXCEPT ![X] = [leaf |-> TRUE, prev |-> P_INVALID, next |-> S.free, ents |-> <<>>]]
  OBVIOUS
<1>7. W = [page |-> f, npages |-> S.npages, free |-> X, memory |-> S.memory, cursor |-> S.cursor, last |-> S.last]
  <2>1. PICK T : T = Relink(S, X)
    OBVIOUS
  <2>2. W = [T EXCEPT !.page[X] = [leaf |-> TRUE, prev |-> P_INVALID, next |-> T.free, ents |-> <<>>], !.free = X]
    <3>1. W = [T EXCEPT !.page[X] = [LeafPage(<<>>) EXCEPT !.next = T.free], !.free = X]
      BY <2>1 DEF Free
    <3>2. [LeafPage(<<>>) EXCEPT !.next = T.free] = [leaf |-> TRUE, prev |-> P_INVALID, next |-> T.free, ents |-> <<>>]
      <4>1. ASSUME NEW es, NEW x PROVE [LeafPage(es) EXCEPT !.next = x] = [leaf |-> TRUE, prev |-> P_INVALID, next |-> x, ents |-> es]
        <5>1. PICK b : b = TRUE
          OBVIOUS
        <5>2. [[leaf |-> b, prev |-> P_INVALID, next |-> P_INVALID, ents |-> es] EXCEPT !.next = x]
                = [leaf |-> b, prev |-> P_INVALID, next |-> x, ents |-> es]
          BY ONLY TRUE
        <5>3. QED
          BY ONLY <5>1, <5>2, Zenon DEF LeafPage
      <4>2. QED
        BY ONLY <4>1
    <3>3. QED
      BY ONLY <3>1, <3>2
  <2>3. T = [page |-> g, npages |-> S.npages, free |-> S.free, memory |-> S.memory, cursor |-> S.cursor, last |-> S.last]
    BY ONLY <1>5, <2>1
  <2>4. W = [T EXCEPT !.page[X] = [leaf |-> TRUE, prev |-> P_INVALID, next |-> S.free, ents |-> <<>>], !.free = X]
    BY ONLY <2>2, <2>3
  <2>5. W = [T EXCEPT !.page = f, !.free = X]
    BY ONLY <1>6, <2>3, <2>4
  <2>6. QED
    BY ONLY <2>3, <2>5
<1>8. \A y \in PageNo : S.page[y] \in Page
  BY ONLY <1>3
<1>9. h \in Page
  BY ONLY <1>1, <1>8, X \in PageNo
<1>10. h.prev \in 0 .. MaxPages - 1 /\ h.next \in 0 .. MaxPages - 1
  BY ONLY <1>9, PageParts
<1>11. ASSUME NEW y \in PageNo
       PROVE  g[y] = Sibling(S.page[y], IF y = h.next THEN h.prev ELSE S.page[y].prev,
                        IF y = h.prev /\ y # h.next THEN h.next ELSE S.page[y].next, S.page[y].ents)
  <2>1. S.page[y] = Sibling(S.page[y], S.page[y].prev, S.page[y].next, S.page[y].ents)
    BY ONLY <1>8, <1>11, PageParts
  <2>2. g[y] = IF y = h.next THEN [S.page[y] EXCEPT !.prev = h.prev]
               ELSE IF y = h.prev THEN [S.page[y] EXCEPT !.next = h.next] ELSE S.page[y]
    BY ONLY <1>2, <1>11
  <2>3. QED
    BY ONLY <2>1, <2>2 DEF Sibling
<1>12. \A y \in PageNo : y # X => f[y] = g[y]
  BY ONLY <1>2, <1>6
<1>13. f[X] = [leaf |-> TRUE, prev |-> P_INVALID, next |-> S.free, ents |-> <<>>] /\ DOMAIN f = PageNo
       /\ f = [y \in PageNo |-> f[y]]
  BY ONLY <1>2, <1>6, X \in PageNo
<1>14. f \in [PageNo -> Page]
  <2>1. f[X] \in Page
    BY ONLY <1>3, <1>13, EmptyLeaf
  <2>2. ASSUME NEW y \in PageNo, y # X PROVE f[y] \in Page
    <3>1. PICK a : a = IF y = h.next THEN h.prev ELSE S.page[y].prev
      OBVIOUS
    <3>2. PICK b : b = IF y = h.prev /\ y # h.next THEN h.next ELSE S.page[y].next
      OBVIOUS
    <3>3. f[y] = Sibling(S.page[y], a, b, S.page[y].ents)
      BY ONLY <1>11, <1>12, <2>2, <3>1, <3>2
    <3>4. S.page[y] \in Page
      BY ONLY <1>8, <2>2
    <3>5. a \in 0 .. MaxPages - 1 /\ b \in 0 .. MaxPages - 1
      BY ONLY <1>10, <3>1, <3>2, <3>4, PageParts
    <3>6. /\ S.page[y].leaf \in BOOLEAN /\ S.page[y].ents \in Seq(Ent)
          /\ \A i \in 1 .. Len(S.page[y].ents) : IF S.page[y].leaf THEN S.page[y].ents[i].k \in Key /\ S.page[y].ents[i].v \in Data
                                                 ELSE S.page[y].ents[i].v \in PageNo
      BY ONLY <3>4, PageParts
    <3>7. QED
      BY ONLY <3>3, <3>5, <3>6, PageMade DEF Sibling
  <2>3. QED
    BY ONLY <1>13, <2>1, <2>2
<1>15. W.page = f
  BY ONLY <1>7
<1>16. IsFreed(S.page, f, X, S.free)
  BY ONLY <1>1, <1>11, <1>12, <1>13, <1>14 DEF IsFreed
<1>17. W \in TreeM
  <2>1. X \in 0 .. MaxPages - 1
    BY Numbers
  <2>2. QED
    BY ONLY <1>3, <1>7, <1>14, <2>1 DEF TreeM
<1>18. QED
  BY ONLY <1>7, <1>15, <1>16, <1>17

\* The pages C are out of the tree, and page q has the records es.
Unlinked(page, new, R, C, q, es) ==
  /\ new \in [PageNo -> Page]
  /\ \A p \in R \ C :
       new[p] = Sibling(page[p], IF page[p].prev \in C THEN page[page[p].prev].prev ELSE page[p].prev,
                        IF page[p].next \in C THEN page[page[p].next].next ELSE page[p].next,
                        IF p = q THEN es ELSE page[p].ents)
  /\ \A p \in PageNo \ R : new[p] = page[p]
  /\ \A p \in C : new[p].leaf

LEMMA SiblingIs ==
  ASSUME NEW g, NEW h, NEW a, NEW b, NEW es, g = Sibling(h, a, b, es)
  PROVE  g.leaf = h.leaf /\ g.prev = a /\ g.next = b /\ g.ents = es
BY DEF Sibling

\* A page that stays is linked past the pages that were taken out.
LEMMA UnlinkedIs ==
  ASSUME NEW page, NEW R, NEW C, NEW q, NEW es, NEW new, Unlinked(page, new, R, C, q, es), NEW p \in R \ C
  PROVE  /\ new[p].leaf = page[p].leaf
         /\ new[p].prev = IF page[p].prev \in C THEN page[page[p].prev].prev ELSE page[p].prev
         /\ new[p].next = IF page[p].next \in C THEN page[page[p].next].next ELSE page[p].next
         /\ new[p].ents = IF p = q THEN es ELSE page[p].ents
<1>1. PICK a : a = IF page[p].prev \in C THEN page[page[p].prev].prev ELSE page[p].prev
  OBVIOUS
<1>2. PICK b : b = IF page[p].next \in C THEN page[page[p].next].next ELSE page[p].next
  OBVIOUS
<1>3. PICK f : f = IF p = q THEN es ELSE page[p].ents
  OBVIOUS
<1>4. new[p] = Sibling(page[p], a, b, f)
  BY <1>1, <1>2, <1>3 DEF Unlinked
<1>5. new[p].leaf = page[p].leaf /\ new[p].prev = a /\ new[p].next = b /\ new[p].ents = f
  BY ONLY <1>4, SiblingIs
<1>6. QED
  BY ONLY <1>1, <1>2, <1>3, <1>5

\* One page more is taken out.
LEMMA UnlinkStep ==
  ASSUME NEW page, NEW R \in SUBSET PageNo, NEW lv, Chained(page, R, lv), NEW C \in SUBSET R, NEW q, NEW es,
         NEW old, Unlinked(page, old, R, C, q, es), NEW X \in R \ C, \A c \in C : lv[c] # lv[X],
         NEW free, NEW new, IsFreed(old, new, X, free)
  PROVE  Unlinked(page, new, R, C \cup {X}, q, es)
<1>1. P_INVALID \notin PageNo
  BY Numbers
<1>2. page[X].prev \notin C /\ page[X].next \notin C
  BY <1>1 DEF Chained
<1>3. old[X].prev = page[X].prev /\ old[X].next = page[X].next
  BY <1>2, UnlinkedIs
<1>4. \A y \in PageNo : y # X =>
        new[y] = Sibling(old[y], IF y = page[X].next THEN page[X].prev ELSE old[y].prev,
                         IF y = page[X].prev /\ y # page[X].next THEN page[X].next ELSE old[y].next, old[y].ents)
  BY ONLY <1>3, IsFreed(old, new, X, free) DEF IsFreed
<1>5. old \in [PageNo -> Page]
  BY DEF Unlinked
<1>6. ASSUME NEW p \in R \ (C \cup {X})
      PROVE  new[p] = Sibling(page[p], IF page[p].prev \in C \cup {X} THEN page[page[p].prev].prev ELSE page[p].prev,
                              IF page[p].next \in C \cup {X} THEN page[page[p].next].next ELSE page[p].next,
                              IF p = q THEN es ELSE page[p].ents)
  <2>1. p \in PageNo /\ p # X /\ p \in R \ C
    OBVIOUS
  <2>2. /\ old[p].leaf = page[p].leaf
        /\ old[p].prev = IF page[p].prev \in C THEN page[page[p].prev].prev ELSE page[p].prev
        /\ old[p].next = IF page[p].next \in C THEN page[page[p].next].next ELSE page[p].next
        /\ old[p].ents = IF p = q THEN es ELSE page[p].ents
    BY <2>1, UnlinkedIs
  <2>3. /\ p = page[X].next <=> page[p].prev = X
        /\ p = page[X].prev /\ p # page[X].next <=> page[p].next = X
    BY ONLY <1>1, <2>1, Chained(page, R, lv), X \in R, X \in PageNo DEF Chained
  <2>4. PICK a : a = IF p = page[X].next THEN page[X].prev ELSE old[p].prev
    OBVIOUS
  <2>5. PICK b : b = IF p = page[X].prev /\ p # page[X].next THEN page[X].next ELSE old[p].next
    OBVIOUS
  <2>6. new[p] = Sibling(old[p], a, b, old[p].ents)
    BY ONLY <1>4, <2>1, <2>4, <2>5
  <2>7. a = IF page[p].prev \in C \cup {X} THEN page[page[p].prev].prev ELSE page[p].prev
    BY ONLY <2>2, <2>3, <2>4
  <2>8. b = IF page[p].next \in C \cup {X} THEN page[page[p].next].next ELSE page[p].next
    BY ONLY <2>2, <2>3, <2>5
  <2>9. new[p] = Sibling(page[p], a, b, old[p].ents)
    BY ONLY <2>2, <2>6 DEF Sibling
  <2>10. QED
    BY ONLY <2>2, <2>7, <2>8, <2>9
<1>7. ASSUME NEW p \in PageNo \ R PROVE new[p] = page[p]
  <2>1. old[p] = page[p] /\ p # X /\ old[p] \in Page
    BY <1>5 DEF Unlinked
  <2>2. p # page[X].next /\ p # page[X].prev
    BY ONLY <1>1, <1>7, Chained(page, R, lv), X \in R DEF Chained
  <2>3. new[p] = Sibling(old[p], old[p].prev, old[p].next, old[p].ents)
    BY ONLY <1>4, <1>7, <2>1, <2>2
  <2>4. QED
    BY ONLY <2>1, <2>3, PageParts
<1>8. ASSUME NEW p \in C \cup {X} PROVE new[p].leaf
  <2>1. CASE p = X
    BY ONLY <2>1, IsFreed(old, new, X, free) DEF IsFreed
  <2>2. CASE p # X
    <3>1. p \in PageNo /\ p \in C
      BY <1>8, <2>2
    <3>2. old[p].leaf /\ new[p].leaf = old[p].leaf
      <4>1. old[p].leaf
        BY ONLY <3>1, Unlinked(page, old, R, C, q, es) DEF Unlinked
      <4>2. \E a, b : new[p] = Sibling(old[p], a, b, old[p].ents)
        BY ONLY <1>4, <2>2, <3>1
      <4>3. QED
        BY ONLY <4>1, <4>2, SiblingIs
    <3>3. QED
      BY ONLY <3>2
  <2>3. QED
    BY ONLY <2>1, <2>2
<1>9. new \in [PageNo -> Page]
  BY ONLY IsFreed(old, new, X, free) DEF IsFreed
<1>10. QED
  BY ONLY <1>6, <1>7, <1>8, <1>9 DEF Unlinked

\* The chain C of pages that have the interval from a up to b, one on each level
\* below page q and the next one's only child, is to go, and record i of q with
\* it; q has another record.
DropAt(page, R, lv, lo, hi, C, q, i, a, b) ==
  /\ TreeOK(page, R, lv, lo, hi, P_INVALID)
  /\ C \subseteq R /\ P_ROOT \notin C /\ q \in R \ C /\ lv[q] # 0
  /\ i \in 1 .. Len(page[q].ents) /\ Len(page[q].ents) # 1 /\ page[q].ents[i].v \in C
  /\ \A c \in C : lv[c] < lv[q] /\ lo[c] = a /\ hi[c] = b
  /\ \A c \in C : lv[c] # 0 => Len(page[c].ents) = 1 /\ page[c].ents[1].v \in C
  /\ \A l \in Nat : l < lv[q] => \E c \in C : lv[c] = l
  /\ \A c \in C : c = page[q].ents[i].v \/ \E d \in C : lv[d] # 0 /\ page[d].ents[1].v = c

\* The page before them, on each level, gets their keys, or, if they were the
\* first below q, the page after them.
DropLo(lv, lo, q, i, a, b) == [p \in PageNo |-> IF i = 1 /\ lv[p] < lv[q] /\ lo[p] = b THEN a ELSE lo[p]]
DropHi(lv, hi, q, i, a, b) == [p \in PageNo |-> IF i # 1 /\ lv[p] < lv[q] /\ hi[p] = a THEN b ELSE hi[p]]

\* The pages without the chain.
Dropped(page, new, R, C, q, es) ==
  /\ new \in [PageNo -> Page]
  /\ \A p \in R \ C :
       /\ new[p].leaf = page[p].leaf
       /\ new[p].prev = IF page[p].prev \in C THEN page[page[p].prev].prev ELSE page[p].prev
       /\ new[p].next = IF page[p].next \in C THEN page[page[p].next].next ELSE page[p].next
       /\ new[p].ents = IF p = q THEN es ELSE page[p].ents
  /\ \A p \in PageNo \ (R \ C) : new[p].leaf

\* Where the interval of the chain is.
Hole(page, lo, hi, q, i, a, b) ==
  /\ a \in Nat /\ b \in Nat /\ a < b /\ b <= MaxKey + 1 /\ lo[q] <= a /\ b <= hi[q]
  /\ i # 1 => lo[q] < a /\ page[q].ents[i].k = a
  /\ i = 1 => lo[q] = a /\ b < hi[q] /\ page[q].ents[2].k = b
  /\ i # Len(page[q].ents) => page[q].ents[i + 1].k = b
  /\ i = Len(page[q].ents) => hi[q] = b
Beside(R, lv, lo, hi, C, q, a, b) == \A p \in R \ C : lv[p] < lv[q] => hi[p] <= a \/ b <= lo[p]
Outside(page, R, lv, C, q, i) ==
  \A p \in R \ C : lv[p] # 0 => \A j \in 1 .. Len(page[p].ents) : page[p].ents[j].v \in C => p = q /\ j = i

\* The pages taken out leave one hole among the keys.
LEMMA DropFacts ==
  ASSUME NEW page, NEW R, NEW lv, NEW lo, NEW hi, NEW C, NEW q, NEW i, NEW a, NEW b,
         DropAt(page, R, lv, lo, hi, C, q, i, a, b)
  PROVE  Hole(page, lo, hi, q, i, a, b) /\ Beside(R, lv, lo, hi, C, q, a, b) /\ Outside(page, R, lv, C, q, i)
<1>1. TreeOK(page, R, lv, lo, hi, P_INVALID)
  BY DEF DropAt
<1>2. q \in R /\ lv[q] # 0 /\ q \notin C /\ C \subseteq R
  BY <1>1 DEF DropAt
<1>3. PICK n : n = Len(page[q].ents)
  OBVIOUS
<1>4. n \in Nat /\ lo[q] \in Nat /\ hi[q] \in Nat /\ lv[q] \in Nat
  BY ONLY <1>1, <1>2, <1>3, InTree
<1>5. PICK c : c = page[q].ents[i].v
  OBVIOUS
<1>6. c \in C /\ c \in R /\ i \in 1 .. n /\ n # 1
  BY ONLY <1>3, <1>5, DropAt(page, R, lv, lo, hi, C, q, i, a, b) DEF DropAt
<1>7. a = lo[c] /\ b = hi[c]
  BY <1>6 DEF DropAt
<1>8. /\ lo[c] = IF i = 1 THEN lo[q] ELSE page[q].ents[i].k
      /\ hi[c] = IF i = n THEN hi[q] ELSE page[q].ents[i + 1].k
  <2>1. Down(page, R, lv, lo, hi)
    BY ONLY <1>1, <1>2 DEF TreeOK
  <2>2. QED
    BY ONLY <1>2, <1>3, <1>5, <1>6, <2>1 DEF Down
<1>9. lo[c] \in Nat /\ hi[c] \in Nat /\ lo[c] < hi[c] /\ lo[q] <= lo[c] /\ hi[c] <= hi[q]
  <2>1. lo[c] \in Nat /\ hi[c] \in Nat /\ lo[c] < hi[c]
    BY ONLY <1>1, <1>2, <1>6, InTree
  <2>2. lo[q] <= lo[c] /\ hi[c] <= hi[q]
    <3>1. i \in 1 .. Len(page[q].ents)
      BY ONLY <1>3, <1>6
    <3>2. lo[q] <= lo[page[q].ents[i].v] /\ hi[page[q].ents[i].v] <= hi[q]
      BY ONLY <1>1, <1>2, <3>1, ChildWithin
    <3>3. QED
      BY ONLY <1>5, <3>2
  <2>3. QED
    BY ONLY <2>1, <2>2
<1>10. hi[q] <= MaxKey + 1 /\ MaxKey \in Nat
  BY ONLY <1>1, <1>2, Bounded, Numbers
<1>11. Within(page, R, lv, lo, hi)
  BY ONLY <1>1, <1>2 DEF TreeOK
<1>12. i # 1 => lo[q] < page[q].ents[i].k
  BY ONLY <1>2, <1>3, <1>6, <1>11 DEF Within
<1>13. i = 1 => i + 1 = 2 /\ 2 \in 1 .. n /\ i # n
  BY ONLY <1>4, <1>6
<1>14. i = 1 => page[q].ents[2].k < hi[q]
  BY ONLY <1>2, <1>3, <1>13, <1>11 DEF Within
<1>15. Hole(page, lo, hi, q, i, a, b)
  <2>1. a \in Nat /\ b \in Nat /\ a < b /\ b <= MaxKey + 1 /\ lo[q] <= a /\ b <= hi[q]
    BY ONLY <1>4, <1>7, <1>9, <1>10
  <2>2. i # 1 => lo[q] < a /\ page[q].ents[i].k = a
    BY ONLY <1>7, <1>8, <1>12
  <2>3. i # n => page[q].ents[i + 1].k = b
    BY ONLY <1>7, <1>8
  <2>4. i = 1 => lo[q] = a /\ b < hi[q] /\ page[q].ents[2].k = b
    BY ONLY <1>7, <1>8, <1>13, <1>14
  <2>5. i = n => hi[q] = b
    BY ONLY <1>7, <1>8
  <2>6. QED
    BY ONLY <1>3, <2>1, <2>2, <2>3, <2>4, <2>5 DEF Hole
<1>16. Apart(R, lv, lo, hi)
  BY ONLY <1>1, <1>2 DEF TreeOK
<1>17. ASSUME NEW p \in R \ C, lv[p] < lv[q] PROVE hi[p] <= a \/ b <= lo[p]
  <2>1. lv[p] \in Nat
    BY ONLY <1>1, <1>2, <1>17, InTree
  <2>2. PICK d \in C : lv[d] = lv[p]
    BY <1>17, <2>1 DEF DropAt
  <2>3. lo[d] = a /\ hi[d] = b /\ d \in R
    BY <2>2, <1>2 DEF DropAt
  <2>4. QED
    BY ONLY <1>16, <1>17, <2>2, <2>3 DEF Apart
<1>18. ASSUME NEW p \in R \ C, lv[p] # 0, NEW j \in 1 .. Len(page[p].ents), page[p].ents[j].v \in C PROVE p = q /\ j = i
  <2>1. PICK d : d = page[p].ents[j].v
    OBVIOUS
  <2>2. d \in C
    BY ONLY <1>18, <2>1
  <2>3. CASE d = c
    <3>1. i \in 1 .. Len(page[q].ents)
      BY ONLY <1>3, <1>6
    <3>2. page[p].ents[j].v = page[q].ents[i].v /\ p \in R
      BY ONLY <1>5, <1>18, <2>1, <2>3
    <3>3. QED
      BY ONLY <1>1, <1>2, <1>18, <3>1, <3>2, OneParent
  <2>4. CASE d # c
    <3>1. PICK f \in C : lv[f] # 0 /\ page[f].ents[1].v = d
      BY <1>5, <2>2, <2>4 DEF DropAt
    <3>2. Len(page[f].ents) = 1
      BY <3>1 DEF DropAt
    <3>3. f \in R /\ 1 \in 1 .. Len(page[f].ents)
      BY ONLY <1>2, <3>1, <3>2
    <3>4. p = f
      <4>1. page[p].ents[j].v = page[f].ents[1].v /\ p \in R
        BY ONLY <1>18, <2>1, <3>1
      <4>2. QED
        BY ONLY <1>1, <1>18, <3>1, <3>3, <4>1, OneParent
    <3>5. QED
      BY ONLY <1>18, <3>1, <3>4
  <2>5. QED
    BY ONLY <2>3, <2>4
<1>19. QED
  BY ONLY <1>15, <1>17, <1>18 DEF Beside, Outside

\* The intervals after it.
Wider(R, lv, lo, hi, C, q, i, a, b, lo2, hi2) ==
  /\ lo2 \in [PageNo -> Nat] /\ hi2 \in [PageNo -> Nat]
  /\ \A p \in R : /\ lo2[p] = IF i = 1 /\ lv[p] < lv[q] /\ lo[p] = b THEN a ELSE lo[p]
                  /\ hi2[p] = IF i # 1 /\ lv[p] < lv[q] /\ hi[p] = a THEN b ELSE hi[p]
                  /\ lo2[p] <= lo[p] /\ hi[p] <= hi2[p] /\ lo2[p] < hi2[p]

\* The neighbours of the hole, and they only, get its keys.
LEMMA WiderIs ==
  ASSUME NEW page, NEW R, NEW lv, NEW lo, NEW hi, NEW C, NEW q, NEW i, NEW a, NEW b,
         DropAt(page, R, lv, lo, hi, C, q, i, a, b), NEW lo2, NEW hi2,
         lo2 = DropLo(lv, lo, q, i, a, b), hi2 = DropHi(lv, hi, q, i, a, b)
  PROVE  Wider(R, lv, lo, hi, C, q, i, a, b, lo2, hi2)
<1>1. TreeOK(page, R, lv, lo, hi, P_INVALID)
  BY DEF DropAt
<1>2. R \subseteq PageNo /\ lo \in [PageNo -> Nat] /\ hi \in [PageNo -> Nat]
  BY <1>1 DEF TreeOK, Typed
<1>3. a \in Nat /\ b \in Nat /\ a < b
  BY DropFacts DEF Hole
<1>4. \A p \in PageNo : /\ lo2[p] = IF i = 1 /\ lv[p] < lv[q] /\ lo[p] = b THEN a ELSE lo[p]
                        /\ hi2[p] = IF i # 1 /\ lv[p] < lv[q] /\ hi[p] = a THEN b ELSE hi[p]
  BY DEF DropLo, DropHi
<1>5. lo2 \in [PageNo -> Nat] /\ hi2 \in [PageNo -> Nat]
  BY <1>2, <1>3 DEF DropLo, DropHi
<1>6. ASSUME NEW p \in R PROVE lo2[p] <= lo[p] /\ hi[p] <= hi2[p] /\ lo2[p] < hi2[p]
  <2>1. lo[p] \in Nat /\ hi[p] \in Nat /\ lo[p] < hi[p] /\ p \in PageNo
    BY ONLY <1>1, <1>6, InTree
  <2>2. QED
    BY ONLY <1>3, <1>4, <2>1
<1>7. QED
  BY ONLY <1>2, <1>4, <1>5, <1>6 DEF Wider

DropNow(page, R, lv, lo, hi, C, q, i, a, b, new, es, lo2, hi2) ==
  /\ DropAt(page, R, lv, lo, hi, C, q, i, a, b)
  /\ Hole(page, lo, hi, q, i, a, b) /\ Beside(R, lv, lo, hi, C, q, a, b) /\ Outside(page, R, lv, C, q, i)
  /\ Wider(R, lv, lo, hi, C, q, i, a, b, lo2, hi2)
  /\ Dropped(page, new, R, C, q, es) /\ IsRemoved(es, page[q].ents, i)

LEMMA DropTypes ==
  ASSUME NEW page, NEW R, NEW lv, NEW lo, NEW hi, NEW C, NEW q, NEW i, NEW a, NEW b, NEW new, NEW es, NEW lo2, NEW hi2,
         DropNow(page, R, lv, lo, hi, C, q, i, a, b, new, es, lo2, hi2)
  PROVE  /\ TreeOK(page, R, lv, lo, hi, P_INVALID) /\ C \subseteq R /\ q \in R \ C /\ lv[q] # 0 /\ lv[q] \in Nat
         /\ \A p \in R : /\ lo[p] \in Nat /\ hi[p] \in Nat /\ lo[p] < hi[p] /\ lv[p] \in Nat
                         /\ lo2[p] \in Nat /\ hi2[p] \in Nat /\ p # P_INVALID /\ hi[p] <= MaxKey + 1
         /\ a \in Nat /\ b \in Nat /\ a < b /\ MaxKey \in Nat /\ b <= MaxKey + 1 /\ P_INVALID \notin C
<1>1. TreeOK(page, R, lv, lo, hi, P_INVALID) /\ C \subseteq R /\ q \in R \ C /\ lv[q] # 0
  BY DEF DropNow, DropAt
<1>2. R \subseteq PageNo
  BY <1>1 DEF TreeOK, Typed
<1>3. ASSUME NEW p \in R
      PROVE  /\ lo[p] \in Nat /\ hi[p] \in Nat /\ lo[p] < hi[p] /\ lv[p] \in Nat
             /\ lo2[p] \in Nat /\ hi2[p] \in Nat /\ p # P_INVALID /\ hi[p] <= MaxKey + 1
  <2>1. lo[p] \in Nat /\ hi[p] \in Nat /\ lo[p] < hi[p] /\ lv[p] \in Nat /\ p # P_INVALID
    BY ONLY <1>1, <1>3, InTree
  <2>2. hi[p] <= MaxKey + 1
    BY ONLY <1>1, <1>3, Bounded
  <2>3. lo2[p] \in Nat /\ hi2[p] \in Nat
    BY <1>2, <1>3 DEF DropNow, Wider
  <2>4. QED
    BY ONLY <2>1, <2>2, <2>3
<1>4. a \in Nat /\ b \in Nat /\ a < b /\ b <= MaxKey + 1
  BY DEF DropNow, Hole
<1>5. MaxKey \in Nat
  BY Numbers
<1>6. QED
  BY ONLY <1>1, <1>3, <1>4, <1>5

\* Each part of TreeOK after the pages were taken out.
LEMMA DropApart ==
  ASSUME NEW page, NEW R, NEW lv, NEW lo, NEW hi, NEW C, NEW q, NEW i, NEW a, NEW b, NEW new, NEW es, NEW lo2, NEW hi2,
         DropNow(page, R, lv, lo, hi, C, q, i, a, b, new, es, lo2, hi2)
  PROVE  Apart(R \ C, lv, lo2, hi2)
<1>1. SUFFICES ASSUME NEW p \in R \ C, NEW r \in R \ C, p # r, lv[p] = lv[r]
               PROVE  hi2[p] <= lo2[r] \/ hi2[r] <= lo2[p]
  BY DEF Apart
<1>2. /\ TreeOK(page, R, lv, lo, hi, P_INVALID)
      /\ \A y \in R : lo[y] \in Nat /\ hi[y] \in Nat /\ lo[y] < hi[y] /\ lo2[y] \in Nat /\ hi2[y] \in Nat
      /\ a \in Nat /\ b \in Nat /\ a < b
  BY DropTypes
<1>3. hi[p] <= lo[r] \/ hi[r] <= lo[p]
  BY <1>1, <1>2 DEF TreeOK, Apart
<1>4. /\ lo2[p] = IF i = 1 /\ lv[p] < lv[q] /\ lo[p] = b THEN a ELSE lo[p]
      /\ hi2[p] = IF i # 1 /\ lv[p] < lv[q] /\ hi[p] = a THEN b ELSE hi[p]
      /\ lo2[r] = IF i = 1 /\ lv[r] < lv[q] /\ lo[r] = b THEN a ELSE lo[r]
      /\ hi2[r] = IF i # 1 /\ lv[r] < lv[q] /\ hi[r] = a THEN b ELSE hi[r]
  BY <1>1 DEF DropNow, Wider
<1>5. lv[p] < lv[q] => (hi[p] <= a \/ b <= lo[p]) /\ (hi[r] <= a \/ b <= lo[r])
  BY <1>1 DEF DropNow, Beside
<1>6. CASE lv[p] < lv[q]
  BY ONLY <1>1, <1>2, <1>3, <1>4, <1>5, <1>6
<1>7. CASE ~(lv[p] < lv[q])
  BY ONLY <1>1, <1>3, <1>4, <1>7
<1>8. QED
  BY ONLY <1>6, <1>7

LEMMA DropLinked ==
  ASSUME NEW page, NEW R, NEW lv, NEW lo, NEW hi, NEW C, NEW q, NEW i, NEW a, NEW b, NEW new, NEW es, NEW lo2, NEW hi2,
         DropNow(page, R, lv, lo, hi, C, q, i, a, b, new, es, lo2, hi2)
  PROVE  Linked(new, R \ C, lv, lo2, hi2)
<1>1. /\ TreeOK(page, R, lv, lo, hi, P_INVALID) /\ C \subseteq R
      /\ \A y \in R : lo[y] \in Nat /\ hi[y] \in Nat /\ lo[y] < hi[y] /\ hi[y] <= MaxKey + 1 /\ y # P_INVALID
      /\ a \in Nat /\ b \in Nat /\ a < b /\ MaxKey \in Nat /\ b <= MaxKey + 1
  BY DropTypes
<1>2. Linked(page, R, lv, lo, hi)
  BY ONLY <1>1 DEF TreeOK
<1>3. \A y \in R : /\ lo2[y] = IF i = 1 /\ lv[y] < lv[q] /\ lo[y] = b THEN a ELSE lo[y]
                   /\ hi2[y] = IF i # 1 /\ lv[y] < lv[q] /\ hi[y] = a THEN b ELSE hi[y]
  BY DEF DropNow, Wider
<1>4. \A y \in R \ C : lv[y] < lv[q] => hi[y] <= a \/ b <= lo[y]
  BY DEF DropNow, Beside
<1>5. \A c \in C : lv[c] < lv[q] /\ lo[c] = a /\ hi[c] = b
  BY DEF DropNow, DropAt
<1>6. (i = 1 => b < MaxKey + 1) /\ (i # 1 => 0 < a)
  <2>1. q \in R
    BY DEF DropNow, DropAt
  <2>2. lo[q] \in Nat /\ hi[q] \in Nat /\ hi[q] <= MaxKey + 1
    BY ONLY <1>1, <2>1
  <2>3. (i = 1 => b < hi[q]) /\ (i # 1 => lo[q] < a)
    BY DEF DropNow, Hole
  <2>4. QED
    BY ONLY <1>1, <2>2, <2>3
<1>7. ASSUME NEW p \in R \ C
      PROVE  \/ new[p].next = P_INVALID /\ hi2[p] = MaxKey + 1
             \/ new[p].next \in R \ C /\ lv[new[p].next] = lv[p] /\ lo2[new[p].next] = hi2[p]
  <2>1. new[p].next = IF page[p].next \in C THEN page[page[p].next].next ELSE page[p].next
    BY <1>7 DEF DropNow, Dropped
  <2>2. CASE page[p].next \in C
    <3>1. PICK c : c = page[p].next
      OBVIOUS
    <3>2. c \in C /\ c \in R /\ lv[c] = lv[p] /\ lo[c] = hi[p] /\ lo[c] = a /\ hi[c] = b /\ lv[c] < lv[q] /\ c # P_INVALID
      BY ONLY <1>1, <1>2, <1>5, <1>7, <2>2, <3>1 DEF Linked
    <3>3. hi2[p] = IF i # 1 THEN b ELSE a
      BY ONLY <1>3, <1>7, <3>2
    <3>4. PICK d : d = page[c].next
      OBVIOUS
    <3>5. CASE d = P_INVALID
      <4>1. hi[c] = MaxKey + 1
        BY ONLY <1>1, <1>2, <3>2, <3>4, <3>5 DEF Linked
      <4>2. QED
        BY ONLY <1>1, <1>6, <2>1, <2>2, <3>1, <3>2, <3>3, <3>4, <3>5, <4>1
    <3>6. CASE d # P_INVALID
      <4>1. d \in R /\ lv[d] = lv[c] /\ lo[d] = hi[c]
        BY ONLY <1>2, <3>2, <3>4, <3>6 DEF Linked
      <4>2. d \notin C
        BY ONLY <1>1, <1>5, <3>2, <4>1
      <4>3. lo2[d] = IF i = 1 THEN a ELSE b
        BY ONLY <1>3, <3>2, <4>1
      <4>4. QED
        BY ONLY <2>1, <2>2, <3>1, <3>2, <3>3, <3>4, <4>1, <4>2, <4>3
    <3>7. QED
      BY ONLY <3>5, <3>6
  <2>3. CASE page[p].next \notin C
    <3>1. PICK r : r = page[p].next
      OBVIOUS
    <3>2. \/ r = P_INVALID /\ hi[p] = MaxKey + 1
          \/ r \in R /\ lv[r] = lv[p] /\ lo[r] = hi[p]
      BY ONLY <1>2, <1>7, <3>1 DEF Linked
    <3>3. CASE r = P_INVALID
      <4>1. hi[p] = MaxKey + 1 /\ p \in R
        BY ONLY <1>1, <1>7, <3>2, <3>3
      <4>2. hi[p] # a
        BY ONLY <1>1, <4>1
      <4>3. hi2[p] = hi[p]
        BY ONLY <1>3, <4>1, <4>2
      <4>4. QED
        BY ONLY <2>1, <2>3, <3>1, <3>3, <4>1, <4>3
    <3>4. CASE r # P_INVALID
      <4>1. r \in R \ C /\ p \in R /\ lv[r] = lv[p] /\ lo[r] = hi[p]
        BY ONLY <1>7, <2>3, <3>1, <3>2, <3>4
      <4>2. lv[p] < lv[q] => hi[p] # a /\ lo[r] # b
        <5>1. lv[p] < lv[q] => (hi[p] <= a \/ b <= lo[p]) /\ (hi[r] <= a \/ b <= lo[r])
          BY ONLY <1>4, <1>7, <4>1
        <5>2. lo[p] < hi[p] /\ lo[r] < hi[r] /\ lo[p] \in Nat /\ hi[p] \in Nat /\ lo[r] \in Nat /\ hi[r] \in Nat
          BY ONLY <1>1, <4>1
        <5>3. QED
          BY ONLY <1>1, <4>1, <5>1, <5>2
      <4>3. hi2[p] = hi[p] /\ lo2[r] = lo[r]
        BY ONLY <1>3, <4>1, <4>2
      <4>4. QED
        BY ONLY <2>1, <2>3, <3>1, <4>1, <4>3
    <3>5. QED
      BY ONLY <3>3, <3>4
  <2>4. QED
    BY ONLY <2>2, <2>3
<1>8. ASSUME NEW p \in R \ C
      PROVE  \/ new[p].prev = P_INVALID /\ lo2[p] = 0
             \/ new[p].prev \in R \ C /\ lv[new[p].prev] = lv[p] /\ hi2[new[p].prev] = lo2[p]
  <2>1. new[p].prev = IF page[p].prev \in C THEN page[page[p].prev].prev ELSE page[p].prev
    BY <1>8 DEF DropNow, Dropped
  <2>2. CASE page[p].prev \in C
    <3>1. PICK c : c = page[p].prev
      OBVIOUS
    <3>2. c \in C /\ c \in R /\ lv[c] = lv[p] /\ hi[c] = lo[p] /\ lo[c] = a /\ hi[c] = b /\ lv[c] < lv[q] /\ c # P_INVALID
      BY ONLY <1>1, <1>2, <1>5, <1>8, <2>2, <3>1 DEF Linked
    <3>3. lo2[p] = IF i = 1 THEN a ELSE b
      BY ONLY <1>3, <1>8, <3>2
    <3>4. PICK d : d = page[c].prev
      OBVIOUS
    <3>5. CASE d = P_INVALID
      <4>1. lo[c] = 0
        BY ONLY <1>1, <1>2, <3>2, <3>4, <3>5 DEF Linked
      <4>2. QED
        BY ONLY <1>1, <1>6, <2>1, <2>2, <3>1, <3>2, <3>3, <3>4, <3>5, <4>1
    <3>6. CASE d # P_INVALID
      <4>1. d \in R /\ lv[d] = lv[c] /\ hi[d] = lo[c]
        BY ONLY <1>2, <3>2, <3>4, <3>6 DEF Linked
      <4>2. d \notin C
        BY ONLY <1>1, <1>5, <3>2, <4>1
      <4>3. hi2[d] = IF i # 1 THEN b ELSE a
        BY ONLY <1>3, <3>2, <4>1
      <4>4. QED
        BY ONLY <2>1, <2>2, <3>1, <3>2, <3>3, <3>4, <4>1, <4>2, <4>3
    <3>7. QED
      BY ONLY <3>5, <3>6
  <2>3. CASE page[p].prev \notin C
    <3>1. PICK r : r = page[p].prev
      OBVIOUS
    <3>2. \/ r = P_INVALID /\ lo[p] = 0
          \/ r \in R /\ lv[r] = lv[p] /\ hi[r] = lo[p]
      BY ONLY <1>2, <1>8, <3>1 DEF Linked
    <3>3. CASE r = P_INVALID
      <4>1. lo[p] = 0 /\ p \in R
        BY ONLY <1>1, <1>8, <3>2, <3>3
      <4>2. lo[p] # b
        BY ONLY <1>1, <4>1
      <4>3. lo2[p] = lo[p]
        BY ONLY <1>3, <4>1, <4>2
      <4>4. QED
        BY ONLY <2>1, <2>3, <3>1, <3>3, <4>1, <4>3
    <3>4. CASE r # P_INVALID
      <4>1. r \in R \ C /\ p \in R /\ lv[r] = lv[p] /\ hi[r] = lo[p]
        BY ONLY <1>8, <2>3, <3>1, <3>2, <3>4
      <4>2. lv[p] < lv[q] => lo[p] # b /\ hi[r] # a
        <5>1. lv[p] < lv[q] => (hi[p] <= a \/ b <= lo[p]) /\ (hi[r] <= a \/ b <= lo[r])
          BY ONLY <1>4, <1>8, <4>1
        <5>2. lo[p] < hi[p] /\ lo[r] < hi[r] /\ lo[p] \in Nat /\ hi[p] \in Nat /\ lo[r] \in Nat /\ hi[r] \in Nat
          BY ONLY <1>1, <4>1
        <5>3. QED
          BY ONLY <1>1, <4>1, <5>1, <5>2
      <4>3. lo2[p] = lo[p] /\ hi2[r] = hi[r]
        BY ONLY <1>3, <4>1, <4>2
      <4>4. QED
        BY ONLY <2>1, <2>3, <3>1, <4>1, <4>3
    <3>5. QED
      BY ONLY <3>3, <3>4
  <2>4. QED
    BY ONLY <2>2, <2>3
<1>9. QED
  BY ONLY <1>7, <1>8 DEF Linked

\* The records of q after it.
HasEnts(e, es, i, n) ==
  /\ n \in Nat /\ n >= 2 /\ i \in 1 .. n /\ Len(es) = n - 1
  /\ \A j \in 1 .. n - 1 : LET m == IF j < i THEN j ELSE j + 1 IN
                           m \in 1 .. n /\ m # i /\ es[j] = e[m]
  /\ \A m \in 1 .. n : m # i => LET j == IF m < i THEN m ELSE m - 1 IN
                                j \in 1 .. n - 1 /\ es[j] = e[m]

LEMMA DropEnts ==
  ASSUME NEW page, NEW R, NEW lv, NEW lo, NEW hi, NEW C, NEW q, NEW i, NEW a, NEW b, NEW new, NEW es, NEW lo2, NEW hi2,
         DropNow(page, R, lv, lo, hi, C, q, i, a, b, new, es, lo2, hi2), NEW n, n = Len(page[q].ents)
  PROVE  HasEnts(page[q].ents, es, i, n)
<1>1. TreeOK(page, R, lv, lo, hi, P_INVALID) /\ q \in R
  BY DropTypes
<1>2. n \in Nat
  BY ONLY <1>1, InTree, n = Len(page[q].ents)
<1>3. i \in 1 .. n /\ n # 1
  BY DEF DropNow, DropAt
<1>4. Len(es) = n - 1 /\ \A j \in 1 .. n - 1 : es[j] = IF j < i THEN page[q].ents[j] ELSE page[q].ents[j + 1]
  BY DEF DropNow, IsRemoved
<1>5. n >= 2
  BY ONLY <1>2, <1>3
<1>6. ASSUME NEW j \in 1 .. n - 1, NEW m, m = IF j < i THEN j ELSE j + 1
      PROVE  m \in 1 .. n /\ m # i /\ es[j] = page[q].ents[m]
  <2>1. m \in 1 .. n /\ m # i
    BY ONLY <1>2, <1>3, <1>6
  <2>2. QED
    BY ONLY <1>4, <1>6, <2>1
<1>7. ASSUME NEW m \in 1 .. n, m # i, NEW j, j = IF m < i THEN m ELSE m - 1
      PROVE  j \in 1 .. n - 1 /\ es[j] = page[q].ents[m]
  <2>1. j \in 1 .. n - 1 /\ (j < i => m = j) /\ (~(j < i) => m = j + 1)
    BY ONLY <1>2, <1>3, <1>7
  <2>2. QED
    BY ONLY <1>4, <1>7, <2>1
<1>8. QED
  BY ONLY <1>2, <1>3, <1>4, <1>5, <1>6, <1>7 DEF HasEnts

\* A child of a page that is not in the chain.
Child(R, lv, lo, hi, p, e, j) ==
  /\ e[j].v \in R /\ lv[e[j].v] = lv[p] - 1
  /\ lo[e[j].v] = IF j = 1 THEN lo[p] ELSE e[j].k
  /\ hi[e[j].v] = IF j = Len(e) THEN hi[p] ELSE e[j + 1].k

\* The children of a page that lost no record.
LEMMA DropDownElse ==
  ASSUME NEW page, NEW R, NEW lv, NEW lo, NEW hi, NEW C, NEW q, NEW i, NEW a, NEW b, NEW new, NEW es, NEW lo2, NEW hi2,
         DropNow(page, R, lv, lo, hi, C, q, i, a, b, new, es, lo2, hi2),
         NEW p \in R \ C, lv[p] # 0, p # q, NEW j \in 1 .. Len(new[p].ents)
  PROVE  Child(R \ C, lv, lo2, hi2, p, new[p].ents, j)
<1>1. /\ TreeOK(page, R, lv, lo, hi, P_INVALID) /\ C \subseteq R /\ q \in R
      /\ \A y \in R : lo[y] \in Nat /\ hi[y] \in Nat /\ lo[y] < hi[y] /\ lv[y] \in Nat
      /\ a \in Nat /\ b \in Nat /\ a < b
  BY DropTypes
<1>2. PICK e : e = page[p].ents
  OBVIOUS
<1>3. new[p].ents = e
  BY <1>2 DEF DropNow, Dropped
<1>4. PICK n : n = Len(e)
  OBVIOUS
<1>5. n \in Nat /\ j \in 1 .. n
  BY ONLY <1>1, <1>2, <1>3, <1>4, InTree, p \in R \ C, j \in 1 .. Len(new[p].ents)
<1>6. \A m \in 1 .. n : /\ e[m].v \in R /\ lv[e[m].v] = lv[p] - 1
                        /\ lo[e[m].v] = IF m = 1 THEN lo[p] ELSE e[m].k
                        /\ hi[e[m].v] = IF m = n THEN hi[p] ELSE e[m + 1].k
  <2>1. Down(page, R, lv, lo, hi)
    BY ONLY <1>1 DEF TreeOK
  <2>2. QED
    BY ONLY <1>2, <1>4, <2>1, p \in R \ C, lv[p] # 0 DEF Down
<1>7. \A m \in 1 .. n : e[m].v \notin C
  BY <1>2, <1>4 DEF DropNow, Outside
<1>8. \A y \in R \ C : lv[y] < lv[q] => hi[y] <= a \/ b <= lo[y]
  BY DEF DropNow, Beside
<1>9. \A y \in R : /\ lo2[y] = IF i = 1 /\ lv[y] < lv[q] /\ lo[y] = b THEN a ELSE lo[y]
                   /\ hi2[y] = IF i # 1 /\ lv[y] < lv[q] /\ hi[y] = a THEN b ELSE hi[y]
  BY DEF DropNow, Wider
<1>10. PICK v : v = e[j].v
  OBVIOUS
<1>11. v \in R \ C /\ lv[v] = lv[p] - 1 /\ lv[p] \in Nat /\ lv[q] \in Nat
  BY ONLY <1>1, <1>5, <1>6, <1>7, <1>10, p \in R \ C
\* A page of q's level is beside q.
<1>12. lv[p] = lv[q] => (hi[v] # a /\ lo[v] # b) \/ (i # 1 /\ lo[v] = b /\ hi[v] # a) \/ (i = 1 /\ hi[v] = a /\ lo[v] # b)
  <2>1. SUFFICES ASSUME lv[p] = lv[q] PROVE (i # 1 => hi[v] # a) /\ (i = 1 => lo[v] # b) /\ ~(lo[v] = b /\ hi[v] = a)
    OBVIOUS
  <2>2. hi[p] <= lo[q] \/ hi[q] <= lo[p]
    BY <1>1, <2>1 DEF TreeOK, Apart
  <2>3. lo[p] <= lo[v] /\ hi[v] <= hi[p]
    <3>1. j \in 1 .. Len(page[p].ents) /\ p \in R
      BY <1>2, <1>4, <1>5
    <3>2. lo[p] <= lo[page[p].ents[j].v] /\ hi[page[p].ents[j].v] <= hi[p]
      BY ONLY <1>1, <3>1, lv[p] # 0, ChildWithin
    <3>3. QED
      BY ONLY <1>2, <1>10, <3>2
  <2>4. /\ lo[v] \in Nat /\ hi[v] \in Nat /\ lo[v] < hi[v] /\ lo[q] \in Nat /\ hi[q] \in Nat
        /\ lo[p] \in Nat /\ hi[p] \in Nat
    BY ONLY <1>1, <1>11, p \in R \ C
  <2>5. lo[q] <= a /\ b <= hi[q] /\ (i # 1 => lo[q] < a) /\ (i = 1 => b < hi[q])
    BY DEF DropNow, Hole
  <2>6. QED
    BY ONLY <1>1, <2>2, <2>3, <2>4, <2>5
<1>13. lo2[v] = IF j = 1 THEN lo2[p] ELSE e[j].k
  <2>1. CASE j = 1
    <3>1. lo[v] = lo[p]
      BY ONLY <1>5, <1>6, <1>10, <2>1
    <3>2. CASE lv[p] < lv[q]
      <4>1. lv[v] < lv[q]
        BY ONLY <1>11, <3>2
      <4>2. QED
        BY ONLY <1>9, <1>11, <2>1, <3>1, <3>2, <4>1, p \in R \ C
    <3>3. CASE ~(lv[p] < lv[q])
      <4>1. i = 1 /\ lv[v] < lv[q] => lo[v] # b
        BY ONLY <1>11, <1>12, <3>3, lv[p] # 0
      <4>2. lo2[v] = lo[v]
        BY ONLY <1>9, <1>11, <4>1
      <4>3. lo2[p] = lo[p]
        BY ONLY <1>9, <3>3, p \in R \ C
      <4>4. QED
        BY ONLY <2>1, <3>1, <4>2, <4>3
    <3>4. QED
      BY ONLY <3>2, <3>3
  <2>2. CASE j # 1
    <3>1. lo[v] = e[j].k
      BY ONLY <1>5, <1>6, <1>10, <2>2
    <3>2. i = 1 /\ lv[v] < lv[q] => lo[v] # b
      <4>1. SUFFICES ASSUME i = 1, lv[v] < lv[q], lo[v] = b PROVE FALSE
        OBVIOUS
      <4>2. lv[p] < lv[q]
        BY ONLY <1>11, <1>12, <4>1, lv[p] # 0
      <4>3. PICK m : m = j - 1
        OBVIOUS
      <4>4. m \in 1 .. n /\ m # n /\ m + 1 = j
        BY ONLY <1>5, <2>2, <4>3
      <4>5. PICK w : w = e[m].v
        OBVIOUS
      <4>6. w \in R \ C /\ lv[w] = lv[p] - 1 /\ hi[w] = b
        BY ONLY <1>6, <1>7, <3>1, <4>1, <4>4, <4>5
      <4>7. lv[w] < lv[q]
        BY ONLY <1>11, <4>2, <4>6
      <4>8. hi[w] <= a \/ b <= lo[w]
        BY ONLY <1>8, <4>6, <4>7
      <4>9. lo[w] < hi[w] /\ lo[w] \in Nat
        BY ONLY <1>1, <4>6
      <4>10. QED
        BY ONLY <1>1, <4>6, <4>8, <4>9
    <3>3. QED
      BY ONLY <1>9, <1>11, <2>2, <3>1, <3>2
  <2>3. QED
    BY ONLY <2>1, <2>2
<1>14. hi2[v] = IF j = n THEN hi2[p] ELSE e[j + 1].k
  <2>1. CASE j = n
    <3>1. hi[v] = hi[p]
      BY ONLY <1>5, <1>6, <1>10, <2>1
    <3>2. CASE lv[p] < lv[q]
      <4>1. lv[v] < lv[q]
        BY ONLY <1>11, <3>2
      <4>2. QED
        BY ONLY <1>9, <1>11, <2>1, <3>1, <3>2, <4>1, p \in R \ C
    <3>3. CASE ~(lv[p] < lv[q])
      <4>1. i # 1 /\ lv[v] < lv[q] => hi[v] # a
        BY ONLY <1>11, <1>12, <3>3, lv[p] # 0
      <4>2. hi2[v] = hi[v]
        BY ONLY <1>9, <1>11, <4>1
      <4>3. hi2[p] = hi[p]
        BY ONLY <1>9, <3>3, p \in R \ C
      <4>4. QED
        BY ONLY <2>1, <3>1, <4>2, <4>3
    <3>4. QED
      BY ONLY <3>2, <3>3
  <2>2. CASE j # n
    <3>1. hi[v] = e[j + 1].k
      BY ONLY <1>5, <1>6, <1>10, <2>2
    <3>2. i # 1 /\ lv[v] < lv[q] => hi[v] # a
      <4>1. SUFFICES ASSUME i # 1, lv[v] < lv[q], hi[v] = a PROVE FALSE
        OBVIOUS
      <4>2. lv[p] < lv[q]
        BY ONLY <1>11, <1>12, <4>1, lv[p] # 0
      <4>3. PICK m : m = j + 1
        OBVIOUS
      <4>4. m \in 1 .. n /\ m # 1
        BY ONLY <1>5, <2>2, <4>3
      <4>5. PICK w : w = e[m].v
        OBVIOUS
      <4>6. w \in R \ C /\ lv[w] = lv[p] - 1 /\ lo[w] = a
        BY ONLY <1>6, <1>7, <3>1, <4>1, <4>3, <4>4, <4>5
      <4>7. lv[w] < lv[q]
        BY ONLY <1>11, <4>2, <4>6
      <4>8. hi[w] <= a \/ b <= lo[w]
        BY ONLY <1>8, <4>6, <4>7
      <4>9. lo[w] < hi[w] /\ hi[w] \in Nat
        BY ONLY <1>1, <4>6
      <4>10. QED
        BY ONLY <1>1, <4>6, <4>8, <4>9
    <3>3. QED
      BY ONLY <1>9, <1>11, <2>2, <3>1, <3>2
  <2>3. QED
    BY ONLY <2>1, <2>2
<1>15. QED
  BY ONLY <1>3, <1>4, <1>10, <1>11, <1>13, <1>14 DEF Child

\* The children of the page that lost the record of the hole.
LEMMA DropDownAt ==
  ASSUME NEW page, NEW R, NEW lv, NEW lo, NEW hi, NEW C, NEW q, NEW i, NEW a, NEW b, NEW new, NEW es, NEW lo2, NEW hi2,
         DropNow(page, R, lv, lo, hi, C, q, i, a, b, new, es, lo2, hi2), NEW j \in 1 .. Len(es)
  PROVE  Child(R \ C, lv, lo2, hi2, q, es, j)
<1>1. /\ TreeOK(page, R, lv, lo, hi, P_INVALID) /\ C \subseteq R /\ q \in R \ C /\ lv[q] # 0 /\ lv[q] \in Nat
      /\ \A y \in R : lo[y] \in Nat /\ hi[y] \in Nat /\ lo[y] < hi[y]
      /\ a \in Nat /\ b \in Nat /\ a < b
  BY DropTypes
<1>2. PICK e : e = page[q].ents
  OBVIOUS
<1>3. PICK n : n = Len(e)
  OBVIOUS
<1>4. /\ n \in Nat /\ n >= 2 /\ i \in 1 .. n /\ Len(es) = n - 1
      /\ \A l \in 1 .. n - 1 : LET m == IF l < i THEN l ELSE l + 1 IN
                               m \in 1 .. n /\ m # i /\ es[l] = e[m]
  <2>1. n = Len(page[q].ents)
    BY ONLY <1>2, <1>3
  <2>2. HasEnts(page[q].ents, es, i, n)
    BY <2>1, DropEnts
  <2>3. QED
    BY ONLY <1>2, <2>2 DEF HasEnts
<1>5. PICK m : m = IF j < i THEN j ELSE j + 1
  OBVIOUS
<1>6. j \in 1 .. n - 1 /\ m \in 1 .. n /\ m # i /\ es[j] = e[m]
  BY ONLY <1>4, <1>5, j \in 1 .. Len(es)
<1>7. \A l \in 1 .. n : /\ e[l].v \in R /\ lv[e[l].v] = lv[q] - 1
                        /\ lo[e[l].v] = IF l = 1 THEN lo[q] ELSE e[l].k
                        /\ hi[e[l].v] = IF l = n THEN hi[q] ELSE e[l + 1].k
  <2>1. Down(page, R, lv, lo, hi)
    BY ONLY <1>1 DEF TreeOK
  <2>2. QED
    <3>1. q \in R /\ lv[q] # 0
      BY ONLY <1>1
    <3>2. QED
      BY ONLY <1>2, <1>3, <2>1, <3>1 DEF Down
<1>8. PICK v : v = e[m].v
  OBVIOUS
<1>9. v \in R \ C
  <2>1. v \in C => m = i
    BY <1>1, <1>2, <1>3, <1>6, <1>8 DEF DropNow, Outside
  <2>2. QED
    BY ONLY <1>6, <1>7, <1>8, <2>1
<1>10. /\ lv[v] = lv[q] - 1 /\ lv[v] < lv[q]
       /\ lo[v] = IF m = 1 THEN lo[q] ELSE e[m].k
       /\ hi[v] = IF m = n THEN hi[q] ELSE e[m + 1].k
  BY ONLY <1>1, <1>6, <1>7, <1>8
<1>11. /\ lo2[v] = IF i = 1 /\ lo[v] = b THEN a ELSE lo[v]
       /\ hi2[v] = IF i # 1 /\ hi[v] = a THEN b ELSE hi[v]
       /\ lo2[q] = lo[q] /\ hi2[q] = hi[q]
  <2>1. \A y \in R : /\ lo2[y] = IF i = 1 /\ lv[y] < lv[q] /\ lo[y] = b THEN a ELSE lo[y]
                     /\ hi2[y] = IF i # 1 /\ lv[y] < lv[q] /\ hi[y] = a THEN b ELSE hi[y]
    BY DEF DropNow, Wider
  <2>2. QED
    BY ONLY <1>1, <1>9, <1>10, <2>1
<1>12. /\ i # 1 => e[i].k = a /\ lo[q] < a
       /\ i = 1 => lo[q] = a /\ e[2].k = b
       /\ i # n => e[i + 1].k = b
       /\ i = n => hi[q] = b
  BY <1>2, <1>3 DEF DropNow, Hole
\* The children in order.
<1>13. ASSUME NEW x \in 1 .. n, NEW y \in 1 .. n, x < y PROVE hi[e[x].v] <= lo[e[y].v]
  <2>1. \A l \in 1 .. Len(page[q].ents) : x < l => hi[page[q].ents[x].v] <= lo[page[q].ents[l].v]
    BY ONLY <1>1, <1>2, <1>3, <1>13, ChildWithin
  <2>2. QED
    BY ONLY <1>2, <1>3, <1>13, <2>1
<1>14. lo[e[i].v] = a /\ hi[e[i].v] = b
  BY ONLY <1>4, <1>7, <1>12
<1>15. (m < i => hi[v] <= a) /\ (i < m => b <= lo[v]) /\ lo[v] \in Nat /\ hi[v] \in Nat /\ lo[v] < hi[v]
  BY ONLY <1>1, <1>4, <1>6, <1>8, <1>9, <1>13, <1>14
<1>16. lo2[v] = IF j = 1 THEN lo2[q] ELSE es[j].k
  <2>1. CASE i = 1
    <3>1. m = j + 1 /\ m # 1 /\ i < m
      BY ONLY <1>4, <1>5, <1>6, <2>1
    <3>2. lo[v] = e[m].k
      BY ONLY <1>10, <3>1
    <3>3. CASE j = 1
      <4>1. m = 2
        BY ONLY <3>1, <3>3
      <4>2. QED
        BY ONLY <1>11, <1>12, <2>1, <3>2, <3>3, <4>1
    <3>4. CASE j # 1
      <4>1. hi[e[2].v] <= lo[v] /\ 2 \in 1 .. n
        <5>1. 2 \in 1 .. n /\ 2 < m
          BY ONLY <1>4, <1>6, <3>1, <3>4
        <5>2. QED
          BY ONLY <1>6, <1>8, <1>13, <5>1
      <4>2. e[2].v \in R /\ lo[e[2].v] = b
        BY ONLY <1>7, <1>12, <2>1, <4>1
      <4>3. b < hi[e[2].v] /\ hi[e[2].v] \in Nat
        BY ONLY <1>1, <4>2
      <4>4. lo[v] # b
        BY ONLY <1>1, <1>15, <4>1, <4>3
      <4>5. QED
        BY ONLY <1>6, <1>11, <3>2, <3>4, <4>4
    <3>5. QED
      BY ONLY <3>3, <3>4
  <2>2. CASE i # 1
    <3>1. j = 1 <=> m = 1
      BY ONLY <1>4, <1>5, <1>6, <2>2
    <3>2. QED
      BY ONLY <1>6, <1>10, <1>11, <2>2, <3>1
  <2>3. QED
    BY ONLY <2>1, <2>2
<1>17. hi2[v] = IF j = n - 1 THEN hi2[q] ELSE es[j + 1].k
  <2>1. ASSUME j # n - 1
        PROVE  es[j + 1] = IF j + 1 < i THEN e[j + 1] ELSE e[j + 2]
    <3>1. j + 1 \in 1 .. n - 1 /\ (j + 1) + 1 = j + 2
      BY ONLY <1>4, <1>6, <2>1
    <3>2. QED
      BY ONLY <1>4, <3>1
  <2>2. CASE m < i /\ j + 1 = i
    <3>1. m = j /\ i # 1 /\ m # n /\ m + 1 = i
      BY ONLY <1>4, <1>5, <1>6, <2>2
    <3>2. hi[v] = a
      BY ONLY <1>10, <1>12, <3>1
    <3>3. hi2[v] = b
      BY ONLY <1>11, <3>1, <3>2
    <3>4. CASE j = n - 1
      <4>1. i = n
        BY ONLY <1>4, <2>2, <3>4
      <4>2. QED
        BY ONLY <1>11, <1>12, <3>3, <3>4, <4>1
    <3>5. CASE j # n - 1
      <4>1. i # n /\ j + 2 = i + 1 /\ ~(j + 1 < i)
        BY ONLY <1>4, <1>6, <2>2, <3>5
      <4>2. QED
        BY ONLY <1>12, <2>1, <3>3, <3>5, <4>1
    <3>6. QED
      BY ONLY <3>4, <3>5
  <2>3. CASE m < i /\ j + 1 # i
    <3>1. m = j /\ j + 1 < i /\ j # n - 1 /\ m # n /\ i # 1 /\ m + 1 \in 1 .. n /\ m + 1 < i /\ m < m + 1 /\ m + 1 = j + 1
      BY ONLY <1>4, <1>5, <1>6, <2>3
    <3>2. hi[v] = e[j + 1].k
      BY ONLY <1>10, <3>1
    <3>3. hi[v] # a
      <4>1. hi[v] <= lo[e[m + 1].v] /\ hi[e[m + 1].v] <= lo[e[i].v] /\ e[m + 1].v \in R
        BY ONLY <1>4, <1>6, <1>7, <1>8, <1>13, <3>1
      <4>2. lo[e[m + 1].v] < hi[e[m + 1].v] /\ lo[e[m + 1].v] \in Nat /\ hi[e[m + 1].v] \in Nat
        BY ONLY <1>1, <4>1
      <4>3. QED
        BY ONLY <1>1, <1>14, <1>15, <4>1, <4>2
    <3>4. QED
      BY ONLY <1>11, <2>1, <3>1, <3>2, <3>3
  <2>4. CASE ~(m < i)
    <3>1. m = j + 1 /\ i < m /\ ~(j + 1 < i) /\ m + 1 = j + 2 /\ (m = n <=> j = n - 1)
      BY ONLY <1>4, <1>5, <1>6, <2>4
    <3>2. hi[v] # a
      BY ONLY <1>1, <1>15, <3>1
    <3>3. hi2[v] = hi[v]
      BY ONLY <1>11, <3>2
    <3>4. QED
      BY ONLY <1>10, <1>11, <2>1, <3>1, <3>3
  <2>5. QED
    BY ONLY <2>2, <2>3, <2>4
<1>18. QED
  BY ONLY <1>4, <1>6, <1>8, <1>9, <1>10, <1>16, <1>17 DEF Child

LEMMA DropRecords ==
  ASSUME NEW page, NEW R, NEW lv, NEW lo, NEW hi, NEW C, NEW q, NEW i, NEW a, NEW b, NEW new, NEW es, NEW lo2, NEW hi2,
         DropNow(page, R, lv, lo, hi, C, q, i, a, b, new, es, lo2, hi2)
  PROVE  /\ Ordered(new, R \ C, lv) /\ Within(new, R \ C, lv, lo2, hi2) /\ Filled(new, R \ C, lv)
         /\ Fitting(new, R \ C, P_INVALID)
<1>1. /\ TreeOK(page, R, lv, lo, hi, P_INVALID) /\ C \subseteq R /\ q \in R /\ q \notin C /\ lv[q] # 0 /\ lv[q] \in Nat
      /\ \A y \in R : /\ lo[y] \in Nat /\ hi[y] \in Nat /\ lo2[y] \in Nat /\ hi2[y] \in Nat /\ y # P_INVALID
  BY DropTypes
<1>2. Ordered(page, R, lv) /\ Within(page, R, lv, lo, hi) /\ Filled(page, R, lv) /\ Fitting(page, R, P_INVALID)
  BY ONLY <1>1 DEF TreeOK
<1>3. PICK e : e = page[q].ents
  OBVIOUS
<1>4. PICK n : n = Len(e)
  OBVIOUS
<1>5. HasEnts(e, es, i, n)
  <2>1. n = Len(page[q].ents)
    BY ONLY <1>3, <1>4
  <2>2. HasEnts(page[q].ents, es, i, n)
    BY <2>1, DropEnts
  <2>3. QED
    BY ONLY <1>3, <2>2
<1>6. /\ n \in Nat /\ n >= 2 /\ i \in 1 .. n /\ Len(es) = n - 1
      /\ \A j \in 1 .. n - 1 : LET m == IF j < i THEN j ELSE j + 1 IN m \in 1 .. n /\ m # i /\ es[j] = e[m]
  BY ONLY <1>5 DEF HasEnts
<1>7. \A p \in R \ C : new[p].leaf = page[p].leaf /\ (p = q => new[p].ents = es) /\ (p # q => new[p].ents = page[p].ents)
  BY DEF DropNow, Dropped
<1>8. \A p \in R : lo2[p] <= lo[p] /\ hi[p] <= hi2[p]
  BY DEF DropNow, Wider
<1>9. Ordered(new, R \ C, lv)
  <2>1. SUFFICES ASSUME NEW p \in R \ C, NEW x \in 1 .. Len(new[p].ents), NEW y \in 1 .. Len(new[p].ents),
                        x < y, lv[p] = 0 \/ x # 1
                 PROVE  new[p].ents[x].k < new[p].ents[y].k
    BY DEF Ordered
  <2>2. CASE p # q
    BY ONLY <1>2, <1>7, <2>1, <2>2 DEF Ordered
  <2>3. CASE p = q
    <3>1. x \in 1 .. n - 1 /\ y \in 1 .. n - 1 /\ x # 1
      BY ONLY <1>1, <1>6, <1>7, <2>1, <2>3
    <3>2. PICK u : u = IF x < i THEN x ELSE x + 1
      OBVIOUS
    <3>3. PICK w : w = IF y < i THEN y ELSE y + 1
      OBVIOUS
    <3>4. u \in 1 .. n /\ w \in 1 .. n /\ es[x] = e[u] /\ es[y] = e[w]
      BY ONLY <1>6, <3>1, <3>2, <3>3
    <3>5. u < w /\ u # 1
      BY ONLY <1>6, <2>1, <3>1, <3>2, <3>3
    <3>6. e[u].k < e[w].k
      BY ONLY <1>1, <1>2, <1>3, <1>4, <3>4, <3>5 DEF Ordered
    <3>7. QED
      BY ONLY <1>7, <2>1, <2>3, <3>4, <3>6
  <2>4. QED
    BY ONLY <2>2, <2>3
<1>10. Within(new, R \ C, lv, lo2, hi2)
  <2>1. SUFFICES ASSUME NEW p \in R \ C, NEW x \in 1 .. Len(new[p].ents)
                 PROVE  /\ lv[p] = 0 => lo2[p] <= new[p].ents[x].k /\ new[p].ents[x].k < hi2[p]
                        /\ x # 1 => lo2[p] < new[p].ents[x].k /\ new[p].ents[x].k < hi2[p]
    BY DEF Within
  <2>2. PICK f : f = page[p].ents
    OBVIOUS
  <2>3. ASSUME NEW u \in 1 .. Len(f), new[p].ents[x] = f[u], lv[p] # 0 => (x # 1 => u # 1), lv[p] = 0 => x = u
        PROVE  /\ lv[p] = 0 => lo2[p] <= new[p].ents[x].k /\ new[p].ents[x].k < hi2[p]
               /\ x # 1 => lo2[p] < new[p].ents[x].k /\ new[p].ents[x].k < hi2[p]
    <3>1. /\ lv[p] = 0 => lo[p] <= f[u].k /\ f[u].k < hi[p]
          /\ u # 1 => lo[p] < f[u].k /\ f[u].k < hi[p]
      BY ONLY <1>2, <2>1, <2>2, <2>3 DEF Within
    <3>2. f[u].k \in Nat
      BY ONLY <1>1, <2>1, <2>2, <2>3, InTree
    <3>3. lo2[p] <= lo[p] /\ hi[p] <= hi2[p] /\ lo[p] \in Nat /\ hi[p] \in Nat /\ lo2[p] \in Nat /\ hi2[p] \in Nat
      BY ONLY <1>1, <1>8, <2>1
    <3>4. QED
      BY ONLY <2>3, <3>1, <3>2, <3>3
  <2>4. CASE p # q
    <3>1. new[p].ents = f /\ x \in 1 .. Len(f)
      BY ONLY <1>7, <2>1, <2>2, <2>4
    <3>2. new[p].ents[x] = f[x]
      BY ONLY <3>1
    <3>3. QED
      BY ONLY <2>3, <3>1, <3>2
  <2>5. CASE p = q
    <3>1. x \in 1 .. n - 1 /\ f = e /\ lv[p] # 0
      BY ONLY <1>1, <1>3, <1>6, <1>7, <2>1, <2>2, <2>5
    <3>2. PICK u : u = IF x < i THEN x ELSE x + 1
      OBVIOUS
    <3>3. u \in 1 .. n /\ es[x] = e[u] /\ (x # 1 => u # 1)
      BY ONLY <1>6, <3>1, <3>2
    <3>4. u \in 1 .. Len(f) /\ new[p].ents[x] = f[u]
      BY ONLY <1>4, <1>7, <2>1, <2>5, <3>1, <3>3
    <3>5. QED
      BY ONLY <2>3, <3>1, <3>3, <3>4
  <2>6. QED
    BY ONLY <2>4, <2>5
<1>11. Filled(new, R \ C, lv)
  <2>1. SUFFICES ASSUME NEW p \in R \ C PROVE Len(new[p].ents) # 0 \/ (p = P_ROOT /\ lv[p] = 0)
    BY DEF Filled
  <2>2. CASE p # q
    BY ONLY <1>2, <1>7, <2>1, <2>2 DEF Filled
  <2>3. CASE p = q
    BY ONLY <1>6, <1>7, <2>1, <2>3
  <2>4. QED
    BY ONLY <2>2, <2>3
<1>12. Fitting(new, R \ C, P_INVALID)
  <2>1. SUFFICES ASSUME NEW p \in R \ C PROVE Fits(Sizes(new[p].leaf, Len(new[p].ents)))
    BY DEF Fitting
  <2>2. Fits(Sizes(page[p].leaf, Len(page[p].ents)))
    BY ONLY <1>1, <1>2, <2>1 DEF Fitting
  <2>3. CASE p # q
    BY ONLY <1>7, <2>1, <2>2, <2>3
  <2>4. CASE p = q
    <3>1. page[p].leaf \in BOOLEAN
      BY ONLY <1>1, <2>1, InTree
    <3>2. Fits(Sizes(page[p].leaf, n)) /\ n - 1 \in 0 .. n
      BY ONLY <1>3, <1>4, <1>6, <2>2, <2>4
    <3>3. Fits(Sizes(page[p].leaf, n - 1))
      BY ONLY <1>6, <3>1, <3>2, FitsFewer
    <3>4. QED
      BY ONLY <1>6, <1>7, <2>1, <2>4, <3>3
  <2>5. QED
    BY ONLY <2>3, <2>4
<1>13. QED
  BY ONLY <1>9, <1>10, <1>11, <1>12

LEMMA DropUp ==
  ASSUME NEW page, NEW R, NEW lv, NEW lo, NEW hi, NEW C, NEW q, NEW i, NEW a, NEW b, NEW new, NEW es, NEW lo2, NEW hi2,
         DropNow(page, R, lv, lo, hi, C, q, i, a, b, new, es, lo2, hi2)
  PROVE  Up(new, R \ C, lv)
<1>1. TreeOK(page, R, lv, lo, hi, P_INVALID) /\ C \subseteq R /\ q \in R /\ \A y \in R : lv[y] \in Nat
  BY DropTypes
<1>2. Up(page, R, lv)
  BY ONLY <1>1 DEF TreeOK
<1>3. \A p \in R \ C : (p = q => new[p].ents = es) /\ (p # q => new[p].ents = page[p].ents)
  BY DEF DropNow, Dropped
<1>4. ASSUME NEW c \in R \ C, c # P_ROOT
      PROVE  \E p \in R \ C : lv[p] = lv[c] + 1 /\ \E j \in 1 .. Len(new[p].ents) : new[p].ents[j].v = c
  <2>1. PICK p \in R : lv[p] = lv[c] + 1 /\ \E j \in 1 .. Len(page[p].ents) : page[p].ents[j].v = c
    BY ONLY <1>2, <1>4 DEF Up
  <2>2. PICK j \in 1 .. Len(page[p].ents) : page[p].ents[j].v = c
    BY ONLY <2>1
  <2>3. lv[p] # 0
    BY ONLY <1>1, <1>4, <2>1
  <2>4. p \notin C
    <3>1. SUFFICES ASSUME p \in C PROVE FALSE
      OBVIOUS
    <3>2. Len(page[p].ents) = 1 /\ page[p].ents[1].v \in C
      BY <2>3, <3>1 DEF DropNow, DropAt
    <3>3. j = 1
      BY ONLY <2>2, <3>2
    <3>4. QED
      BY ONLY <1>4, <2>2, <3>2, <3>3
  <2>5. CASE p # q
    BY ONLY <1>3, <2>1, <2>2, <2>4, <2>5
  <2>6. CASE p = q
    <3>1. PICK n : n = Len(page[q].ents)
      OBVIOUS
    <3>2. HasEnts(page[q].ents, es, i, n)
      BY <3>1, DropEnts
    <3>3. j # i
      <4>1. page[q].ents[i].v \in C
        BY DEF DropNow, DropAt
      <4>2. QED
        BY ONLY <1>4, <2>2, <2>6, <4>1
    <3>4. PICK m : m = IF j < i THEN j ELSE j - 1
      OBVIOUS
    <3>5. m \in 1 .. n - 1 /\ es[m] = page[q].ents[j] /\ Len(es) = n - 1
      BY ONLY <2>2, <2>6, <3>1, <3>2, <3>3, <3>4 DEF HasEnts
    <3>6. m \in 1 .. Len(new[p].ents) /\ new[p].ents[m].v = c
      BY ONLY <1>3, <2>2, <2>4, <2>6, <3>5
    <3>7. QED
      BY ONLY <2>1, <2>4, <3>6
  <2>7. QED
    BY ONLY <2>5, <2>6
<1>5. QED
  BY ONLY <1>4 DEF Up

\* __bt_pdelete up to a page with another record
LEMMA DropTree ==
  ASSUME NEW page, NEW R, NEW lv, NEW lo, NEW hi, NEW C, NEW q, NEW i, NEW a, NEW b, NEW new, NEW es, NEW lo2, NEW hi2,
         DropNow(page, R, lv, lo, hi, C, q, i, a, b, new, es, lo2, hi2)
  PROVE  TreeOK(new, R \ C, lv, lo2, hi2, P_INVALID)
<1>1. /\ TreeOK(page, R, lv, lo, hi, P_INVALID) /\ C \subseteq R /\ q \in R \ C /\ lv[q] # 0 /\ lv[q] \in Nat
      /\ \A y \in R : lv[y] \in Nat
  BY DropTypes
<1>2. P_ROOT \notin C
  BY DEF DropNow, DropAt
<1>3. /\ lo2 \in [PageNo -> Nat] /\ hi2 \in [PageNo -> Nat]
      /\ \A p \in R : /\ lo2[p] = IF i = 1 /\ lv[p] < lv[q] /\ lo[p] = b THEN a ELSE lo[p]
                      /\ hi2[p] = IF i # 1 /\ lv[p] < lv[q] /\ hi[p] = a THEN b ELSE hi[p]
                      /\ lo2[p] < hi2[p]
  BY DEF DropNow, Wider
<1>4. new \in [PageNo -> Page] /\ (\A p \in R \ C : new[p].leaf = page[p].leaf) /\ \A p \in PageNo \ (R \ C) : new[p].leaf
  BY DEF DropNow, Dropped
<1>5. Typed(new, R \ C, lv, lo2, hi2)
  <2>1. Typed(page, R, lv, lo, hi)
    BY ONLY <1>1 DEF TreeOK
  <2>2. QED
    BY ONLY <1>2, <1>3, <1>4, <2>1 DEF Typed
<1>6. Spans(R \ C, lv, lo2, hi2)
  <2>1. Spans(R, lv, lo, hi) /\ P_ROOT \in R
    BY ONLY <1>1 DEF TreeOK, Typed
  <2>2. ~(lv[P_ROOT] < lv[q])
    <3>1. lv[q] <= lv[P_ROOT] /\ lv[P_ROOT] \in Nat
      BY ONLY <1>1, <2>1, InTree
    <3>2. QED
      BY ONLY <1>1, <3>1
  <2>3. QED
    BY ONLY <1>3, <2>1, <2>2 DEF Spans
<1>7. Kinds(new, R \ C, lv)
  <2>1. Kinds(page, R, lv)
    BY ONLY <1>1 DEF TreeOK
  <2>2. QED
    BY ONLY <1>4, <2>1 DEF Kinds
<1>8. Down(new, R \ C, lv, lo2, hi2)
  <2>1. SUFFICES ASSUME NEW p \in R \ C, lv[p] # 0, NEW j \in 1 .. Len(new[p].ents)
                 PROVE  Child(R \ C, lv, lo2, hi2, p, new[p].ents, j)
    BY DEF Down, Child
  <2>2. CASE p # q
    BY <2>1, <2>2, DropDownElse
  <2>3. CASE p = q
    <3>1. new[q].ents = es
      BY <1>1 DEF DropNow, Dropped
    <3>2. Child(R \ C, lv, lo2, hi2, q, es, j)
      BY <2>1, <2>3, <3>1, DropDownAt
    <3>3. QED
      BY ONLY <2>3, <3>1, <3>2, Zenon
  <2>4. QED
    BY ONLY <2>2, <2>3
<1>9. QED
  BY <1>5, <1>6, <1>7, <1>8, DropApart, DropLinked, DropRecords, DropUp DEF TreeOK
=============================================================================
