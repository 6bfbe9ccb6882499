-------------------------- MODULE LinuxListProofs ---------------------------
(***************************************************************************)
(* linux-list.h for any set of lists and entries: after every operation,   *)
(* and between the stores of __list_del, the lists are rings of the        *)
(* entries the caller put there; the loops meet what is ahead of them;     *)
(* list_empty_careful is true only once list_del_init is over.             *)
(***************************************************************************)
EXTENDS LinuxList, TLAPS

(* The ring of head h with the entries s, as pairs of neighbours, and a    *)
(* memory that holds it.                                                   *)
R(h, s, i) == IF i \in 1..Len(s) THEN s[i] ELSE h
Adj(h, s, x, y) == \E i \in 0..Len(s) : x = R(h, s, i) /\ y = R(h, s, i + 1)
Around(h, s) == ToSet(s) \cup {h}
NextOf(m, x) == m.next[x]
PrevOf(m, x) == m.prev[x]
Ringed(m, h, s) == \A x, y \in Nodes : Adj(h, s, x, y) => NextOf(m, x) = y /\ PrevOf(m, y) = x
Distinct(s) == \A i, j \in 1..Len(s) : s[i] = s[j] => i = j
Good(m, h, s) == s \in Seq(Entries) /\ Distinct(s) /\ Ringed(m, h, s)

Mem == [next : [Nodes -> Nodes \cup {LIST_POISON1}],
        prev : [Nodes -> Nodes \cup {LIST_POISON2}]]

(* t is s with the sequence u put in after its first k entries; t is s     *)
(* without its entry k.                                                    *)
Inserted(s, k, u, t) ==
    /\ t \in Seq(Entries) /\ Len(t) = Len(s) + Len(u)
    /\ \A i \in 1..k : t[i] = s[i]
    /\ \A i \in 1..Len(u) : t[k + i] = u[i]
    /\ \A i \in (k + 1)..Len(s) : t[i + Len(u)] = s[i]

Dropped(s, k, t) ==
    /\ t \in Seq(Entries) /\ Len(t) = Len(s) - 1
    /\ \A i \in 1..(k - 1) : t[i] = s[i]
    /\ \A i \in k..Len(t) : t[i] = s[i + 1]
-----------------------------------------------------------------------------
(* Rings as pairs of neighbours *)

LEMMA HeadsApart == \A h \in Heads : h \in Nodes /\ h \notin Entries
BY ListConstants DEF Nodes

LEMMA EntriesApart == \A e \in Entries : e \in Nodes /\ e \notin Heads
BY ListConstants DEF Nodes

LEMMA Members ==
  ASSUME NEW s \in Seq(Entries)
  PROVE  /\ ToSet(s) \subseteq Entries
         /\ \A x \in ToSet(s) : \E i \in 1..Len(s) : s[i] = x
         /\ \A i \in 1..Len(s) : s[i] \in ToSet(s)
BY DEF ToSet

\* Every place of a ring but the head's holds another node
LEMMA PlacesApart ==
  ASSUME NEW h \in Heads, NEW s \in Seq(Entries), Distinct(s)
  PROVE  /\ \A i, j \in 0..Len(s) : R(h, s, i) = R(h, s, j) => i = j
         /\ \A i, j \in 1..(Len(s) + 1) : R(h, s, i) = R(h, s, j) => i = j
         /\ \A i \in 0..(Len(s) + 1) : R(h, s, i) \in Around(h, s) /\ R(h, s, i) \in Nodes
<1>1. Len(s) \in Nat /\ \A i \in 1..Len(s) : s[i] \in Entries /\ s[i] # h
  BY HeadsApart
<1>2. \A i, j \in 1..Len(s) : s[i] = s[j] => i = j
  BY DEF Distinct
<1>3. \A i, j \in 0..Len(s) : R(h, s, i) = R(h, s, j) => i = j
  BY <1>1, <1>2 DEF R
<1>4. \A i, j \in 1..(Len(s) + 1) : R(h, s, i) = R(h, s, j) => i = j
  BY <1>1, <1>2 DEF R
<1>5. ASSUME NEW i \in 0..(Len(s) + 1) PROVE R(h, s, i) \in Around(h, s) /\ R(h, s, i) \in Nodes
  BY <1>1, Members, HeadsApart, EntriesApart DEF R, Around
<1>6. QED
  BY <1>3, <1>4, <1>5

LEMMA Neighbours ==
  ASSUME NEW h \in Heads, NEW s \in Seq(Entries)
  PROVE  /\ \A x, y : Adj(h, s, x, y) => x \in Around(h, s) /\ y \in Around(h, s)
         /\ Around(h, s) \subseteq Nodes
         /\ \A x \in Around(h, s) : (\E y \in Nodes : Adj(h, s, x, y)) /\ (\E w \in Nodes : Adj(h, s, w, x))
<1>1. Len(s) \in Nat /\ \A i \in 1..Len(s) : s[i] \in Entries /\ s[i] # h /\ s[i] \in ToSet(s)
  BY HeadsApart, Members
<1>2. \A i \in 0..(Len(s) + 1) : R(h, s, i) \in Around(h, s) /\ R(h, s, i) \in Nodes
  BY <1>1, HeadsApart, EntriesApart DEF R, Around
<1>3. Around(h, s) \subseteq Nodes
  BY Members, HeadsApart, EntriesApart DEF Around
<1>4. ASSUME NEW x, NEW y, Adj(h, s, x, y) PROVE x \in Around(h, s) /\ y \in Around(h, s)
  <2>1. PICK i \in 0..Len(s) : x = R(h, s, i) /\ y = R(h, s, i + 1)
    BY <1>4 DEF Adj
  <2>2. i \in 0..(Len(s) + 1) /\ i + 1 \in 0..(Len(s) + 1)
    BY <1>1
  <2>3. QED
    BY <2>1, <2>2, <1>2
<1>5. ASSUME NEW x \in Around(h, s)
      PROVE  (\E y \in Nodes : Adj(h, s, x, y)) /\ (\E w \in Nodes : Adj(h, s, w, x))
  <2>1. PICK i \in 0..Len(s) : x = R(h, s, i)
    BY Members, <1>1 DEF Around, R
  <2>2. \E y \in Nodes : Adj(h, s, x, y)
    <3>1. i + 1 \in 0..(Len(s) + 1)
      BY <1>1
    <3>2. QED
      BY <2>1, <3>1, <1>2 DEF Adj
  <2>3. PICK j \in 0..Len(s) : x = R(h, s, j + 1)
    <3>1. CASE i = 0
      <4>1. x = h /\ R(h, s, Len(s) + 1) = h
        BY <3>1, <2>1, <1>1 DEF R
      <4>2. QED
        BY <4>1, <1>1
    <3>2. CASE i # 0
      <4>1. i - 1 \in 0..Len(s) /\ (i - 1) + 1 = i
        BY <3>2, <1>1
      <4>2. QED
        BY <2>1, <4>1
    <3>3. QED
      BY <3>1, <3>2
  <2>4. R(h, s, j) \in Nodes
    BY <1>1, <1>2
  <2>5. QED
    BY <2>2, <2>3, <2>4 DEF Adj
<1>6. QED
  BY <1>3, <1>4, <1>5

\* An entry is its own neighbour on no list
LEMMA NotItself ==
  ASSUME NEW h \in Heads, NEW s \in Seq(Entries), Distinct(s), NEW x \in ToSet(s)
  PROVE  ~Adj(h, s, x, x)
<1>1. Len(s) \in Nat /\ x # h /\ x \in Entries
  BY HeadsApart, Members
<1>2. SUFFICES ASSUME NEW i \in 0..Len(s), x = R(h, s, i), x = R(h, s, i + 1) PROVE FALSE
  BY DEF Adj
<1>3. i \in 1..Len(s) /\ i + 1 \in 1..Len(s) /\ s[i] = s[i + 1]
  BY <1>1, <1>2 DEF R
<1>4. QED
  BY <1>3 DEF Distinct
-----------------------------------------------------------------------------
(* The neighbours after an operation, in terms of those before             *)

Spliced(h, s, k, u, a, b) ==
    \/ a = R(h, s, k) /\ b = u[1]
    \/ a = u[Len(u)] /\ b = R(h, s, k + 1)
    \/ \E j \in 1..(Len(u) - 1) : a = u[j] /\ b = u[j + 1]
    \/ Adj(h, s, a, b) /\ a # R(h, s, k) /\ b # R(h, s, k + 1)

LEMMA AdjInserted ==
  ASSUME NEW h \in Heads, NEW s \in Seq(Entries), NEW u \in Seq(Entries), Len(u) # 0,
         NEW k \in 0..Len(s), NEW t, Inserted(s, k, u, t), Distinct(s)
  PROVE  \A a, b : Adj(h, t, a, b) => Spliced(h, s, k, u, a, b)
<1>1. Len(s) \in Nat /\ Len(u) \in Nat \ {0} /\ Len(t) = Len(s) + Len(u)
  BY DEF Inserted
<1>2. \A i \in 0..k : R(h, t, i) = R(h, s, i)
  BY <1>1 DEF Inserted, R
<1>3. \A j \in 1..Len(u) : R(h, t, k + j) = u[j]
  BY <1>1 DEF Inserted, R
<1>4. \A i \in (k + 1)..(Len(s) + 1) : R(h, t, i + Len(u)) = R(h, s, i)
  <2> SUFFICES ASSUME NEW i \in (k + 1)..(Len(s) + 1) PROVE R(h, t, i + Len(u)) = R(h, s, i)
    OBVIOUS
  <2>1. CASE i = Len(s) + 1
    BY <2>1, <1>1 DEF R
  <2>2. CASE i \in (k + 1)..Len(s)
    <3>1. t[i + Len(u)] = s[i]
      BY <2>2 DEF Inserted
    <3>2. QED
      BY <3>1, <2>2, <1>1 DEF R
  <2>3. QED
    BY <2>1, <2>2, <1>1
<1>5. SUFFICES ASSUME NEW a, NEW b, NEW i \in 0..Len(t), a = R(h, t, i), b = R(h, t, i + 1)
      PROVE  \/ a = R(h, s, k) /\ b = u[1]
             \/ a = u[Len(u)] /\ b = R(h, s, k + 1)
             \/ \E j \in 1..(Len(u) - 1) : a = u[j] /\ b = u[j + 1]
             \/ Adj(h, s, a, b) /\ a # R(h, s, k) /\ b # R(h, s, k + 1)
  BY DEF Adj, Spliced
<1>6. CASE i < k
  <2>1. a = R(h, s, i) /\ b = R(h, s, i + 1) /\ i \in 0..Len(s)
    BY <1>6, <1>5, <1>2, <1>1
  <2>2. a # R(h, s, k) /\ b # R(h, s, k + 1)
    BY <2>1, <1>6, <1>1, PlacesApart
  <2>3. QED
    BY <2>1, <2>2 DEF Adj
<1>7. CASE i = k
  <2>1. a = R(h, s, k) /\ b = u[1]
    BY <1>7, <1>5, <1>2, <1>3, <1>1
  <2>2. QED
    BY <2>1
<1>8. CASE k < i /\ i < k + Len(u)
  <2>1. i - k \in 1..(Len(u) - 1) /\ i = k + (i - k) /\ i + 1 = k + (i - k + 1)
    BY <1>8, <1>1
  <2>2. a = u[i - k] /\ b = u[(i - k) + 1]
    BY <2>1, <1>3, <1>5, <1>1
  <2>3. QED
    BY <2>1, <2>2
<1>9. CASE i = k + Len(u)
  <2>1. a = u[Len(u)]
    BY <1>9, <1>5, <1>3, <1>1
  <2>2. i + 1 = (k + 1) + Len(u) /\ k + 1 \in (k + 1)..(Len(s) + 1)
    BY <1>9, <1>1
  <2>3. b = R(h, s, k + 1)
    BY <2>2, <1>4, <1>5
  <2>4. QED
    BY <2>1, <2>3
<1>10. CASE k + Len(u) < i
  <2>1. PICK j \in (k + 1)..Len(s) : i = j + Len(u) /\ i + 1 = (j + 1) + Len(u)
    <3>1. i - Len(u) \in (k + 1)..Len(s) /\ i = (i - Len(u)) + Len(u) /\ i + 1 = ((i - Len(u)) + 1) + Len(u)
      BY <1>10, <1>1
    <3>2. QED
      BY <3>1
  <2>2. a = R(h, s, j) /\ b = R(h, s, j + 1)
    BY <2>1, <1>4, <1>5, <1>1
  <2>3. a # R(h, s, k) /\ b # R(h, s, k + 1)
    BY <2>1, <2>2, <1>1, PlacesApart
  <2>4. QED
    BY <2>1, <2>2, <2>3, <1>1 DEF Adj
<1>11. i < k \/ i = k \/ (k < i /\ i < k + Len(u)) \/ i = k + Len(u) \/ k + Len(u) < i
  BY <1>1
<1>12. QED
  BY <1>6, <1>7, <1>8, <1>9, <1>10, <1>11

LEMMA AdjDropped ==
  ASSUME NEW h \in Heads, NEW s \in Seq(Entries), NEW k \in 1..Len(s), NEW t, Dropped(s, k, t), Distinct(s)
  PROVE  /\ \A a, b : Adj(h, t, a, b) =>
            \/ a = R(h, s, k - 1) /\ b = R(h, s, k + 1)
            \/ Adj(h, s, a, b) /\ a # s[k] /\ b # s[k] /\ a # R(h, s, k - 1) /\ b # R(h, s, k + 1)
         /\ ToSet(t) = ToSet(s) \ {s[k]}
         /\ Distinct(t)
<1>1. Len(s) \in Nat /\ Len(t) = Len(s) - 1 /\ Len(t) \in Nat /\ k \in Nat /\ 1 <= k /\ k <= Len(s)
  BY DEF Dropped
<1>2. \A i \in 0..(k - 1) : R(h, t, i) = R(h, s, i)
  BY <1>1 DEF Dropped, R
<1>3. \A i \in k..(Len(t) + 1) : R(h, t, i) = R(h, s, i + 1)
  BY <1>1 DEF Dropped, R
<1>0. R(h, s, k) = s[k]
  BY <1>1 DEF R
<1>4. ASSUME NEW a, NEW b, NEW i \in 0..Len(t), a = R(h, t, i), b = R(h, t, i + 1)
      PROVE  \/ a = R(h, s, k - 1) /\ b = R(h, s, k + 1)
             \/ Adj(h, s, a, b) /\ a # s[k] /\ b # s[k] /\ a # R(h, s, k - 1) /\ b # R(h, s, k + 1)
  <2>1. CASE i < k - 1
    <3>1. a = R(h, s, i) /\ b = R(h, s, i + 1) /\ i \in 0..Len(s)
      BY <2>1, <1>4, <1>2, <1>1
    <3>2. a # R(h, s, k) /\ b # R(h, s, k) /\ a # R(h, s, k - 1) /\ b # R(h, s, k + 1)
      BY <3>1, <2>1, <1>1, PlacesApart
    <3>3. QED
      BY <3>1, <3>2, <1>0 DEF Adj
  <2>2. CASE i = k - 1
    <3>1. i \in 0..(k - 1) /\ i + 1 = k /\ k \in k..(Len(t) + 1)
      BY <2>2, <1>1
    <3>2. R(h, t, i + 1) = R(h, s, k + 1)
      BY <3>1, <1>3
    <3>3. QED
      BY <2>2, <3>1, <3>2, <1>4, <1>2
  <2>3. CASE i > k - 1
    <3>1. a = R(h, s, i + 1) /\ b = R(h, s, (i + 1) + 1) /\ i + 1 \in 0..Len(s)
      BY <2>3, <1>4, <1>3, <1>1
    <3>2. a # R(h, s, k) /\ b # R(h, s, k) /\ a # R(h, s, k - 1) /\ b # R(h, s, k + 1)
      BY <3>1, <2>3, <1>1, PlacesApart
    <3>3. QED
      BY <3>1, <3>2, <1>0 DEF Adj
  <2>4. QED
    BY <2>1, <2>2, <2>3, <1>1
<1>5. ToSet(t) = ToSet(s) \ {s[k]}
  <2>1. t \in Seq(Entries)
    BY DEF Dropped
  <2>2. ASSUME NEW x \in ToSet(t) PROVE x \in ToSet(s) \ {s[k]}
    <3>1. PICK i \in 1..Len(t) : t[i] = x
      BY <2>1, Members
    <3>2. PICK j \in 1..Len(s) : s[j] = x /\ j # k
      <4>1. CASE i \in 1..(k - 1)
        <5>1. t[i] = s[i] /\ i \in 1..Len(s) /\ i # k
          BY <4>1, <1>1 DEF Dropped
        <5>2. QED
          BY <5>1, <3>1
      <4>2. CASE i \in k..Len(t)
        <5>1. t[i] = s[i + 1] /\ i + 1 \in 1..Len(s) /\ i + 1 # k
          BY <4>2, <1>1 DEF Dropped
        <5>2. QED
          BY <5>1, <3>1
      <4>3. QED
        BY <4>1, <4>2, <1>1
    <3>3. QED
      BY <3>2, Members DEF Distinct
  <2>3. ASSUME NEW x \in ToSet(s) \ {s[k]} PROVE x \in ToSet(t)
    <3>1. PICK i \in 1..Len(s) : s[i] = x /\ i # k
      BY <2>3, Members
    <3>2. PICK j \in 1..Len(t) : t[j] = x
      <4>1. CASE i < k
        BY <4>1, <3>1, <1>1 DEF Dropped
      <4>2. CASE i > k
        <5>1. i - 1 \in k..Len(t) /\ i - 1 \in 1..Len(t) /\ (i - 1) + 1 = i
          BY <4>2, <1>1
        <5>2. t[i - 1] = s[i]
          BY <5>1 DEF Dropped
        <5>3. QED
          BY <5>1, <5>2, <3>1
      <4>3. QED
        BY <4>1, <4>2, <3>1, <1>1
    <3>3. QED
      BY <3>2, <2>1, Members
  <2>4. QED
    BY <2>2, <2>3
<1>6. Distinct(t)
  <2>1. \A i \in 1..Len(t) : t[i] = s[IF i < k THEN i ELSE i + 1]
    BY <1>1 DEF Dropped
  <2>2. SUFFICES ASSUME NEW i \in 1..Len(t), NEW j \in 1..Len(t), t[i] = t[j] PROVE i = j
    BY DEF Distinct
  <2>3. PICK a : a = IF i < k THEN i ELSE i + 1
    OBVIOUS
  <2>4. PICK b : b = IF j < k THEN j ELSE j + 1
    OBVIOUS
  <2>5. a \in 1..Len(s) /\ b \in 1..Len(s) /\ (a = b => i = j)
    BY <1>1, <2>3, <2>4
  <2>6. s[a] = s[b]
    BY <2>1, <2>2, <2>3, <2>4
  <2>7. a = b
    BY <2>5, <2>6 DEF Distinct
  <2>8. QED
    BY <2>5, <2>7
<1>7. QED
  BY <1>4, <1>5, <1>6 DEF Adj

LEMMA InsertedSet ==
  ASSUME NEW s \in Seq(Entries), NEW u \in Seq(Entries), NEW k \in 0..Len(s), NEW t,
         Inserted(s, k, u, t)
  PROVE  /\ ToSet(t) = ToSet(s) \cup ToSet(u)
         /\ Distinct(s) /\ Distinct(u) /\ ToSet(s) \cap ToSet(u) = {} => Distinct(t)
<1>1. Len(s) \in Nat /\ Len(u) \in Nat /\ Len(t) = Len(s) + Len(u) /\ t \in Seq(Entries)
  BY DEF Inserted
<1>2. \A i \in 1..Len(t) :
        \/ i <= k /\ i \in 1..Len(s) /\ t[i] = s[i]
        \/ k < i /\ i <= k + Len(u) /\ i - k \in 1..Len(u) /\ t[i] = u[i - k]
        \/ k + Len(u) < i /\ i - Len(u) \in 1..Len(s) /\ t[i] = s[i - Len(u)]
  <2> SUFFICES ASSUME NEW i \in 1..Len(t)
      PROVE  \/ i <= k /\ i \in 1..Len(s) /\ t[i] = s[i]
             \/ k < i /\ i <= k + Len(u) /\ i - k \in 1..Len(u) /\ t[i] = u[i - k]
             \/ k + Len(u) < i /\ i - Len(u) \in 1..Len(s) /\ t[i] = s[i - Len(u)]
    OBVIOUS
  <2>1. CASE i <= k
    BY <2>1, <1>1 DEF Inserted
  <2>2. CASE k < i /\ i <= k + Len(u)
    <3>1. i - k \in 1..Len(u) /\ k + (i - k) = i
      BY <2>2, <1>1
    <3>2. QED
      BY <2>2, <3>1 DEF Inserted
  <2>3. CASE k + Len(u) < i
    <3>1. i - Len(u) \in (k + 1)..Len(s) /\ i - Len(u) \in 1..Len(s) /\ (i - Len(u)) + Len(u) = i
      BY <2>3, <1>1
    <3>2. QED
      BY <2>3, <3>1 DEF Inserted
  <2>4. QED
    BY <2>1, <2>2, <2>3, <1>1
<1>3. ToSet(t) \subseteq ToSet(s) \cup ToSet(u)
  <2>1. SUFFICES ASSUME NEW i \in 1..Len(t) PROVE t[i] \in ToSet(s) \cup ToSet(u)
    BY <1>1, Members
  <2>2. QED
    BY <1>2, Members
<1>4. ASSUME NEW i \in 1..Len(u) PROVE u[i] \in ToSet(t)
  <2>0. t[k + i] = u[i]
    BY DEF Inserted
  <2>1. k + i \in 1..Len(t) /\ t[k + i] = u[i]
    BY <1>1, <2>0
  <2>2. QED
    BY <2>1, <1>1, Members
<1>5. ASSUME NEW i \in 1..Len(s) PROVE s[i] \in ToSet(t)
  <2>1. CASE i <= k
    <3>1. i \in 1..Len(t) /\ t[i] = s[i]
      BY <2>1, <1>1 DEF Inserted
    <3>2. QED
      BY <3>1, <1>1, Members
  <2>2. CASE i > k
    <3>1. i + Len(u) \in 1..Len(t) /\ t[i + Len(u)] = s[i]
      BY <2>2, <1>1, SMTT(60) DEF Inserted
    <3>2. QED
      BY <3>1, <1>1, Members
  <2>3. QED
    BY <2>1, <2>2, <1>1
<1>6. ToSet(t) = ToSet(s) \cup ToSet(u)
  <2>1. ToSet(s) \subseteq ToSet(t)
    BY <1>5, Members
  <2>2. ToSet(u) \subseteq ToSet(t)
    BY <1>4, Members
  <2>3. QED
    BY <2>1, <2>2, <1>3
<1>7. ASSUME Distinct(s), Distinct(u), ToSet(s) \cap ToSet(u) = {} PROVE Distinct(t)
  <2>1. \A i \in 1..Len(s), j \in 1..Len(u) : s[i] # u[j]
    BY <1>7, Members
  <2>2. SUFFICES ASSUME NEW i \in 1..Len(t), NEW j \in 1..Len(t), t[i] = t[j] PROVE i = j
    BY DEF Distinct
  <2>3. \A x, y \in 1..Len(s) : s[x] = s[y] => x = y
    BY <1>7 DEF Distinct
  <2>4. \A x, y \in 1..Len(u) : u[x] = u[y] => x = y
    BY <1>7 DEF Distinct
  <2> DEFINE Low(x) == x <= k /\ x \in 1..Len(s) /\ t[x] = s[x]
             Mid(x) == k < x /\ x <= k + Len(u) /\ x - k \in 1..Len(u) /\ t[x] = u[x - k]
             High(x) == k + Len(u) < x /\ x - Len(u) \in 1..Len(s) /\ t[x] = s[x - Len(u)]
  <2>5. (Low(i) \/ Mid(i) \/ High(i)) /\ (Low(j) \/ Mid(j) \/ High(j))
    BY <1>2
  <2>6. /\ ~(Low(i) /\ Mid(j)) /\ ~(Low(j) /\ Mid(i))
        /\ ~(High(i) /\ Mid(j)) /\ ~(High(j) /\ Mid(i))
    BY <2>1, <2>2
  <2>7. /\ Low(i) /\ Low(j) => i = j
        /\ Mid(i) /\ Mid(j) => i - k = j - k
        /\ High(i) /\ High(j) => i - Len(u) = j - Len(u)
        /\ Low(i) /\ High(j) => i = j - Len(u)
        /\ High(i) /\ Low(j) => i - Len(u) = j
    BY <2>2, <2>3, <2>4
  <2>71. /\ i \in Nat /\ j \in Nat /\ k \in Nat
         /\ Low(i) => i <= k
         /\ Low(j) => j <= k
         /\ High(i) => k + Len(u) < i
         /\ High(j) => k + Len(u) < j
    BY <1>1
  <2> HIDE DEF Low, Mid, High
  <2>8. QED
    BY <2>5, <2>6, <2>7, <2>71, <1>1
<1>8. QED
  BY <1>6, <1>7

LEMMA Concat ==
  ASSUME NEW a \in Seq(Entries), NEW b \in Seq(Entries)
  PROVE  /\ a \o b \in Seq(Entries) /\ Len(a \o b) = Len(a) + Len(b)
         /\ \A i \in 1..Len(a) : (a \o b)[i] = a[i]
         /\ \A i \in 1..Len(b) : (a \o b)[Len(a) + i] = b[i]
<1>1. a \o b \in Seq(Entries) /\ Len(a \o b) = Len(a) + Len(b) /\ Len(a) \in Nat /\ Len(b) \in Nat
  OBVIOUS
<1>2. ASSUME NEW i \in 1..Len(a) PROVE (a \o b)[i] = a[i]
  OBVIOUS
<1>3. ASSUME NEW i \in 1..Len(b) PROVE (a \o b)[Len(a) + i] = b[i]
  OBVIOUS
<1>4. QED
  BY <1>1, <1>2, <1>3

\* The sequence operators of the model in these terms
LEMMA Insertions ==
  ASSUME NEW s \in Seq(Entries), NEW e \in Entries
  PROVE  /\ \A k \in 0..Len(s) : Inserted(s, k, <<e>>, InsertAt(s, k + 1, e))
         /\ Inserted(s, Len(s), <<e>>, Append(s, e))
         /\ Inserted(s, 0, <<e>>, <<e>> \o s)
<1>1. ASSUME NEW k \in 0..Len(s) PROVE Inserted(s, k, <<e>>, InsertAt(s, k + 1, e))
  <2> DEFINE a == SubSeq(s, 1, k)
             b == SubSeq(s, k + 1, Len(s))
  <2>1. Len(s) \in Nat /\ (k + 1) - 1 = k
    OBVIOUS
  <2>2. a \in Seq(Entries) /\ Len(a) = k /\ \A i \in 1..k : a[i] = s[i]
    BY <2>1
  <2>3. b \in Seq(Entries) /\ Len(b) = Len(s) - k /\ \A i \in 1..(Len(s) - k) : b[i] = s[k + i]
    BY <2>1
  <2>4. InsertAt(s, k + 1, e) = (a \o <<e>>) \o b
    BY <2>1 DEF InsertAt
  <2> HIDE DEF a, b
  <2> DEFINE c == a \o <<e>>
  <2>5. c \in Seq(Entries) /\ Len(c) = k + 1 /\ c[k + 1] = e /\ \A i \in 1..k : c[i] = s[i]
    BY <2>1, <2>2
  <2> HIDE DEF c
  <2> DEFINE t == c \o b
  <2>60. t \in Seq(Entries) /\ Len(t) = Len(c) + Len(b)
    BY <2>3, <2>5, Concat
  <2>6. t \in Seq(Entries) /\ Len(t) = Len(s) + 1
    BY <2>60, <2>1, <2>3, <2>5
  <2>7. ASSUME NEW i \in 1..(k + 1) PROVE t[i] = c[i]
    <3>1. i \in 1..(Len(c) + Len(b)) /\ i <= Len(c)
      BY <2>1, <2>3, <2>5
    <3>2. QED
      BY <3>1, <2>3, <2>5
  <2>8. ASSUME NEW i \in (k + 1)..Len(s) PROVE t[i + 1] = s[i]
    <3>1. i + 1 \in 1..(Len(c) + Len(b)) /\ i + 1 > Len(c) /\ (i + 1) - Len(c) = i - k
      BY <2>1, <2>3, <2>5
    <3>2. t[i + 1] = b[i - k]
      BY <3>1, <2>3, <2>5
    <3>3. i - k \in 1..(Len(s) - k) /\ k + (i - k) = i
      BY <2>1
    <3>4. QED
      BY <3>2, <3>3, <2>3
  <2> HIDE DEF t
  <2>9. \A i \in 1..k : t[i] = s[i]
    BY <2>7, <2>5, <2>1
  <2>10. t[k + 1] = e
    BY <2>7, <2>5, <2>1
  <2>11. Inserted(s, k, <<e>>, t)
    BY <2>6, <2>8, <2>9, <2>10, <2>1 DEF Inserted
  <2>12. QED
    BY <2>11, <2>4 DEF t, c
<1>2. Inserted(s, Len(s), <<e>>, Append(s, e))
  BY DEF Inserted
<1>3. Inserted(s, 0, <<e>>, <<e>> \o s)
  BY DEF Inserted
<1>4. QED
  BY <1>1, <1>2, <1>3

LEMMA InsertedOne ==
  ASSUME NEW h \in Heads, NEW s \in Seq(Entries), Distinct(s), NEW k \in 0..Len(s),
         NEW e \in Entries, e \notin ToSet(s), NEW t, Inserted(s, k, <<e>>, t)
  PROVE  /\ t \in Seq(Entries) /\ Distinct(t) /\ ToSet(t) = ToSet(s) \cup {e}
         /\ \A a, b : Adj(h, t, a, b) =>
               \/ a = R(h, s, k) /\ b = e
               \/ a = e /\ b = R(h, s, k + 1)
               \/ Adj(h, s, a, b) /\ a # R(h, s, k) /\ b # R(h, s, k + 1)
<1>1. PICK u : u = <<e>>
  OBVIOUS
<1>20. u \in Seq(Entries) /\ Len(u) = 1 /\ Len(u) # 0 /\ u[1] = e
  BY <1>1
<1>2. u \in Seq(Entries) /\ Len(u) = 1 /\ Len(u) # 0 /\ u[1] = e /\ ToSet(u) = {e} /\ Distinct(u)
  BY <1>20 DEF ToSet, Distinct
<1>3. Inserted(s, k, u, t)
  BY <1>1
<1>4. t \in Seq(Entries)
  BY DEF Inserted
<1>5. ToSet(s) \cap ToSet(u) = {}
  BY <1>2
<1>6. Distinct(t) /\ ToSet(t) = ToSet(s) \cup {e}
  BY <1>2, <1>3, <1>5, InsertedSet
<1>7. \A a, b : Adj(h, t, a, b) => Spliced(h, s, k, u, a, b)
  BY <1>2, <1>3, AdjInserted
<1>8. \A a, b : Spliced(h, s, k, u, a, b) =>
               \/ a = R(h, s, k) /\ b = e
               \/ a = e /\ b = R(h, s, k + 1)
               \/ Adj(h, s, a, b) /\ a # R(h, s, k) /\ b # R(h, s, k + 1)
  BY <1>2 DEF Spliced
<1>9. QED
  BY <1>4, <1>6, <1>7, <1>8

LEMMA Joins ==
  ASSUME NEW s \in Seq(Entries), NEW u \in Seq(Entries)
  PROVE  Inserted(s, Len(s), u, s \o u) /\ Inserted(s, 0, u, u \o s)
<1>1. Len(s) \in Nat /\ Len(u) \in Nat
  OBVIOUS
<1>2. Inserted(s, Len(s), u, s \o u)
  BY <1>1 DEF Inserted
<1>3. Inserted(s, 0, u, u \o s)
  BY <1>1 DEF Inserted
<1>4. QED
  BY <1>2, <1>3

LEMMA Removals ==
  ASSUME NEW s \in Seq(Entries), NEW k \in 1..Len(s)
  PROVE  Dropped(s, k, RemoveAt(s, k)) /\ Dropped(s, 1, Tail(s))
<1> DEFINE a == SubSeq(s, 1, k - 1)
           b == SubSeq(s, k + 1, Len(s))
<1>1. Len(s) \in Nat /\ k \in Nat /\ 1 <= k /\ k <= Len(s)
  OBVIOUS
<1>2. a \in Seq(Entries) /\ Len(a) = k - 1 /\ \A i \in 1..(k - 1) : a[i] = s[i]
  BY <1>1
<1>3. b \in Seq(Entries) /\ Len(b) = Len(s) - k /\ \A i \in 1..(Len(s) - k) : b[i] = s[k + i]
  BY <1>1
<1>4. RemoveAt(s, k) = a \o b
  BY DEF RemoveAt
<1> HIDE DEF a, b
<1> DEFINE t == a \o b
<1>00. t \in Seq(Entries) /\ Len(t) = Len(a) + Len(b)
  BY <1>2, <1>3, Concat
<1>0. t \in Seq(Entries) /\ Len(t) = Len(s) - 1
  BY <1>00, <1>1, <1>2, <1>3
<1>50. ASSUME NEW i \in 1..(k - 1) PROVE t[i] = s[i]
  <2>1. i \in 1..(Len(a) + Len(b)) /\ i <= Len(a)
    BY <1>1, <1>2, <1>3
  <2>2. QED
    BY <2>1, <1>2, <1>3
<1>5. t \in Seq(Entries) /\ Len(t) = Len(s) - 1 /\ \A i \in 1..(k - 1) : t[i] = s[i]
  BY <1>0, <1>50
<1>6. ASSUME NEW i \in k..Len(t) PROVE t[i] = s[i + 1]
  <2>1. i \in 1..(Len(a) + Len(b)) /\ i > Len(a) /\ i - Len(a) = i - k + 1
    BY <1>1, <1>2, <1>3, <1>5
  <2>2. t[i] = b[i - k + 1]
    BY <2>1, <1>2, <1>3
  <2>3. i - k + 1 \in 1..(Len(s) - k) /\ k + (i - k + 1) = i + 1
    BY <1>1, <1>5
  <2>4. QED
    BY <2>2, <2>3, <1>3
<1> HIDE DEF t
<1>7. Dropped(s, k, t)
  BY <1>5, <1>6 DEF Dropped
<1>8. Dropped(s, 1, Tail(s))
  BY <1>1 DEF Dropped
<1>9. QED
  BY <1>7, <1>8, <1>4 DEF t

LEMMA AdjReplaced ==
  ASSUME NEW h \in Heads, NEW s \in Seq(Entries), Distinct(s), NEW k \in 1..Len(s),
         NEW new \in Entries, new \notin ToSet(s)
  PROVE  LET t == ReplaceAll(s, s[k], new) IN
         /\ t \in Seq(Entries) /\ Distinct(t)
         /\ ToSet(t) = (ToSet(s) \ {s[k]}) \cup {new}
         /\ \A a, b : Adj(h, t, a, b) =>
              \/ a = R(h, s, k - 1) /\ b = new
              \/ a = new /\ b = R(h, s, k + 1)
              \/ Adj(h, s, a, b) /\ a # s[k] /\ b # s[k] /\ a # R(h, s, k - 1) /\ b # R(h, s, k + 1)
<1> DEFINE t == ReplaceAll(s, s[k], new)
<1>1. Len(s) \in Nat /\ \A i \in 1..Len(s) : s[i] \in Entries /\ s[i] # new
  BY Members
<1>2. t \in Seq(Entries) /\ Len(t) = Len(s)
  BY <1>1 DEF ReplaceAll
<1>3. \A i \in 1..Len(s) : t[i] = IF i = k THEN new ELSE s[i]
  BY <1>1 DEF ReplaceAll, Distinct
<1> HIDE DEF t
<1>4. Distinct(t)
  BY <1>1, <1>2, <1>3 DEF Distinct
<1>5. ToSet(t) = (ToSet(s) \ {s[k]}) \cup {new}
  <2>1. ASSUME NEW x \in ToSet(t) PROVE x \in (ToSet(s) \ {s[k]}) \cup {new}
    <3>1. PICK i \in 1..Len(s) : x = t[i]
      BY <1>2, Members
    <3>2. QED
      BY <3>1, <1>3, Members DEF Distinct
  <2>2. ASSUME NEW x \in ToSet(s) \ {s[k]} PROVE x \in ToSet(t)
    <3>1. PICK i \in 1..Len(s) : x = s[i] /\ i # k
      BY Members
    <3>2. QED
      BY <3>1, <1>2, <1>3, Members
  <2>3. new \in ToSet(t)
    BY <1>2, <1>3, Members
  <2>4. QED
    BY <2>1, <2>2, <2>3
<1>6. \A i \in 0..(Len(s) + 1) : R(h, t, i) = IF i = k THEN new ELSE R(h, s, i)
  BY <1>1, <1>2, <1>3 DEF R
<1>7. ASSUME NEW a, NEW b, NEW i \in 0..Len(s), a = R(h, t, i), b = R(h, t, i + 1)
      PROVE  \/ a = R(h, s, k - 1) /\ b = new
             \/ a = new /\ b = R(h, s, k + 1)
             \/ Adj(h, s, a, b) /\ a # s[k] /\ b # s[k] /\ a # R(h, s, k - 1) /\ b # R(h, s, k + 1)
  <2>1. i \in 0..(Len(s) + 1) /\ i + 1 \in 0..(Len(s) + 1) /\ i \in Nat
    BY <1>1
  <2>2. CASE i = k
    BY <2>1, <2>2, <1>6, <1>7
  <2>3. CASE i + 1 = k
    BY <2>1, <2>3, <1>6, <1>7
  <2>4. CASE i # k /\ i + 1 # k
    <3>1. a = R(h, s, i) /\ b = R(h, s, i + 1)
      BY <2>1, <2>4, <1>6, <1>7
    <3>2. R(h, s, k) = s[k]
      BY DEF R
    <3>3. a # R(h, s, k) /\ b # R(h, s, k) /\ a # R(h, s, k - 1) /\ b # R(h, s, k + 1)
      BY <3>1, <2>1, <2>4, <1>1, PlacesApart
    <3>4. QED
      BY <3>1, <3>2, <3>3 DEF Adj
  <2>5. QED
    BY <2>2, <2>3, <2>4
<1>8. QED
  BY <1>2, <1>4, <1>5, <1>7 DEF t, Adj

\* The same entries under another head
LEMMA AdjRehung ==
  ASSUME NEW h \in Heads, NEW g \in Heads, NEW s \in Seq(Entries), Distinct(s), Len(s) # 0
  PROVE  \A a, b : Adj(g, s, a, b) =>
              \/ a = g /\ b = R(h, s, 1)
              \/ a = R(h, s, Len(s)) /\ b = g
              \/ Adj(h, s, a, b) /\ a # h /\ b # h /\ a # R(h, s, Len(s)) /\ b # R(h, s, 1)
<1>1. Len(s) \in Nat \ {0} /\ \A i \in 1..Len(s) : s[i] # h
  BY HeadsApart
<1>2. ASSUME NEW a, NEW b, NEW i \in 0..Len(s), a = R(g, s, i), b = R(g, s, i + 1)
      PROVE  \/ a = g /\ b = R(h, s, 1)
             \/ a = R(h, s, Len(s)) /\ b = g
             \/ Adj(h, s, a, b) /\ a # h /\ b # h /\ a # R(h, s, Len(s)) /\ b # R(h, s, 1)
  <2>1. CASE i = 0
    BY <2>1, <1>1, <1>2 DEF R
  <2>2. CASE i = Len(s)
    BY <2>2, <1>1, <1>2 DEF R
  <2>3. CASE i \in 1..(Len(s) - 1)
    <3>1. a = R(h, s, i) /\ b = R(h, s, i + 1) /\ a # h /\ b # h
      BY <2>3, <1>1, <1>2 DEF R
    <3>2. a # R(h, s, Len(s)) /\ b # R(h, s, 1)
      BY <3>1, <2>3, <1>1, PlacesApart
    <3>3. QED
      BY <3>1, <3>2 DEF Adj
  <2>4. QED
    BY <2>1, <2>2, <2>3, <1>1
<1>3. QED
  BY <1>2 DEF Adj

LEMMA AdjCut ==
  ASSUME NEW h \in Heads, NEW l \in Heads, NEW s \in Seq(Entries), Distinct(s), NEW k \in 1..Len(s)
  PROVE  LET t == SubSeq(s, 1, k)
             u == SubSeq(s, k + 1, Len(s))
         IN  /\ t \in Seq(Entries) /\ Distinct(t)
             /\ u \in Seq(Entries) /\ Distinct(u)
             /\ ToSet(t) \cup ToSet(u) = ToSet(s) /\ ToSet(t) \cap ToSet(u) = {}
             /\ \A a, b : Adj(l, t, a, b) =>
                  \/ a = l /\ b = s[1]
                  \/ a = s[k] /\ b = l
                  \/ Adj(h, s, a, b) /\ a # h /\ b # h /\ a # s[k] /\ b # s[1] /\ b # R(h, s, k + 1)
             /\ \A a, b : Adj(h, u, a, b) =>
                  \/ a = h /\ b = R(h, s, k + 1)
                  \/ Adj(h, s, a, b) /\ a # h /\ a # s[k] /\ b # R(h, s, k + 1) /\ b # s[1]
<1> DEFINE t == SubSeq(s, 1, k)
           u == SubSeq(s, k + 1, Len(s))
<1>1. Len(s) \in Nat /\ k \in Nat /\ 1 <= k /\ k <= Len(s) /\ \A i \in 1..Len(s) : s[i] # h
  BY HeadsApart
<1>2. t \in Seq(Entries) /\ Len(t) = k /\ \A i \in 1..k : t[i] = s[i]
  BY <1>1
<1>3. u \in Seq(Entries) /\ Len(u) = Len(s) - k /\ \A i \in 1..(Len(s) - k) : u[i] = s[k + i]
  BY <1>1
<1> HIDE DEF t, u
<1>4. \A i, j \in 1..Len(s) : s[i] = s[j] => i = j
  BY DEF Distinct
<1>51. Distinct(t)
  BY <1>1, <1>2, <1>4 DEF Distinct
<1>52. Distinct(u)
  <2>1. \A i \in 1..Len(u) : k + i \in 1..Len(s) /\ u[i] = s[k + i]
    BY <1>1, <1>3
  <2>2. \A i, j \in 1..Len(u) : u[i] = u[j] => k + i = k + j
    BY <2>1, <1>4
  <2>3. QED
    BY <2>2, <1>1, <1>3 DEF Distinct
<1>5. Distinct(t) /\ Distinct(u)
  BY <1>51, <1>52
<1>6. ToSet(t) \cup ToSet(u) = ToSet(s) /\ ToSet(t) \cap ToSet(u) = {}
  <2>1. ToSet(t) = {s[i] : i \in 1..k}
    BY <1>2, Members
  <2>2. ToSet(u) = {s[i] : i \in (k + 1)..Len(s)}
    <3>1. ASSUME NEW x \in ToSet(u) PROVE x \in {s[i] : i \in (k + 1)..Len(s)}
      <4>1. PICK i \in 1..Len(u) : u[i] = x
        BY <1>3, Members
      <4>2. k + i \in (k + 1)..Len(s) /\ u[i] = s[k + i]
        BY <1>1, <1>3
      <4>3. QED
        BY <4>1, <4>2
    <3>2. ASSUME NEW i \in (k + 1)..Len(s) PROVE s[i] \in ToSet(u)
      <4>1. i - k \in 1..(Len(s) - k) /\ k + (i - k) = i /\ i - k \in 1..Len(u)
        BY <1>1, <1>3
      <4>2. u[i - k] = s[i]
        BY <4>1, <1>3
      <4>3. QED
        BY <4>1, <4>2, <1>3, Members
    <3>3. QED
      BY <3>1, <3>2
  <2>3. ToSet(s) = {s[i] : i \in 1..Len(s)}
    BY Members
  <2>4. \A i \in 1..Len(s) : i \in 1..k \/ i \in (k + 1)..Len(s)
    BY <1>1
  <2>5. \A i \in 1..k, j \in (k + 1)..Len(s) : s[i] # s[j]
    BY <1>1, <1>4
  <2>6. (1..k) \subseteq 1..Len(s) /\ (k + 1)..Len(s) \subseteq 1..Len(s)
    BY <1>1
  <2>7. QED
    BY <2>1, <2>2, <2>3, <2>4, <2>5, <2>6
<1>7. R(h, s, 1) = s[1] /\ R(h, s, k) = s[k] /\ R(h, s, 0) = h
  BY <1>1 DEF R
<1>8. ASSUME NEW a, NEW b, NEW i \in 0..k, a = R(l, t, i), b = R(l, t, i + 1)
      PROVE  \/ a = l /\ b = s[1]
             \/ a = s[k] /\ b = l
             \/ Adj(h, s, a, b) /\ a # h /\ b # h /\ a # s[k] /\ b # s[1] /\ b # R(h, s, k + 1)
  <2>1. CASE i = 0
    BY <2>1, <1>1, <1>2, <1>8 DEF R
  <2>2. CASE i = k
    BY <2>2, <1>1, <1>2, <1>8 DEF R
  <2>3. CASE i \in 1..(k - 1)
    <3>1. a = R(h, s, i) /\ b = R(h, s, i + 1) /\ a # h /\ b # h /\ i \in 0..Len(s)
      BY <2>3, <1>1, <1>2, <1>8 DEF R
    <3>2. a # R(h, s, k) /\ b # R(h, s, 1) /\ b # R(h, s, k + 1)
      BY <3>1, <2>3, <1>1, PlacesApart
    <3>3. QED
      BY <3>1, <3>2, <1>7 DEF Adj
  <2>4. QED
    BY <2>1, <2>2, <2>3, <1>1
<1>9. ASSUME NEW a, NEW b, NEW i \in 0..Len(u), a = R(h, u, i), b = R(h, u, i + 1)
      PROVE  \/ a = h /\ b = R(h, s, k + 1)
             \/ Adj(h, s, a, b) /\ a # h /\ a # s[k] /\ b # R(h, s, k + 1) /\ b # s[1]
  <2>0. \A j \in 1..(Len(u) + 1) : R(h, u, j) = R(h, s, k + j)
    <3> SUFFICES ASSUME NEW j \in 1..(Len(u) + 1) PROVE R(h, u, j) = R(h, s, k + j)
      OBVIOUS
    <3>1. CASE j \in 1..Len(u)
      <4>1. k + j \in 1..Len(s) /\ u[j] = s[k + j]
        BY <3>1, <1>1, <1>3
      <4>2. QED
        BY <3>1, <4>1 DEF R
    <3>2. CASE j = Len(u) + 1
      <4>1. k + j = Len(s) + 1 /\ k + j \notin 1..Len(s) /\ j \notin 1..Len(u)
        BY <3>2, <1>1, <1>3
      <4>2. QED
        BY <4>1 DEF R
    <3>3. Len(u) \in Nat
      BY <1>3
    <3>4. j \in 1..Len(u) \/ j = Len(u) + 1
      BY <3>3
    <3>5. QED
      BY <3>1, <3>2, <3>4
  <2>1. CASE i = 0
    <3>1. 1 \in 1..(Len(u) + 1) /\ i + 1 = 1
      BY <2>1, <1>1, <1>3
    <3>2. b = R(h, s, k + 1)
      BY <3>1, <2>0, <1>9
    <3>3. a = h
      BY <2>1, <1>9 DEF R
    <3>4. QED
      BY <3>2, <3>3
  <2>2. CASE i # 0
    <3>1. i \in 1..(Len(u) + 1) /\ i + 1 \in 1..(Len(u) + 1) /\ k + i \in 1..Len(s) /\ k + (i + 1) = (k + i) + 1
      BY <2>2, <1>1, <1>3
    <3>2. a = R(h, s, k + i) /\ b = R(h, s, (k + i) + 1)
      BY <3>1, <2>0, <1>9
    <3>30. /\ k + i \in 0..Len(s) /\ 0 \in 0..Len(s) /\ k \in 0..Len(s) /\ k + i # 0 /\ k + i # k
           /\ (k + i) + 1 \in 1..(Len(s) + 1) /\ k + 1 \in 1..(Len(s) + 1) /\ 1 \in 1..(Len(s) + 1)
           /\ (k + i) + 1 # k + 1 /\ (k + i) + 1 # 1
      <4>1. i \in Nat /\ 1 <= i /\ k + i <= Len(s)
        BY <3>1, <2>2, <1>1
      <4>2. QED
        BY <4>1, <1>1
    <3>3. a # R(h, s, 0) /\ a # R(h, s, k) /\ b # R(h, s, k + 1) /\ b # R(h, s, 1)
      BY <3>2, <3>30, PlacesApart
    <3>4. QED
      BY <3>1, <3>2, <3>3, <1>7, <1>1 DEF Adj
  <2>3. QED
    BY <2>1, <2>2
<1>10. QED
  BY <1>2, <1>3, <1>5, <1>6, <1>8, <1>9, ZenonT(60) DEF t, u, Adj
-----------------------------------------------------------------------------
(* What the stores of the primitives leave in memory                       *)

LEMMA InitStores ==
  ASSUME NEW m \in Mem, NEW n \in Nodes
  PROVE  LET r == INIT_LIST_HEAD(m, n) IN
         /\ r \in Mem
         /\ \A x \in Nodes : /\ NextOf(r, x) = IF x = n THEN n ELSE NextOf(m, x)
                             /\ PrevOf(r, x) = IF x = n THEN n ELSE PrevOf(m, x)
BY DEF Mem, NextOf, PrevOf, Next_, Prev_, INIT_LIST_HEAD

LEMMA AddStores ==
  ASSUME NEW m \in Mem, NEW new \in Nodes, NEW p \in Nodes, NEW n \in Nodes, new # p, new # n
  PROVE  LET r == __list_add(m, new, p, n) IN
         /\ r \in Mem
         /\ \A x \in Nodes :
              /\ NextOf(r, x) = IF x = p THEN new ELSE IF x = new THEN n ELSE NextOf(m, x)
              /\ PrevOf(r, x) = IF x = n THEN new ELSE IF x = new THEN p ELSE PrevOf(m, x)
BY DEF Mem, NextOf, PrevOf, Next_, Prev_, __list_add

LEMMA DelStores ==
  ASSUME NEW m \in Mem, NEW p \in Nodes, NEW n \in Nodes
  PROVE  LET r == __list_del(m, p, n) IN
         /\ r \in Mem
         /\ \A x \in Nodes : /\ NextOf(r, x) = IF x = p THEN n ELSE NextOf(m, x)
                             /\ PrevOf(r, x) = IF x = n THEN p ELSE PrevOf(m, x)
BY DEF Mem, NextOf, PrevOf, Next_, Prev_, __list_del

\* Of a node with neighbours, and of a head without
LEMMA ReplaceStores ==
  ASSUME NEW m \in Mem, NEW old \in Nodes, NEW new \in Nodes, new # old,
         NextOf(m, old) \in Nodes \ {new}, PrevOf(m, old) \in Nodes \ {new}, NextOf(m, old) # old <=> PrevOf(m, old) # old
  PROVE  LET r == list_replace(m, old, new) IN
         /\ r \in Mem
         /\ NextOf(m, old) # old => \A x \in Nodes :
              /\ NextOf(r, x) = IF x = PrevOf(m, old) THEN new ELSE IF x = new THEN NextOf(m, old) ELSE NextOf(m, x)
              /\ PrevOf(r, x) = IF x = NextOf(m, old) THEN new ELSE IF x = new THEN PrevOf(m, old) ELSE PrevOf(m, x)
         /\ NextOf(m, old) = old => \A x \in Nodes :
              /\ NextOf(r, x) = IF x = new THEN new ELSE NextOf(m, x)
              /\ PrevOf(r, x) = IF x = new \/ x = old THEN new ELSE PrevOf(m, x)
BY DEF Mem, NextOf, PrevOf, Next_, Prev_, list_replace

LEMMA CutStores ==
  ASSUME NEW m \in Mem, NEW l \in Nodes, NEW h \in Nodes, NEW e \in Nodes, l # h, l # e, h # e,
         NextOf(m, h) \in Nodes \ {l, h}, NextOf(m, e) \in Nodes \ {l, NextOf(m, h)}
  PROVE  LET r == __list_cut_position(m, l, h, e) IN
         /\ r \in Mem
         /\ \A x \in Nodes :
              /\ NextOf(r, x) = IF x = h THEN NextOf(m, e) ELSE IF x = e THEN l
                             ELSE IF x = l THEN NextOf(m, h) ELSE NextOf(m, x)
              /\ PrevOf(r, x) = IF x = NextOf(m, e) THEN h ELSE IF x = l THEN e
                             ELSE IF x = NextOf(m, h) THEN l ELSE PrevOf(m, x)
BY DEF Mem, NextOf, PrevOf, Next_, Prev_, __list_cut_position

LEMMA SpliceStores ==
  ASSUME NEW m \in Mem, NEW l \in Nodes, NEW p \in Nodes, NEW n \in Nodes,
         NextOf(m, l) \in Nodes, PrevOf(m, l) \in Nodes, NextOf(m, l) # n, PrevOf(m, l) # p
  PROVE  LET r == __list_splice(m, l, p, n) IN
         /\ r \in Mem
         /\ \A x \in Nodes :
              /\ NextOf(r, x) = IF x = p THEN NextOf(m, l) ELSE IF x = PrevOf(m, l) THEN n ELSE NextOf(m, x)
              /\ PrevOf(r, x) = IF x = n THEN PrevOf(m, l) ELSE IF x = NextOf(m, l) THEN p ELSE PrevOf(m, x)
BY DEF Mem, NextOf, PrevOf, Next_, Prev_, __list_splice
-----------------------------------------------------------------------------
(* All the lists l in memory m: rings without a common entry               *)

Lists == [Heads -> Seq(Entries) \cup {Stale}]

RingInv(m, l) ==
    /\ \A h \in Heads : l[h] # Stale => Good(m, h, l[h])
    /\ \A h, g \in Heads : h # g /\ l[h] # Stale /\ l[g] # Stale => ToSet(l[h]) \cap ToSet(l[g]) = {}

OnNone(l, x) == \A g \in Heads : l[g] # Stale => x \notin ToSet(l[g])

Same(m, m2, x) == NextOf(m2, x) = NextOf(m, x) /\ PrevOf(m2, x) = PrevOf(m, x)

(* Outside the heads C nothing changes, and those of C are rings again.    *)
Untouched(m, m2, l, l2, C) ==
    \A g \in Heads \ C : /\ l2[g] = l[g]
                         /\ l[g] # Stale => \A x \in Around(g, l[g]) : Same(m, m2, x)

Renewed(m2, l2, C) ==
    \A g \in C : l2[g] # Stale =>
        /\ Good(m2, g, l2[g])
        /\ \A f \in Heads \ {g} : l2[f] # Stale => ToSet(l2[g]) \cap ToSet(l2[f]) = {}

LEMMA RingPlaces ==
  ASSUME NEW m, NEW h \in Heads, NEW s, Good(m, h, s), NEW i \in 0..Len(s)
  PROVE  NextOf(m, R(h, s, i)) = R(h, s, i + 1) /\ PrevOf(m, R(h, s, i + 1)) = R(h, s, i)
<1>1. s \in Seq(Entries) /\ Distinct(s) /\ Ringed(m, h, s) /\ Len(s) \in Nat
  BY DEF Good
<1>2. i \in 0..(Len(s) + 1) /\ i + 1 \in 0..(Len(s) + 1)
  BY <1>1
<1>3. R(h, s, i) \in Nodes /\ R(h, s, i + 1) \in Nodes
  BY <1>1, <1>2, PlacesApart
<1>4. Adj(h, s, R(h, s, i), R(h, s, i + 1))
  BY DEF Adj
<1>5. QED
  BY <1>1, <1>3, <1>4 DEF Ringed

LEMMA RingFacts ==
  ASSUME NEW m, NEW h \in Heads, NEW s, Good(m, h, s)
  PROVE  /\ s \in Seq(Entries) /\ Distinct(s)
         /\ \A x \in Around(h, s) : /\ NextOf(m, x) \in Around(h, s) /\ Adj(h, s, x, NextOf(m, x))
                                    /\ PrevOf(m, x) \in Around(h, s) /\ Adj(h, s, PrevOf(m, x), x)
         /\ \A x \in ToSet(s) : NextOf(m, x) # x /\ PrevOf(m, x) # x
         /\ (NextOf(m, h) = h <=> Len(s) = 0) /\ (PrevOf(m, h) = h <=> Len(s) = 0)
         /\ Around(h, s) \subseteq Nodes /\ Len(s) \in Nat
<1>1. s \in Seq(Entries) /\ Distinct(s) /\ Ringed(m, h, s) /\ Len(s) \in Nat
  BY DEF Good
<1>2. Around(h, s) \subseteq Nodes
  BY <1>1, Neighbours
<1>3. ASSUME NEW x \in Around(h, s)
      PROVE  /\ NextOf(m, x) \in Around(h, s) /\ Adj(h, s, x, NextOf(m, x))
             /\ PrevOf(m, x) \in Around(h, s) /\ Adj(h, s, PrevOf(m, x), x)
  <2>1. PICK y \in Nodes : Adj(h, s, x, y)
    BY <1>1, Neighbours
  <2>2. PICK w \in Nodes : Adj(h, s, w, x)
    BY <1>1, Neighbours
  <2>3. NextOf(m, x) = y /\ PrevOf(m, x) = w
    BY <1>1, <1>2, <2>1, <2>2 DEF Ringed
  <2>4. QED
    BY <1>1, <2>1, <2>2, <2>3, Neighbours
<1>4. ASSUME NEW i \in 0..Len(s)
      PROVE  NextOf(m, R(h, s, i)) = R(h, s, i + 1) /\ PrevOf(m, R(h, s, i + 1)) = R(h, s, i)
  BY RingPlaces
<1>5. ASSUME NEW x \in ToSet(s) PROVE NextOf(m, x) # x /\ PrevOf(m, x) # x
  BY <1>1, <1>3, NotItself DEF Around
<1>6. (NextOf(m, h) = h <=> Len(s) = 0) /\ (PrevOf(m, h) = h <=> Len(s) = 0)
  <2>1. R(h, s, 0) = h /\ R(h, s, Len(s) + 1) = h /\ 0 \in 0..Len(s) /\ Len(s) \in 0..Len(s)
    BY <1>1 DEF R
  <2>2. NextOf(m, h) = R(h, s, 1) /\ PrevOf(m, h) = R(h, s, Len(s))
    BY <1>4, <2>1
  <2>3. Len(s) # 0 => R(h, s, 1) = s[1] /\ R(h, s, Len(s)) = s[Len(s)] /\ s[1] \in Entries /\ s[Len(s)] \in Entries
    BY <1>1 DEF R
  <2>4. Len(s) = 0 => R(h, s, 1) = h /\ R(h, s, Len(s)) = h
    BY <1>1 DEF R
  <2>5. QED
    BY <2>2, <2>3, <2>4, HeadsApart
<1>7. QED
  BY <1>1, <1>2, <1>3, <1>5, <1>6

LEMMA RingSteps ==
  ASSUME NEW m, NEW h \in Heads, NEW s, Good(m, h, s), NEW x \in Around(h, s)
  PROVE  /\ NextOf(m, x) \in Around(h, s) /\ Adj(h, s, x, NextOf(m, x))
         /\ PrevOf(m, x) \in Around(h, s) /\ Adj(h, s, PrevOf(m, x), x)
BY RingFacts

LEMMA NotSelf ==
  ASSUME NEW m, NEW h \in Heads, NEW s, Good(m, h, s), NEW x \in ToSet(s)
  PROVE  NextOf(m, x) # x /\ PrevOf(m, x) # x
<1>1. s \in Seq(Entries) /\ Distinct(s) /\ x \in Around(h, s)
  BY DEF Good, Around
<1>2. ~Adj(h, s, x, x)
  BY <1>1, NotItself
<1>3. Adj(h, s, x, NextOf(m, x)) /\ Adj(h, s, PrevOf(m, x), x)
  BY <1>1, RingSteps
<1>4. QED
  BY <1>2, <1>3

\* The neighbours of the entry at k
LEMMA EntryPlaces ==
  ASSUME NEW m, NEW h \in Heads, NEW s, Good(m, h, s), NEW k \in 1..Len(s)
  PROVE  /\ s[k] \in ToSet(s) /\ s[k] \in Entries /\ s[k] \in Nodes
         /\ PrevOf(m, s[k]) = R(h, s, k - 1) /\ R(h, s, k - 1) \in Around(h, s) /\ R(h, s, k - 1) # s[k]
         /\ NextOf(m, s[k]) = R(h, s, k + 1) /\ R(h, s, k + 1) \in Around(h, s) /\ R(h, s, k + 1) # s[k]
<1>1. s \in Seq(Entries) /\ Distinct(s) /\ Len(s) \in Nat /\ Around(h, s) \subseteq Nodes
  BY RingFacts
<1>2. s[k] \in ToSet(s) /\ s[k] \in Entries /\ s[k] \in Nodes /\ R(h, s, k) = s[k]
  BY <1>1, Members, EntriesApart DEF R
<1>3. k \in 0..Len(s) /\ k - 1 \in 0..Len(s) /\ (k - 1) + 1 = k
  BY <1>1
<1>4. NextOf(m, R(h, s, k)) = R(h, s, k + 1)
  BY <1>3, RingPlaces
<1>5. PrevOf(m, R(h, s, k)) = R(h, s, k - 1)
  <2>1. PICK j \in 0..Len(s) : j = k - 1 /\ j + 1 = k
    BY <1>3
  <2>2. PrevOf(m, R(h, s, j + 1)) = R(h, s, j)
    BY RingPlaces
  <2>3. QED
    BY <2>1, <2>2
<1>6. NextOf(m, s[k]) # s[k] /\ PrevOf(m, s[k]) # s[k]
  BY <1>2, NotSelf
<1>7. NextOf(m, s[k]) \in Around(h, s) /\ PrevOf(m, s[k]) \in Around(h, s)
  BY <1>2, RingSteps DEF Around
<1>8. QED
  BY <1>2, <1>3, <1>4, <1>5, <1>6, <1>7

\* Stores elsewhere leave a ring as it is
LEMMA Frame ==
  ASSUME NEW m, NEW m2, NEW h \in Heads, NEW s, Good(m, h, s), \A x \in Around(h, s) : Same(m, m2, x)
  PROVE  Good(m2, h, s)
<1>1. s \in Seq(Entries) /\ Distinct(s) /\ Ringed(m, h, s)
  BY DEF Good
<1>2. \A x, y : Adj(h, s, x, y) => x \in Around(h, s) /\ y \in Around(h, s)
  BY <1>1, Neighbours
<1>3. QED
  BY <1>1, <1>2 DEF Good, Ringed, Same

LEMMA Others ==
  ASSUME NEW m, NEW m2, NEW l \in Lists, NEW l2 \in Lists, NEW C \in SUBSET Heads, RingInv(m, l),
         Untouched(m, m2, l, l2, C), Renewed(m2, l2, C)
  PROVE  RingInv(m2, l2)
<1>1. ASSUME NEW g \in Heads, l2[g] # Stale PROVE Good(m2, g, l2[g])
  <2>1. CASE g \in C
    BY <2>1, <1>1 DEF Renewed
  <2>2. CASE g \notin C
    <3>1. l2[g] = l[g] /\ Good(m, g, l[g]) /\ \A x \in Around(g, l[g]) : Same(m, m2, x)
      BY <2>2, <1>1 DEF RingInv, Untouched
    <3>2. QED
      BY <3>1, Frame
  <2>3. QED
    BY <2>1, <2>2
<1>2. ASSUME NEW g \in Heads, NEW f \in Heads, g # f, l2[g] # Stale, l2[f] # Stale
      PROVE  ToSet(l2[g]) \cap ToSet(l2[f]) = {}
  <2>1. CASE g \in C
    BY <2>1, <1>2 DEF Renewed
  <2>2. CASE f \in C
    BY <2>2, <1>2 DEF Renewed
  <2>3. CASE g \notin C /\ f \notin C
    BY <2>3, <1>2 DEF RingInv, Untouched
  <2>4. QED
    BY <2>1, <2>2, <2>3
<1>3. QED
  BY <1>1, <1>2 DEF RingInv

\* A node around one list is around no other
LEMMA RingsApart ==
  ASSUME NEW m, NEW l \in Lists, RingInv(m, l), NEW h \in Heads, NEW g \in Heads, h # g,
         l[h] # Stale, l[g] # Stale
  PROVE  Around(h, l[h]) \cap Around(g, l[g]) = {}
<1>1. l[h] \in Seq(Entries) /\ l[g] \in Seq(Entries)
  BY DEF Lists
<1>2. ToSet(l[h]) \subseteq Entries /\ ToSet(l[g]) \subseteq Entries
  BY <1>1, Members
<1>3. QED
  BY <1>2, HeadsApart DEF Around, RingInv

LEMMA AddInv ==
  ASSUME NEW m \in Mem, NEW l \in Lists, RingInv(m, l), NEW h \in Heads, l[h] # Stale,
         NEW k \in 0..Len(l[h]), NEW new \in Entries, OnNone(l, new),
         NEW t, Inserted(l[h], k, <<new>>, t)
  PROVE  LET r == __list_add(m, new, R(h, l[h], k), R(h, l[h], k + 1)) IN
         /\ r \in Mem /\ RingInv(r, [l EXCEPT ![h] = t]) /\ [l EXCEPT ![h] = t] \in Lists
         /\ ToSet(t) = ToSet(l[h]) \cup {new}
<1> DEFINE s == l[h]
           p == R(h, s, k)
           n == R(h, s, k + 1)
           r == __list_add(m, new, p, n)
           l2 == [l EXCEPT ![h] = t]
<1>1. Good(m, h, s) /\ s \in Seq(Entries) /\ Distinct(s) /\ Len(s) \in Nat /\ Around(h, s) \subseteq Nodes
  BY RingFacts DEF RingInv
<1>2. p \in Around(h, s) /\ n \in Around(h, s) /\ new \notin Around(h, s) /\ new \in Nodes
  <2>1. k \in 0..(Len(s) + 1) /\ k + 1 \in 0..(Len(s) + 1)
    BY <1>1
  <2>2. QED
    BY <1>1, <2>1, PlacesApart, EntriesApart DEF OnNone, Around
<1>3. /\ r \in Mem
      /\ \A x \in Nodes : /\ NextOf(r, x) = IF x = p THEN new ELSE IF x = new THEN n ELSE NextOf(m, x)
                          /\ PrevOf(r, x) = IF x = n THEN new ELSE IF x = new THEN p ELSE PrevOf(m, x)
  <2> HIDE DEF p, n
  <2>1. p \in Nodes /\ n \in Nodes /\ p # new /\ n # new
    BY <1>1, <1>2
  <2>2. QED
    BY <1>2, <2>1, AddStores
<1>45. /\ t \in Seq(Entries) /\ Distinct(t) /\ ToSet(t) = ToSet(s) \cup {new}
       /\ \A a, b : Adj(h, t, a, b) =>
            \/ a = p /\ b = new
            \/ a = new /\ b = n
            \/ Adj(h, s, a, b) /\ a # p /\ b # n
  <2> HIDE DEF p, n, r, l2
  <2>1. new \notin ToSet(s)
    BY <1>2 DEF Around
  <2> HIDE DEF s
  <2>2. k \in 0..Len(s) /\ Inserted(s, k, <<new>>, t)
    BY DEF s
  <2>3. QED
    BY <1>1, <2>1, <2>2, InsertedOne DEF p, n
<1>4. ToSet(t) = ToSet(s) \cup {new} /\ Distinct(t) /\ t \in Seq(Entries)
  BY <1>45
<1>5. \A a, b : Adj(h, t, a, b) =>
            \/ a = p /\ b = new
            \/ a = new /\ b = n
            \/ Adj(h, s, a, b) /\ a # p /\ b # n
  BY <1>45
<1> HIDE DEF p, n, r
<1>6. Good(m, h, s) => Good(r, h, t)
  <2>1. SUFFICES ASSUME NEW a \in Nodes, NEW b \in Nodes, Adj(h, t, a, b) PROVE NextOf(r, a) = b /\ PrevOf(r, b) = a
    BY <1>4 DEF Good, Ringed
  <2>2. CASE Adj(h, s, a, b) /\ a # p /\ b # n
    <3>1. a \in Around(h, s) /\ b \in Around(h, s)
      BY <2>2, <1>1, Neighbours
    <3>2. NextOf(m, a) = b /\ PrevOf(m, b) = a
      BY <1>1, <2>2 DEF Good, Ringed
    <3>3. a # new /\ b # new
      BY <3>1, <1>2
    <3>4. QED
      BY <2>2, <3>2, <3>3, <1>3
  <2>3. CASE a = p /\ b = new
    BY <2>3, <1>2, <1>3
  <2>4. CASE a = new /\ b = n
    BY <2>4, <1>2, <1>3
  <2>5. QED
    BY <2>1, <2>2, <2>3, <2>4, <1>5
<1>7. l2 \in Lists /\ l2[h] = t /\ \A g \in Heads \ {h} : l2[g] = l[g]
  BY <1>4 DEF Lists
<1> HIDE DEF l2
<1>8. ASSUME NEW g \in Heads \ {h}, l[g] # Stale
      PROVE  /\ \A x \in Around(g, l[g]) : Same(m, r, x)
             /\ ToSet(t) \cap ToSet(l[g]) = {}
  <2>1. Around(h, s) \cap Around(g, l[g]) = {} /\ Around(g, l[g]) \subseteq Nodes
    BY <1>8, RingsApart, RingFacts DEF RingInv
  <2>2. new \notin Around(g, l[g])
    BY <1>8, EntriesApart DEF OnNone, Around
  <2>3. ASSUME NEW x \in Around(g, l[g]) PROVE Same(m, r, x)
    <3>1. x \in Nodes /\ x # p /\ x # n /\ x # new
      BY <2>1, <2>2, <1>2
    <3>2. QED
      BY <3>1, <1>3 DEF Same
  <2>4. QED
    BY <2>1, <2>2, <2>3, <1>4 DEF Around
<1>9. RingInv(r, l2)
  <2>1. {h} \in SUBSET Heads
    OBVIOUS
  <2>2. Untouched(m, r, l, l2, {h})
    BY <1>7, <1>8 DEF Untouched
  <2>3. Renewed(r, l2, {h})
    BY <1>1, <1>6, <1>7, <1>8 DEF Renewed
  <2>4. QED
    BY <2>1, <2>2, <2>3, <1>7, Others
<1>10. QED
  BY <1>3, <1>4, <1>7, <1>9 DEF r, l2, p, n

LEMMA DropInv ==
  ASSUME NEW m \in Mem, NEW l \in Lists, RingInv(m, l), NEW h \in Heads, l[h] # Stale,
         NEW k \in 1..Len(l[h]), NEW e, e = l[h][k], NEW t, Dropped(l[h], k, t)
  PROVE  LET r == __list_del_entry(m, e) IN
         /\ r \in Mem /\ RingInv(r, [l EXCEPT ![h] = t]) /\ [l EXCEPT ![h] = t] \in Lists
         /\ ToSet(t) = ToSet(l[h]) \ {e} /\ OnNone([l EXCEPT ![h] = t], e)
         /\ Same(m, r, e)
         /\ PrevOf(m, e) \in Around(h, l[h]) \ {e} /\ NextOf(m, e) \in Around(h, l[h]) \ {e}
<1> DEFINE s == l[h]
           p == R(h, s, k - 1)
           n == R(h, s, k + 1)
           r == __list_del_entry(m, e)
           l2 == [l EXCEPT ![h] = t]
<1>0. Good(m, h, s)
  BY DEF RingInv
<1>1. /\ Good(m, h, s) /\ s \in Seq(Entries) /\ Distinct(s) /\ Len(s) \in Nat /\ Around(h, s) \subseteq Nodes
      /\ \A i \in 0..Len(s) : NextOf(m, R(h, s, i)) = R(h, s, i + 1) /\ PrevOf(m, R(h, s, i + 1)) = R(h, s, i)
  <2> HIDE DEF s
  <2>1. s \in Seq(Entries) /\ Distinct(s) /\ Len(s) \in Nat /\ Around(h, s) \subseteq Nodes
    BY <1>0, RingFacts
  <2>2. ASSUME NEW i \in 0..Len(s)
        PROVE  NextOf(m, R(h, s, i)) = R(h, s, i + 1) /\ PrevOf(m, R(h, s, i + 1)) = R(h, s, i)
    BY <1>0, RingPlaces
  <2>3. QED
    BY <1>0, <2>1, <2>2
<1>2. k \in 0..Len(s) /\ k - 1 \in 0..Len(s) /\ (k - 1) + 1 = k /\ k + 1 \in 0..(Len(s) + 1) /\ k - 1 \in 0..(Len(s) + 1)
  BY <1>1
<1>3. R(h, s, k) = e /\ e \in ToSet(s) /\ e \in Entries /\ e \in Nodes
  BY <1>1, <1>2, Members, EntriesApart DEF R
<1>4. p \in Around(h, s) /\ n \in Around(h, s) /\ p \in Nodes /\ n \in Nodes
  BY <1>1, <1>2, PlacesApart
<1>5. NextOf(m, e) = n /\ PrevOf(m, e) = p
  <2>1. PrevOf(m, R(h, s, (k - 1) + 1)) = p
    BY <1>1, <1>2
  <2>2. QED
    BY <1>1, <1>2, <1>3, <2>1
<1>6. p # e /\ n # e
  <2>1. \A x \in ToSet(s) : NextOf(m, x) # x /\ PrevOf(m, x) # x
    BY <1>1, RingFacts
  <2>2. QED
    BY <2>1, <1>3, <1>5
<1>7. /\ t \in Seq(Entries) /\ Distinct(t) /\ ToSet(t) = ToSet(s) \ {e}
      /\ \A a, b : Adj(h, t, a, b) =>
            \/ a = p /\ b = n
            \/ Adj(h, s, a, b) /\ a # e /\ b # e /\ a # p /\ b # n
  <2> HIDE DEF p, n, r, l2, s
  <2>1. k \in 1..Len(s) /\ Dropped(s, k, t) /\ e = s[k]
    BY DEF s
  <2>2. t \in Seq(Entries)
    BY <2>1 DEF Dropped
  <2>3. QED
    BY <1>1, <2>1, <2>2, AdjDropped DEF p, n
<1> HIDE DEF p, n
<1>8. /\ r \in Mem
      /\ \A x \in Nodes : /\ NextOf(r, x) = IF x = p THEN n ELSE NextOf(m, x)
                          /\ PrevOf(r, x) = IF x = n THEN p ELSE PrevOf(m, x)
  BY <1>4, <1>5, DelStores DEF __list_del_entry, NextOf, PrevOf
<1> HIDE DEF r
<1>9. Good(r, h, t)
  <2>1. SUFFICES ASSUME NEW a \in Nodes, NEW b \in Nodes, Adj(h, t, a, b) PROVE NextOf(r, a) = b /\ PrevOf(r, b) = a
    BY <1>7 DEF Good, Ringed
  <2>2. CASE Adj(h, s, a, b) /\ a # p /\ b # n
    <3>1. NextOf(m, a) = b /\ PrevOf(m, b) = a
      BY <1>1, <2>2 DEF Good, Ringed
    <3>2. QED
      BY <2>2, <3>1, <1>8
  <2>3. CASE a = p /\ b = n
    BY <2>3, <1>4, <1>8
  <2>4. QED
    BY <2>1, <2>2, <2>3, <1>7
<1>10. l2 \in Lists /\ l2[h] = t /\ \A g \in Heads \ {h} : l2[g] = l[g]
  BY <1>7 DEF Lists
<1> HIDE DEF l2
<1>11. ASSUME NEW g \in Heads \ {h}, l[g] # Stale
       PROVE  /\ \A x \in Around(g, l[g]) : Same(m, r, x)
              /\ ToSet(t) \cap ToSet(l[g]) = {} /\ e \notin ToSet(l[g])
  <2>1. Around(h, s) \cap Around(g, l[g]) = {} /\ Around(g, l[g]) \subseteq Nodes
    BY <1>11, RingsApart, RingFacts DEF RingInv
  <2>2. ASSUME NEW x \in Around(g, l[g]) PROVE Same(m, r, x)
    <3>1. x \in Nodes /\ x # p /\ x # n
      BY <2>1, <1>4
    <3>2. QED
      BY <3>1, <1>8 DEF Same
  <2>3. QED
    BY <2>1, <2>2, <1>3, <1>7 DEF Around
<1>12. RingInv(r, l2)
  <2>1. {h} \in SUBSET Heads
    OBVIOUS
  <2>2. Untouched(m, r, l, l2, {h})
    BY <1>10, <1>11 DEF Untouched
  <2>3. Renewed(r, l2, {h})
    BY <1>9, <1>10, <1>11 DEF Renewed
  <2>4. QED
    BY <2>1, <2>2, <2>3, <1>10, Others
<1>13. OnNone(l2, e)
  BY <1>7, <1>10, <1>11 DEF OnNone
<1>14. Same(m, r, e)
  BY <1>3, <1>6, <1>8 DEF Same
<1>15. QED
  BY <1>4, <1>5, <1>6, <1>7, <1>8, <1>10, <1>12, <1>13, <1>14 DEF r, l2

\* Stores to an entry on no list, and a head that begins again
LEMMA OffInv ==
  ASSUME NEW m, NEW r, NEW l \in Lists, RingInv(m, l), NEW e \in Entries, OnNone(l, e),
         \A x \in Nodes : x # e => Same(m, r, x)
  PROVE  RingInv(r, l)
<1>1. ASSUME NEW g \in Heads, l[g] # Stale PROVE \A x \in Around(g, l[g]) : Same(m, r, x)
  <2>1. Around(g, l[g]) \subseteq Nodes
    BY <1>1, RingFacts DEF RingInv
  <2>2. e \notin Around(g, l[g])
    BY <1>1, EntriesApart DEF OnNone, Around
  <2>3. QED
    BY <2>1, <2>2
<1>2. Untouched(m, r, l, l, {}) /\ Renewed(r, l, {}) /\ {} \in SUBSET Heads
  BY <1>1 DEF Untouched, Renewed
<1>3. QED
  BY <1>2, Others

LEMMA HeadInv ==
  ASSUME NEW m \in Mem, NEW l \in Lists, RingInv(m, l), NEW h \in Heads
  PROVE  LET r == INIT_LIST_HEAD(m, h) IN
         r \in Mem /\ RingInv(r, [l EXCEPT ![h] = <<>>]) /\ [l EXCEPT ![h] = <<>>] \in Lists
<1> DEFINE r == INIT_LIST_HEAD(m, h)
           l2 == [l EXCEPT ![h] = <<>>]
<1>1. h \in Nodes /\ h \notin Entries
  BY HeadsApart
<1>2. /\ r \in Mem
      /\ \A x \in Nodes : /\ NextOf(r, x) = IF x = h THEN h ELSE NextOf(m, x)
                          /\ PrevOf(r, x) = IF x = h THEN h ELSE PrevOf(m, x)
  BY <1>1, InitStores
<1> HIDE DEF r
<1>3. l2 \in Lists /\ l2[h] = <<>> /\ \A g \in Heads \ {h} : l2[g] = l[g]
  BY DEF Lists
<1> HIDE DEF l2
<1>4. <<>> \in Seq(Entries) /\ Len(<<>>) = 0 /\ ToSet(<<>>) = {}
  BY DEF ToSet
<1>5. Good(r, h, <<>>)
  <2>1. \A a, b : Adj(h, <<>>, a, b) => a = h /\ b = h
    BY <1>4 DEF Adj, R
  <2>2. Distinct(<<>>)
    BY DEF Distinct
  <2>3. QED
    BY <1>1, <1>2, <1>4, <2>1, <2>2 DEF Good, Ringed
<1>6. ASSUME NEW g \in Heads \ {h}, l[g] # Stale PROVE \A x \in Around(g, l[g]) : Same(m, r, x)
  <2>1. Good(m, g, l[g]) /\ Around(g, l[g]) \subseteq Nodes
    BY <1>6, RingFacts DEF RingInv
  <2>2. ToSet(l[g]) \subseteq Entries
    BY <2>1, Members DEF Good
  <2>3. h \notin Around(g, l[g])
    BY <1>1, <2>2 DEF Around
  <2>4. QED
    BY <1>2, <2>1, <2>3 DEF Same
<1>7. Untouched(m, r, l, l2, {h}) /\ {h} \in SUBSET Heads
  BY <1>3, <1>6 DEF Untouched
<1>8. Renewed(r, l2, {h})
  BY <1>3, <1>4, <1>5 DEF Renewed
<1>9. QED
  BY <1>2, <1>3, <1>7, <1>8, Others DEF r, l2

LEMMA ReplaceInv ==
  ASSUME NEW m \in Mem, NEW l \in Lists, RingInv(m, l), NEW h \in Heads, l[h] # Stale,
         NEW k \in 1..Len(l[h]), NEW old, old = l[h][k], NEW new \in Entries, OnNone(l, new)
  PROVE  LET r == list_replace(m, old, new)
             l2 == [l EXCEPT ![h] = ReplaceAll(l[h], old, new)]
         IN  r \in Mem /\ RingInv(r, l2) /\ l2 \in Lists /\ OnNone(l2, old)
<1>00. PICK s : s = l[h]
  OBVIOUS
<1> DEFINE t == ReplaceAll(s, old, new)
           p == R(h, s, k - 1)
           n == R(h, s, k + 1)
           r == list_replace(m, old, new)
           l2 == [l EXCEPT ![h] = t]
<1>0. Good(m, h, s)
  BY <1>00 DEF RingInv
<1>1. /\ Good(m, h, s) /\ s \in Seq(Entries) /\ Distinct(s) /\ Len(s) \in Nat /\ Around(h, s) \subseteq Nodes
      /\ k \in 1..Len(s) /\ old = s[k]
  BY <1>0, <1>00, RingFacts
<1>2. /\ old \in ToSet(s) /\ old \in Entries /\ old \in Nodes
      /\ PrevOf(m, old) = p /\ p \in Around(h, s) /\ p # old
      /\ NextOf(m, old) = n /\ n \in Around(h, s) /\ n # old
  <2> HIDE DEF t, r, l2
  <2>1. k \in 1..Len(s)
    BY <1>1
  <2>2. /\ s[k] \in ToSet(s) /\ s[k] \in Entries /\ s[k] \in Nodes
        /\ PrevOf(m, s[k]) = R(h, s, k - 1) /\ R(h, s, k - 1) \in Around(h, s) /\ R(h, s, k - 1) # s[k]
        /\ NextOf(m, s[k]) = R(h, s, k + 1) /\ R(h, s, k + 1) \in Around(h, s) /\ R(h, s, k + 1) # s[k]
    BY <1>0, <2>1, EntryPlaces
  <2>3. QED
    BY <1>1, <2>2
<1>3. old \in ToSet(s) /\ old \in Entries /\ old \in Nodes
  BY <1>2
<1>4. p \in Around(h, s) /\ n \in Around(h, s) /\ p \in Nodes /\ n \in Nodes
  BY <1>1, <1>2
<1>5. NextOf(m, old) = n /\ PrevOf(m, old) = p
  BY <1>2
<1>6. p # old /\ n # old
  BY <1>2
<1>61. new \notin Around(h, s) /\ new \in Nodes /\ new \notin ToSet(s)
  BY <1>00, EntriesApart DEF OnNone, Around
<1>7. /\ t \in Seq(Entries) /\ Distinct(t) /\ ToSet(t) = (ToSet(s) \ {old}) \cup {new}
      /\ \A a, b : Adj(h, t, a, b) =>
            \/ a = p /\ b = new
            \/ a = new /\ b = n
            \/ Adj(h, s, a, b) /\ a # old /\ b # old /\ a # p /\ b # n
  BY <1>1, <1>61, AdjReplaced
<1> HIDE DEF p, n, t
<1>8. /\ r \in Mem
      /\ \A x \in Nodes : /\ NextOf(r, x) = IF x = p THEN new ELSE IF x = new THEN n ELSE NextOf(m, x)
                          /\ PrevOf(r, x) = IF x = n THEN new ELSE IF x = new THEN p ELSE PrevOf(m, x)
  <2>1. NextOf(m, old) \in Nodes \ {new} /\ PrevOf(m, old) \in Nodes \ {new} /\ NextOf(m, old) # old /\ PrevOf(m, old) # old /\ new # old
    BY <1>4, <1>5, <1>6, <1>61, <1>3
  <2>2. QED
    BY <2>1, <1>3, <1>5, <1>61, ReplaceStores
<1> HIDE DEF r
<1>9. Good(r, h, t)
  <2>1. SUFFICES ASSUME NEW a \in Nodes, NEW b \in Nodes, Adj(h, t, a, b) PROVE NextOf(r, a) = b /\ PrevOf(r, b) = a
    BY <1>7 DEF Good, Ringed
  <2>2. CASE Adj(h, s, a, b) /\ a # p /\ b # n
    <3>1. NextOf(m, a) = b /\ PrevOf(m, b) = a
      BY <1>1, <2>2 DEF Good, Ringed
    <3>2. a # new /\ b # new
      BY <1>1, <1>61, <2>2, Neighbours
    <3>3. QED
      BY <2>2, <3>1, <3>2, <1>8
  <2>3. CASE a = p /\ b = new
    BY <2>3, <1>4, <1>8, <1>61
  <2>4. CASE a = new /\ b = n
    BY <2>4, <1>4, <1>8, <1>61
  <2>5. QED
    BY <2>1, <2>2, <2>3, <2>4, <1>7
<1>10. l2 \in Lists /\ l2[h] = t /\ \A g \in Heads \ {h} : l2[g] = l[g]
  BY <1>7 DEF Lists
<1> HIDE DEF l2
<1>11. ASSUME NEW g \in Heads \ {h}, l[g] # Stale
       PROVE  /\ \A x \in Around(g, l[g]) : Same(m, r, x)
              /\ ToSet(t) \cap ToSet(l[g]) = {} /\ old \notin ToSet(l[g])
  <2>1. Around(h, s) \cap Around(g, l[g]) = {} /\ Around(g, l[g]) \subseteq Nodes
    BY <1>11, <1>00, RingsApart, RingFacts DEF RingInv
  <2>2. new \notin Around(g, l[g])
    BY <1>11, EntriesApart DEF OnNone, Around
  <2>3. ASSUME NEW x \in Around(g, l[g]) PROVE Same(m, r, x)
    <3>1. x \in Nodes /\ x # p /\ x # n /\ x # new
      BY <2>1, <2>2, <1>4
    <3>2. QED
      BY <3>1, <1>8 DEF Same
  <2>4. QED
    BY <2>1, <2>2, <2>3, <1>3, <1>7 DEF Around
<1>12. RingInv(r, l2)
  <2>1. Untouched(m, r, l, l2, {h}) /\ {h} \in SUBSET Heads
    BY <1>10, <1>11 DEF Untouched
  <2>2. Renewed(r, l2, {h})
    BY <1>9, <1>10, <1>11 DEF Renewed
  <2>3. QED
    BY <2>1, <2>2, <1>10, Others
<1>13. OnNone(l2, old)
  BY <1>3, <1>7, <1>10, <1>11, <1>61 DEF OnNone
<1>14. QED
  BY <1>00, <1>8, <1>10, <1>12, <1>13 DEF r, l2, t

\* The ends of a list, as its head sees them
LEMMA HeadPlaces ==
  ASSUME NEW m, NEW h \in Heads, NEW s, Good(m, h, s)
  PROVE  /\ NextOf(m, h) = R(h, s, 1) /\ PrevOf(m, h) = R(h, s, Len(s))
         /\ NextOf(m, h) \in Around(h, s) /\ PrevOf(m, h) \in Around(h, s)
         /\ Len(s) # 0 => /\ NextOf(m, h) = s[1] /\ PrevOf(m, h) = s[Len(s)]
                          /\ s[1] \in ToSet(s) /\ s[Len(s)] \in ToSet(s)
                          /\ NextOf(m, h) # h /\ PrevOf(m, h) # h
         /\ Len(s) = 0 => NextOf(m, h) = h /\ PrevOf(m, h) = h
<1>1. s \in Seq(Entries) /\ Len(s) \in Nat
  BY RingFacts
<1>2. R(h, s, 0) = h /\ R(h, s, Len(s) + 1) = h /\ 0 \in 0..Len(s) /\ Len(s) \in 0..Len(s)
  BY <1>1 DEF R
<1>3. NextOf(m, h) = R(h, s, 0 + 1) /\ PrevOf(m, h) = R(h, s, Len(s))
  BY <1>2, RingPlaces
<1>4. NextOf(m, h) \in Around(h, s) /\ PrevOf(m, h) \in Around(h, s)
  BY RingSteps DEF Around
<1>5. Len(s) # 0 => R(h, s, 1) = s[1] /\ R(h, s, Len(s)) = s[Len(s)] /\ s[1] \in ToSet(s) /\ s[Len(s)] \in ToSet(s)
  BY <1>1, Members DEF R
<1>6. Len(s) # 0 => NextOf(m, h) # h /\ PrevOf(m, h) # h
  BY RingFacts
<1>7. Len(s) = 0 => NextOf(m, h) = h /\ PrevOf(m, h) = h
  BY RingFacts
<1>8. QED
  BY <1>3, <1>4, <1>5, <1>6, <1>7

LEMMA RehangInv ==
  ASSUME NEW m \in Mem, NEW l \in Lists, RingInv(m, l), NEW old \in Heads, l[old] # Stale,
         NEW new \in Heads, new # old, l[new] = Stale \/ Len(l[new]) = 0
  PROVE  LET r == list_replace(m, old, new)
             l2 == [l EXCEPT ![new] = l[old], ![old] = Stale]
         IN  r \in Mem /\ RingInv(r, l2) /\ l2 \in Lists
<1>0. PICK s : s = l[old]
  OBVIOUS
<1> DEFINE n == NextOf(m, old)
           p == PrevOf(m, old)
           r == list_replace(m, old, new)
           l2 == [l EXCEPT ![new] = s, ![old] = Stale]
<1>1. Good(m, old, s)
  BY <1>0 DEF RingInv
<1>2. s \in Seq(Entries) /\ Distinct(s) /\ Len(s) \in Nat /\ Around(old, s) \subseteq Nodes
  BY <1>1, RingFacts
<1>3. /\ n = R(old, s, 1) /\ p = R(old, s, Len(s))
      /\ n \in Around(old, s) /\ p \in Around(old, s)
      /\ Len(s) # 0 => n # old /\ p # old
      /\ Len(s) = 0 => n = old /\ p = old
  BY <1>1, HeadPlaces
<1>4. new \in Nodes /\ old \in Nodes /\ new \notin Around(old, s)
  <2>1. ToSet(s) \subseteq Entries
    BY <1>2, Members
  <2>2. QED
    BY <2>1, HeadsApart DEF Around
<1>5. /\ r \in Mem
      /\ Len(s) # 0 => \A x \in Nodes :
           /\ NextOf(r, x) = IF x = p THEN new ELSE IF x = new THEN n ELSE NextOf(m, x)
           /\ PrevOf(r, x) = IF x = n THEN new ELSE IF x = new THEN p ELSE PrevOf(m, x)
      /\ Len(s) = 0 => \A x \in Nodes :
           /\ NextOf(r, x) = IF x = new THEN new ELSE NextOf(m, x)
           /\ PrevOf(r, x) = IF x = new \/ x = old THEN new ELSE PrevOf(m, x)
  <2>1. n \in Nodes \ {new} /\ p \in Nodes \ {new} /\ (n # old <=> p # old) /\ new # old
    BY <1>2, <1>3, <1>4
  <2>2. QED
    BY <2>1, <1>3, <1>4, ReplaceStores
<1> HIDE DEF n, p, r
<1>6. Good(r, new, s)
  <2>1. SUFFICES ASSUME NEW a \in Nodes, NEW b \in Nodes, Adj(new, s, a, b) PROVE NextOf(r, a) = b /\ PrevOf(r, b) = a
    BY <1>2 DEF Good, Ringed
  <2>2. CASE Len(s) = 0
    <3>1. a = new /\ b = new
      BY <2>1, <2>2 DEF Adj, R
    <3>2. QED
      BY <2>2, <3>1, <1>5
  <2>3. CASE Len(s) # 0
    <3>1. \/ a = new /\ b = n
          \/ a = p /\ b = new
          \/ Adj(old, s, a, b) /\ a # old /\ b # old /\ a # p /\ b # n
      BY <2>1, <2>3, <1>2, <1>3, AdjRehung
    <3>2. CASE Adj(old, s, a, b) /\ a # p /\ b # n
      <4>1. a # new /\ b # new
        BY <3>2, <1>2, <1>4, Neighbours
      <4>2. NextOf(m, a) = b /\ PrevOf(m, b) = a
        BY <3>2, <1>1 DEF Good, Ringed
      <4>3. QED
        BY <2>3, <3>2, <4>1, <4>2, <1>5
    <3>3. CASE a = new /\ b = n
      BY <2>3, <3>3, <1>3, <1>4, <1>5
    <3>4. CASE a = p /\ b = new
      BY <2>3, <3>4, <1>3, <1>4, <1>5
    <3>5. QED
      BY <3>1, <3>2, <3>3, <3>4
  <2>4. QED
    BY <2>2, <2>3
<1>7. l2 \in Lists /\ l2[new] = s /\ l2[old] = Stale /\ \A g \in Heads \ {new, old} : l2[g] = l[g]
  BY <1>2 DEF Lists
<1> HIDE DEF l2
<1>8. ASSUME NEW g \in Heads \ {new, old}, l[g] # Stale
      PROVE  (\A x \in Around(g, l[g]) : Same(m, r, x)) /\ ToSet(s) \cap ToSet(l[g]) = {}
  <2>1. Around(old, s) \cap Around(g, l[g]) = {} /\ Around(g, l[g]) \subseteq Nodes
    BY <1>8, <1>0, RingsApart, RingFacts DEF RingInv
  <2>2. l[g] \in Seq(Entries)
    BY <1>8 DEF Lists
  <2>3. new \notin Around(g, l[g])
    BY <1>8, <2>2, Members, HeadsApart DEF Around
  <2>4. ASSUME NEW x \in Around(g, l[g]) PROVE Same(m, r, x)
    <3>1. x \in Nodes /\ x # p /\ x # n /\ x # new /\ x # old
      BY <2>1, <2>3, <1>3 DEF Around
    <3>2. NextOf(r, x) = NextOf(m, x) /\ PrevOf(r, x) = PrevOf(m, x)
      BY <3>1, <1>5
    <3>3. QED
      BY <3>2 DEF Same
  <2>5. QED
    BY <2>1, <2>4 DEF Around
<1>9. RingInv(r, l2)
  <2>1. Untouched(m, r, l, l2, {new, old}) /\ {new, old} \in SUBSET Heads
    BY <1>7, <1>8 DEF Untouched
  <2>2. Renewed(r, l2, {new, old})
    BY <1>6, <1>7, <1>8 DEF Renewed
  <2>3. QED
    BY <2>1, <2>2, <1>7, Others
<1>10. QED
  BY <1>0, <1>5, <1>7, <1>9 DEF r, l2

LEMMA CutInv ==
  ASSUME NEW m \in Mem, NEW l \in Lists, RingInv(m, l), NEW h \in Heads, l[h] # Stale,
         NEW c \in Heads, c # h, NEW k \in 1..Len(l[h]), NEW e, e = l[h][k]
  PROVE  LET r == __list_cut_position(m, c, h, e)
             l2 == [l EXCEPT ![c] = SubSeq(l[h], 1, k), ![h] = SubSeq(l[h], k + 1, Len(l[h]))]
         IN  r \in Mem /\ RingInv(r, l2) /\ l2 \in Lists
<1>0. PICK s : s = l[h]
  OBVIOUS
<1> DEFINE t == SubSeq(s, 1, k)
           u == SubSeq(s, k + 1, Len(s))
           f == NextOf(m, e)
           n == NextOf(m, h)
           r == __list_cut_position(m, c, h, e)
           l2 == [l EXCEPT ![c] = t, ![h] = u]
<1>1. Good(m, h, s) /\ k \in 1..Len(s) /\ e = s[k]
  BY <1>0 DEF RingInv
<1>20. s \in Seq(Entries) /\ Distinct(s) /\ Len(s) \in Nat /\ Around(h, s) \subseteq Nodes
  <2>1. Good(m, h, s)
    BY <1>1
  <2>2. QED
    BY <2>1, RingFacts
<1>2. s \in Seq(Entries) /\ Distinct(s) /\ Len(s) \in Nat /\ Len(s) # 0 /\ Around(h, s) \subseteq Nodes
  BY <1>1, <1>20
<1>3. /\ f = R(h, s, k + 1) /\ f \in Around(h, s) /\ f # e
      /\ e \in ToSet(s) /\ e \in Entries /\ e \in Nodes
  <2> HIDE DEF t, u, f, n, r, l2
  <2>0. Good(m, h, s)
    BY <1>1
  <2>1. k \in 1..Len(s)
    BY <1>1
  <2>2. /\ s[k] \in ToSet(s) /\ s[k] \in Entries /\ s[k] \in Nodes
        /\ PrevOf(m, s[k]) = R(h, s, k - 1) /\ R(h, s, k - 1) \in Around(h, s) /\ R(h, s, k - 1) # s[k]
        /\ NextOf(m, s[k]) = R(h, s, k + 1) /\ R(h, s, k + 1) \in Around(h, s) /\ R(h, s, k + 1) # s[k]
    BY <2>0, <2>1, EntryPlaces, ZenonT(60)
  <2>3. QED
    BY <1>1, <2>2 DEF f
<1>4. n = s[1] /\ n \in ToSet(s) /\ n # h
  BY <1>1, <1>2, HeadPlaces
<1>5. f # n
  <2>1. n = R(h, s, 1) /\ 1 \in 1..(Len(s) + 1) /\ k + 1 \in 1..(Len(s) + 1) /\ k + 1 # 1
    BY <1>1, <1>2, <1>4 DEF R
  <2>2. QED
    BY <2>1, <1>2, <1>3, PlacesApart
<1>6. /\ c \in Nodes /\ h \in Nodes /\ c \notin Around(h, s) /\ e \in Around(h, s) /\ h \in Around(h, s) /\ e # h
      /\ n \in Around(h, s) /\ n \in Nodes /\ f \in Nodes
  <2>1. ToSet(s) \subseteq Entries
    BY <1>2, Members
  <2>2. QED
    BY <2>1, <1>2, <1>3, <1>4, HeadsApart DEF Around
<1>7. /\ r \in Mem
      /\ \A x \in Nodes :
           /\ NextOf(r, x) = IF x = h THEN f ELSE IF x = e THEN c ELSE IF x = c THEN n ELSE NextOf(m, x)
           /\ PrevOf(r, x) = IF x = f THEN h ELSE IF x = c THEN e ELSE IF x = n THEN c ELSE PrevOf(m, x)
  <2>1. c # h /\ c # e /\ h # e /\ n \in Nodes \ {c, h} /\ f \in Nodes \ {c, n}
    BY <1>3, <1>4, <1>5, <1>6
  <2>2. QED
    BY <2>1, <1>3, <1>6, CutStores
<1>8. /\ t \in Seq(Entries) /\ Distinct(t) /\ u \in Seq(Entries) /\ Distinct(u)
      /\ ToSet(t) \cup ToSet(u) = ToSet(s) /\ ToSet(t) \cap ToSet(u) = {}
      /\ \A a, b : Adj(c, t, a, b) =>
            \/ a = c /\ b = s[1]
            \/ a = s[k] /\ b = c
            \/ Adj(h, s, a, b) /\ a # h /\ b # h /\ a # s[k] /\ b # s[1] /\ b # R(h, s, k + 1)
      /\ \A a, b : Adj(h, u, a, b) =>
            \/ a = h /\ b = R(h, s, k + 1)
            \/ Adj(h, s, a, b) /\ a # h /\ a # s[k] /\ b # R(h, s, k + 1) /\ b # s[1]
  BY <1>1, <1>2, AdjCut
<1> HIDE DEF t, u, f, n, r
<1>9. ASSUME NEW a \in Nodes, NEW b \in Nodes, Adj(h, s, a, b), a # h, a # e, b # f, b # n
      PROVE  NextOf(r, a) = b /\ PrevOf(r, b) = a
  <2>1. a # c /\ b # c
    BY <1>9, <1>2, <1>6, Neighbours
  <2>2. NextOf(m, a) = b /\ PrevOf(m, b) = a
    BY <1>9, <1>1 DEF Good, Ringed
  <2>3. QED
    BY <1>9, <2>1, <2>2, <1>7
<1>10. Good(r, c, t)
  <2>1. SUFFICES ASSUME NEW a \in Nodes, NEW b \in Nodes, Adj(c, t, a, b) PROVE NextOf(r, a) = b /\ PrevOf(r, b) = a
    BY <1>8 DEF Good, Ringed
  <2>2. \/ a = c /\ b = n
        \/ a = e /\ b = c
        \/ Adj(h, s, a, b) /\ a # h /\ a # e /\ b # n /\ b # f
    BY <2>1, <1>1, <1>3, <1>4, <1>8
  <2>3. CASE a = c /\ b = n
    BY <2>3, <1>3, <1>4, <1>5, <1>6, <1>7
  <2>4. CASE a = e /\ b = c
    BY <2>4, <1>3, <1>4, <1>5, <1>6, <1>7
  <2>5. QED
    BY <2>2, <2>3, <2>4, <1>9
<1>11. Good(r, h, u)
  <2>1. SUFFICES ASSUME NEW a \in Nodes, NEW b \in Nodes, Adj(h, u, a, b) PROVE NextOf(r, a) = b /\ PrevOf(r, b) = a
    BY <1>8 DEF Good, Ringed
  <2>2. \/ a = h /\ b = f
        \/ Adj(h, s, a, b) /\ a # h /\ a # e /\ b # f /\ b # n
    BY <2>1, <1>1, <1>3, <1>4, <1>8
  <2>3. CASE a = h /\ b = f
    BY <2>3, <1>6, <1>7
  <2>4. QED
    BY <2>2, <2>3, <1>9
<1>12. l2 \in Lists /\ l2[c] = t /\ l2[h] = u /\ \A g \in Heads \ {c, h} : l2[g] = l[g]
  BY <1>8 DEF Lists
<1> HIDE DEF l2
<1>13. ASSUME NEW g \in Heads \ {c, h}, l[g] # Stale
       PROVE  /\ \A x \in Around(g, l[g]) : Same(m, r, x)
              /\ ToSet(t) \cap ToSet(l[g]) = {} /\ ToSet(u) \cap ToSet(l[g]) = {}
  <2>1. Around(h, s) \cap Around(g, l[g]) = {} /\ Around(g, l[g]) \subseteq Nodes
    BY <1>13, <1>0, RingsApart, RingFacts DEF RingInv
  <2>2. l[g] \in Seq(Entries)
    BY <1>13 DEF Lists
  <2>3. c \notin Around(g, l[g])
    BY <1>13, <2>2, Members, HeadsApart DEF Around
  <2>4. ASSUME NEW x \in Around(g, l[g]) PROVE Same(m, r, x)
    <3>1. x \in Nodes /\ x # f /\ x # n /\ x # e /\ x # h /\ x # c
      BY <2>1, <2>3, <1>3, <1>6
    <3>2. QED
      BY <3>1, <1>7 DEF Same
  <2>5. QED
    BY <2>1, <2>4, <1>8 DEF Around
<1>14. RingInv(r, l2)
  <2>1. Untouched(m, r, l, l2, {c, h}) /\ {c, h} \in SUBSET Heads
    BY <1>12, <1>13 DEF Untouched
  <2>2. Renewed(r, l2, {c, h})
    BY <1>8, <1>10, <1>11, <1>12, <1>13 DEF Renewed
  <2>3. QED
    BY <2>1, <2>2, <1>12, Others
<1>15. QED
  BY <1>0, <1>7, <1>12, <1>14 DEF r, l2, t, u

LEMMA SpliceInv ==
  ASSUME NEW m \in Mem, NEW l \in Lists, RingInv(m, l), NEW h \in Heads, l[h] # Stale,
         NEW c \in Heads, c # h, l[c] # Stale, Len(l[c]) # 0,
         NEW k \in 0..Len(l[h]), NEW t, Inserted(l[h], k, l[c], t)
  PROVE  LET r == __list_splice(m, c, R(h, l[h], k), R(h, l[h], k + 1))
             l2 == [l EXCEPT ![h] = t, ![c] = Stale]
         IN  r \in Mem /\ RingInv(r, l2) /\ l2 \in Lists
<1>0. PICK s : s = l[h]
  OBVIOUS
<1>1. PICK u : u = l[c]
  OBVIOUS
<1> DEFINE p == R(h, s, k)
           n == R(h, s, k + 1)
           r == __list_splice(m, c, p, n)
           l2 == [l EXCEPT ![h] = t, ![c] = Stale]
<1>2. Good(m, h, s) /\ Good(m, c, u)
  BY <1>0, <1>1 DEF RingInv
<1>3. s \in Seq(Entries) /\ Distinct(s) /\ Len(s) \in Nat /\ Around(h, s) \subseteq Nodes
  BY <1>2, RingFacts
<1>4. u \in Seq(Entries) /\ Distinct(u) /\ Len(u) \in Nat /\ Around(c, u) \subseteq Nodes
  BY <1>2, RingFacts
<1>5. Len(u) # 0 /\ k \in 0..Len(s) /\ Inserted(s, k, u, t)
  BY <1>0, <1>1
<1>6. /\ NextOf(m, c) = u[1] /\ PrevOf(m, c) = u[Len(u)]
      /\ u[1] \in ToSet(u) /\ u[Len(u)] \in ToSet(u)
  BY <1>2, <1>5, HeadPlaces
<1>7. Around(h, s) \cap Around(c, u) = {}
  BY <1>0, <1>1, RingsApart
<1>8. p \in Around(h, s) /\ n \in Around(h, s)
  <2>1. k \in 0..(Len(s) + 1) /\ k + 1 \in 0..(Len(s) + 1)
    BY <1>3, <1>5
  <2>2. QED
    BY <1>3, <2>1, PlacesApart
<1>9. /\ u[1] \in Around(c, u) /\ u[Len(u)] \in Around(c, u) /\ c \in Around(c, u)
      /\ c \in Nodes /\ p \in Nodes /\ n \in Nodes /\ u[1] \in Nodes /\ u[Len(u)] \in Nodes
      /\ u[1] # n /\ u[Len(u)] # p /\ u[1] # p /\ u[Len(u)] # n
  BY <1>3, <1>4, <1>6, <1>7, <1>8, HeadsApart DEF Around
<1>10. Distinct(t) /\ t \in Seq(Entries) /\ ToSet(t) = ToSet(s) \cup ToSet(u)
  <2>1. ToSet(s) \cap ToSet(u) = {}
    BY <1>7 DEF Around
  <2>2. t \in Seq(Entries)
    BY <1>5 DEF Inserted
  <2>3. QED
    BY <1>3, <1>4, <1>5, <2>1, <2>2, InsertedSet
<1>11. \A a, b : Adj(h, t, a, b) => Spliced(h, s, k, u, a, b)
  BY <1>3, <1>4, <1>5, AdjInserted
<1> HIDE DEF p, n
<1>12. /\ r \in Mem
       /\ \A x \in Nodes :
            /\ NextOf(r, x) = IF x = p THEN u[1] ELSE IF x = u[Len(u)] THEN n ELSE NextOf(m, x)
            /\ PrevOf(r, x) = IF x = n THEN u[Len(u)] ELSE IF x = u[1] THEN p ELSE PrevOf(m, x)
  BY <1>6, <1>9, SpliceStores
<1> HIDE DEF r
<1>13. Good(r, h, t)
  <2>1. SUFFICES ASSUME NEW a \in Nodes, NEW b \in Nodes, Adj(h, t, a, b) PROVE NextOf(r, a) = b /\ PrevOf(r, b) = a
    BY <1>10 DEF Good, Ringed
  <2>2. \/ a = p /\ b = u[1]
        \/ a = u[Len(u)] /\ b = n
        \/ \E j \in 1..(Len(u) - 1) : a = u[j] /\ b = u[j + 1]
        \/ Adj(h, s, a, b) /\ a # p /\ b # n
    BY <2>1, <1>11 DEF Spliced, p, n
  <2>3. CASE a = p /\ b = u[1]
    BY <2>3, <1>9, <1>12
  <2>4. CASE a = u[Len(u)] /\ b = n
    BY <2>4, <1>9, <1>12
  <2>5. CASE Adj(h, s, a, b) /\ a # p /\ b # n
    <3>1. a \in Around(h, s) /\ b \in Around(h, s)
      BY <2>5, <1>3, Neighbours
    <3>2. a # u[Len(u)] /\ b # u[1]
      BY <3>1, <1>7, <1>9
    <3>3. NextOf(m, a) = b /\ PrevOf(m, b) = a
      BY <2>5, <1>2 DEF Good, Ringed
    <3>4. QED
      BY <2>5, <3>2, <3>3, <1>12
  <2>6. CASE \E j \in 1..(Len(u) - 1) : a = u[j] /\ b = u[j + 1]
    <3>1. PICK j \in 1..(Len(u) - 1) : a = u[j] /\ b = u[j + 1]
      BY <2>6
    <3>2. j \in 1..Len(u) /\ j + 1 \in 1..Len(u) /\ j # Len(u) /\ j + 1 # 1 /\ 1 \in 1..Len(u) /\ Len(u) \in 1..Len(u)
      BY <1>4, <1>5
    <3>3. a # u[Len(u)] /\ b # u[1]
      BY <3>1, <3>2, <1>4 DEF Distinct
    <3>4. a \in Around(c, u) /\ b \in Around(c, u)
      BY <3>1, <3>2, <1>4, Members DEF Around
    <3>5. a # p /\ b # n
      BY <3>4, <1>7, <1>8
    <3>6. Adj(c, u, a, b)
      <4>1. R(c, u, j) = u[j] /\ R(c, u, j + 1) = u[j + 1] /\ j \in 0..Len(u)
        BY <3>2, <1>4 DEF R
      <4>2. QED
        BY <3>1, <4>1 DEF Adj
    <3>7. NextOf(m, a) = b /\ PrevOf(m, b) = a
      BY <3>6, <1>2 DEF Good, Ringed
    <3>8. QED
      BY <3>3, <3>5, <3>7, <1>12
  <2>7. QED
    BY <2>2, <2>3, <2>4, <2>5, <2>6
<1>14. l2 \in Lists /\ l2[h] = t /\ l2[c] = Stale /\ \A g \in Heads \ {h, c} : l2[g] = l[g]
  BY <1>10 DEF Lists
<1> HIDE DEF l2
<1>15. ASSUME NEW g \in Heads \ {h, c}, l[g] # Stale
       PROVE  (\A x \in Around(g, l[g]) : Same(m, r, x)) /\ ToSet(t) \cap ToSet(l[g]) = {}
  <2>1. Around(h, s) \cap Around(g, l[g]) = {} /\ Around(g, l[g]) \subseteq Nodes
    BY <1>15, <1>0, RingsApart, RingFacts DEF RingInv
  <2>2. Around(c, u) \cap Around(g, l[g]) = {}
    BY <1>15, <1>1, RingsApart
  <2>3. ASSUME NEW x \in Around(g, l[g]) PROVE Same(m, r, x)
    <3>1. x \in Nodes /\ x # p /\ x # n /\ x # u[1] /\ x # u[Len(u)]
      BY <2>1, <2>2, <1>8, <1>9
    <3>2. QED
      BY <3>1, <1>12 DEF Same
  <2>4. QED
    BY <2>1, <2>2, <2>3, <1>10 DEF Around
<1>16. RingInv(r, l2)
  <2>1. Untouched(m, r, l, l2, {h, c}) /\ {h, c} \in SUBSET Heads
    BY <1>14, <1>15 DEF Untouched
  <2>2. Renewed(r, l2, {h, c})
    BY <1>13, <1>14, <1>15 DEF Renewed
  <2>3. QED
    BY <2>1, <2>2, <1>14, Others
<1>17. QED
  BY <1>0, <1>12, <1>14, <1>16 DEF r, l2, p, n
-----------------------------------------------------------------------------
(* The operations of the header on lists l in memory m                     *)

At(s, e) == CHOOSE i \in 1..Len(s) : s[i] = e

Without(l, e) ==
    [h \in Heads |-> IF l[h] # Stale /\ e \in ToSet(l[h]) THEN RemoveAt(l[h], At(l[h], e)) ELSE l[h]]

LEMMA AtIs ==
  ASSUME NEW s \in Seq(Entries), NEW e \in ToSet(s)
  PROVE  At(s, e) \in 1..Len(s) /\ s[At(s, e)] = e
BY Members DEF At

LEMMA ListTypes ==
  ASSUME NEW l \in Lists, NEW h \in Heads
  PROVE  l[h] = Stale <=> l[h] \notin Seq(Entries)
BY ListConstants DEF Lists

LEMMA HeadAdd ==
  ASSUME NEW m \in Mem, NEW l \in Lists, RingInv(m, l), NEW h \in Heads, l[h] # Stale,
         NEW new \in Entries, OnNone(l, new)
  PROVE  /\ list_add(m, new, h) \in Mem
         /\ RingInv(list_add(m, new, h), [l EXCEPT ![h] = <<new>> \o l[h]])
         /\ [l EXCEPT ![h] = <<new>> \o l[h]] \in Lists
         /\ list_add_tail(m, new, h) \in Mem
         /\ RingInv(list_add_tail(m, new, h), [l EXCEPT ![h] = Append(l[h], new)])
         /\ [l EXCEPT ![h] = Append(l[h], new)] \in Lists
<1>0. PICK s : s = l[h]
  OBVIOUS
<1>1. Good(m, h, s)
  BY <1>0 DEF RingInv
<1>20. s \in Seq(Entries) /\ Len(s) \in Nat
  BY <1>1, RingFacts
<1>2. s \in Seq(Entries) /\ Len(s) \in Nat /\ 0 \in 0..Len(s) /\ Len(s) \in 0..Len(s)
  BY <1>20
<1>3. NextOf(m, h) = R(h, s, 1) /\ PrevOf(m, h) = R(h, s, Len(s))
  BY <1>1, HeadPlaces
<1>4. R(h, s, 0) = h /\ R(h, s, Len(s) + 1) = h /\ 0 + 1 = 1
  BY <1>2 DEF R
<1>5. list_add(m, new, h) = __list_add(m, new, R(h, s, 0), R(h, s, 0 + 1))
  BY <1>3, <1>4 DEF list_add, NextOf
<1>6. list_add_tail(m, new, h) = __list_add(m, new, R(h, s, Len(s)), R(h, s, Len(s) + 1))
  BY <1>3, <1>4 DEF list_add_tail, PrevOf
<1>7. Inserted(l[h], 0, <<new>>, <<new>> \o l[h]) /\ Inserted(l[h], Len(l[h]), <<new>>, Append(l[h], new))
  BY <1>0, <1>2, Insertions
<1>8. /\ list_add(m, new, h) \in Mem
      /\ RingInv(list_add(m, new, h), [l EXCEPT ![h] = <<new>> \o l[h]])
      /\ [l EXCEPT ![h] = <<new>> \o l[h]] \in Lists
  <2>1. PICK t : t = <<new>> \o l[h]
    OBVIOUS
  <2>2. Inserted(l[h], 0, <<new>>, t) /\ 0 \in 0..Len(l[h])
    BY <1>0, <1>2, <1>7, <2>1
  <2>3. LET r == __list_add(m, new, R(h, l[h], 0), R(h, l[h], 0 + 1)) IN
         /\ r \in Mem /\ RingInv(r, [l EXCEPT ![h] = t]) /\ [l EXCEPT ![h] = t] \in Lists
    BY <2>2, AddInv
  <2>4. QED
    BY <1>0, <1>5, <2>1, <2>3
<1>9. /\ list_add_tail(m, new, h) \in Mem
      /\ RingInv(list_add_tail(m, new, h), [l EXCEPT ![h] = Append(l[h], new)])
      /\ [l EXCEPT ![h] = Append(l[h], new)] \in Lists
  <2>1. PICK t : t = Append(l[h], new)
    OBVIOUS
  <2>2. PICK k : k = Len(l[h])
    OBVIOUS
  <2>3. Inserted(l[h], k, <<new>>, t) /\ k \in 0..Len(l[h])
    BY <1>0, <1>2, <1>7, <2>1, <2>2
  <2>4. LET r == __list_add(m, new, R(h, l[h], k), R(h, l[h], k + 1)) IN
         /\ r \in Mem /\ RingInv(r, [l EXCEPT ![h] = t]) /\ [l EXCEPT ![h] = t] \in Lists
    BY <2>3, AddInv
  <2>5. QED
    BY <1>0, <1>6, <2>1, <2>2, <2>4
<1>10. QED
  BY <1>8, <1>9

\* __list_del of an entry on a list, or of one that points at itself
Removable(m, l, e) == OnNone(l, e) => NextOf(m, e) = e /\ PrevOf(m, e) = e

LEMMA UnlinkInv ==
  ASSUME NEW m \in Mem, NEW l \in Lists, RingInv(m, l), NEW e \in Entries, Removable(m, l, e)
  PROVE  LET r == __list_del_entry(m, e)
             l2 == Without(l, e)
         IN  /\ r \in Mem /\ RingInv(r, l2) /\ l2 \in Lists /\ OnNone(l2, e)
             /\ Same(m, r, e)
             /\ \A h \in Heads : l[h] # Stale => l2[h] # Stale /\ ToSet(l2[h]) = ToSet(l[h]) \ {e}
<1> DEFINE r == __list_del_entry(m, e)
           l2 == Without(l, e)
<1>1. CASE OnNone(l, e)
  <2>1. NextOf(m, e) = e /\ PrevOf(m, e) = e /\ e \in Nodes
    BY <1>1, EntriesApart DEF Removable
  <2>2. /\ r \in Mem
        /\ \A x \in Nodes : /\ NextOf(r, x) = IF x = e THEN e ELSE NextOf(m, x)
                            /\ PrevOf(r, x) = IF x = e THEN e ELSE PrevOf(m, x)
    BY <2>1, DelStores DEF __list_del_entry, NextOf, PrevOf
  <2> HIDE DEF r
  <2>3. \A x \in Nodes : Same(m, r, x)
    BY <2>1, <2>2 DEF Same
  <2>4. RingInv(r, l)
    BY <1>1, <2>3, OffInv
  <2>5. l2 = l
    BY <1>1 DEF Without, OnNone, Lists
  <2>6. \A h \in Heads : l[h] # Stale => ToSet(l[h]) = ToSet(l[h]) \ {e}
    BY <1>1 DEF OnNone
  <2> HIDE DEF l2
  <2>7. QED
    BY <1>1, <2>1, <2>2, <2>3, <2>4, <2>5, <2>6 DEF r, l2
<1>2. CASE ~OnNone(l, e)
  <2>1. PICK h \in Heads : l[h] # Stale /\ e \in ToSet(l[h])
    BY <1>2 DEF OnNone
  <2>2. PICK k : k = At(l[h], e)
    OBVIOUS
  <2>3. l[h] \in Seq(Entries)
    BY <2>1, ListTypes
  <2>4. k \in 1..Len(l[h]) /\ e = l[h][k]
    BY <2>1, <2>2, <2>3, AtIs
  <2>5. PICK t : t = RemoveAt(l[h], k)
    OBVIOUS
  <2>6. Dropped(l[h], k, t)
    BY <2>3, <2>4, <2>5, Removals
  <2>7. /\ r \in Mem /\ RingInv(r, [l EXCEPT ![h] = t]) /\ [l EXCEPT ![h] = t] \in Lists
        /\ ToSet(t) = ToSet(l[h]) \ {e} /\ OnNone([l EXCEPT ![h] = t], e)
        /\ Same(m, r, e)
    BY <2>1, <2>4, <2>6, DropInv, SMTT(60)
  <2> HIDE DEF r
  <2>8. \A g \in Heads \ {h} : l[g] # Stale => e \notin ToSet(l[g])
    BY <2>1 DEF RingInv
  <2>9. l2 = [l EXCEPT ![h] = t]
    BY <2>1, <2>2, <2>5, <2>8 DEF Without, Lists
  <2> HIDE DEF l2
  <2>10. l2[h] = t /\ t \in Seq(Entries) /\ \A g \in Heads \ {h} : l2[g] = l[g]
    BY <2>6, <2>9 DEF Lists, Dropped
  <2>11. ASSUME NEW g \in Heads, l[g] # Stale PROVE l2[g] # Stale /\ ToSet(l2[g]) = ToSet(l[g]) \ {e}
    <3>1. CASE g = h
      BY <3>1, <2>7, <2>10, ListConstants
    <3>2. CASE g # h
      BY <3>2, <2>8, <2>10, <2>11
    <3>3. QED
      BY <3>1, <3>2
  <2>12. QED
    BY <2>7, <2>9, <2>11 DEF r, l2
<1>3. QED
  BY <1>1, <1>2

LEMMA DeleteInv ==
  ASSUME NEW m \in Mem, NEW l \in Lists, RingInv(m, l), NEW e \in Entries, Removable(m, l, e)
  PROVE  /\ list_del(m, e) \in Mem /\ RingInv(list_del(m, e), Without(l, e))
         /\ list_del_init(m, e) \in Mem /\ RingInv(list_del_init(m, e), Without(l, e))
<1> DEFINE r == __list_del_entry(m, e)
<1>1. r \in Mem /\ RingInv(r, Without(l, e)) /\ Without(l, e) \in Lists /\ OnNone(Without(l, e), e) /\ e \in Nodes
  BY UnlinkInv, EntriesApart
<1> HIDE DEF r
<1>2. PICK d : d = Prev_(Next_(r, e, LIST_POISON1), e, LIST_POISON2)
  OBVIOUS
<1>3. d \in Mem /\ \A x \in Nodes : x # e => Same(r, d, x)
  BY <1>1, <1>2 DEF Mem, Same, NextOf, PrevOf, Next_, Prev_
<1>4. RingInv(d, Without(l, e))
  BY <1>1, <1>3, OffInv
<1>5. PICK i : i = INIT_LIST_HEAD(r, e)
  OBVIOUS
<1>6. i \in Mem /\ \A x \in Nodes : x # e => Same(r, i, x)
  BY <1>1, <1>5, InitStores DEF Same
<1>7. RingInv(i, Without(l, e))
  BY <1>1, <1>6, OffInv
<1>8. QED
  BY <1>2, <1>3, <1>4, <1>5, <1>6, <1>7 DEF r, list_del, list_del_init

LEMMA MoveInv ==
  ASSUME NEW m \in Mem, NEW l \in Lists, RingInv(m, l), NEW e \in Entries, Removable(m, l, e),
         NEW h \in Heads, l[h] # Stale
  PROVE  LET l2 == Without(l, e) IN
         /\ list_move(m, e, h) \in Mem
         /\ RingInv(list_move(m, e, h), [l2 EXCEPT ![h] = <<e>> \o l2[h]])
         /\ [l2 EXCEPT ![h] = <<e>> \o l2[h]] \in Lists
         /\ list_move_tail(m, e, h) \in Mem
         /\ RingInv(list_move_tail(m, e, h), [l2 EXCEPT ![h] = Append(l2[h], e)])
         /\ [l2 EXCEPT ![h] = Append(l2[h], e)] \in Lists
<1>1. PICK r : r = __list_del_entry(m, e)
  OBVIOUS
<1>2. PICK l2 : l2 = Without(l, e)
  OBVIOUS
<1>3. r \in Mem /\ RingInv(r, l2) /\ l2 \in Lists /\ OnNone(l2, e) /\ l2[h] # Stale
  BY <1>1, <1>2, UnlinkInv
<1>4. /\ list_add(r, e, h) \in Mem
      /\ RingInv(list_add(r, e, h), [l2 EXCEPT ![h] = <<e>> \o l2[h]])
      /\ [l2 EXCEPT ![h] = <<e>> \o l2[h]] \in Lists
      /\ list_add_tail(r, e, h) \in Mem
      /\ RingInv(list_add_tail(r, e, h), [l2 EXCEPT ![h] = Append(l2[h], e)])
      /\ [l2 EXCEPT ![h] = Append(l2[h], e)] \in Lists
  BY <1>3, HeadAdd
<1>5. QED
  BY <1>1, <1>2, <1>4 DEF list_move, list_move_tail
-----------------------------------------------------------------------------
(* The inductive invariant.  Between the two stores of __list_del the      *)
(* lists are rings but for one prev, which Settled puts back.              *)

Settled == IF del # NULL /\ del.step = 1 THEN Prev_(mem, mem.next[del.e], del.e) ELSE mem

DelInv ==
    del # NULL =>
        /\ del \in [e : Entries, step : 1..3] /\ it = NULL
        /\ del.step = 1 => ~OnNone(list, del.e) /\ PrevOf(mem, NextOf(mem, del.e)) = PrevOf(mem, del.e)
        /\ del.step # 1 => OnNone(list, del.e) /\ PrevOf(mem, del.e) # del.e
        /\ del.step = 3 => NextOf(mem, del.e) = del.e

(* list_empty_careful has read next; if it was the entry itself, it still  *)
(* is.                                                                     *)
ReadInv ==
    reader # NULL =>
        /\ reader \in [e : Entries, next : Nodes \cup {LIST_POISON1}, empty : BOOLEAN, done : BOOLEAN]
        /\ it = NULL
        /\ reader.next = reader.e => NextOf(mem, reader.e) = reader.e
        /\ reader.empty => /\ NextOf(mem, reader.e) = reader.e /\ PrevOf(mem, reader.e) = reader.e
                           /\ del # NULL => del.e # reader.e

(* A loop stands on its list w, in its own direction, at place p: it has   *)
(* met what was ahead of it but for what is in w from p on, and n is what  *)
(* follows.                                                                *)
Turned(s, back) == IF back THEN Reverse(s) ELSE s

Behind(seen, todo, w, p) ==
    /\ seen \in Seq(Entries) /\ todo \in Seq(Entries) /\ Distinct(todo)
    /\ Len(todo) = Len(seen) + (Len(w) + 1 - p)
    /\ \A i \in 1..Len(seen) : todo[i] = seen[i]
    /\ \A i \in p..Len(w) : todo[Len(seen) + 1 + i - p] = w[i]

Stands(loop, w, p) ==
    /\ loop.pos = R(loop.head, w, p)
    /\ loop.safe /\ p # Len(w) + 1 => loop.n = R(loop.head, w, p + 1)
    /\ Behind(loop.seen, loop.todo, w, p)

LoopInv ==
    it # NULL =>
        /\ it = [head |-> it.head, back |-> it.back, safe |-> it.safe, pos |-> it.pos,
                 n |-> it.n, seen |-> it.seen, todo |-> it.todo]
        /\ it.back \in BOOLEAN /\ it.safe \in BOOLEAN
        /\ it.head \in Heads /\ list[it.head] # Stale
        /\ \E p \in 1..(Len(list[it.head]) + 1) : Stands(it, Turned(list[it.head], it.back), p)

IInv ==
    /\ mem \in Mem
    /\ list \in Lists
    /\ RingInv(Settled, list)
    /\ DelInv
    /\ ReadInv
    /\ LoopInv

LEMMA Calm ==
  ASSUME IInv, del = NULL
  PROVE  mem \in Mem /\ list \in Lists /\ RingInv(mem, list)
BY DEF IInv, Settled

LEMMA QuietInv ==
  ASSUME Quiet, mem' \in Mem, list' \in Lists, RingInv(mem', list')
  PROVE  IInv'
<1>1. it' = NULL /\ del' = NULL /\ reader' = NULL
  BY DEF Quiet
<1>2. Settled' = mem'
  BY <1>1 DEF Settled
<1>3. RingInv(Settled', list')
  BY <1>2
<1>4. DelInv' /\ ReadInv' /\ LoopInv'
  BY <1>1 DEF DelInv, ReadInv, LoopInv
<1>5. QED
  BY <1>3, <1>4 DEF IInv

\* The words of the model in those of the proof
LEMMA Words ==
  ASSUME list \in Lists
  PROVE  /\ \A h \in Heads : h \in Live <=> list[h] # Stale
         /\ \A h : On(h) = ToSet(list[h])
         /\ \A e \in Entries : e \in Free <=> OnNone(list, e)
         /\ \A e \in Entries : e \in Linked <=> ~OnNone(list, e)
         /\ \A e \in Entries : Removed(e) = Without(list, e)
<1>1. \A h \in Heads : h \in Live <=> list[h] # Stale
  BY DEF Live
<1>2. \A h : On(h) = ToSet(list[h])
  BY DEF On
<1>3. \A e \in Entries : e \in Linked <=> ~OnNone(list, e)
  BY DEF Linked, Live, On, OnNone
<1>4. \A e \in Entries : e \in Free <=> OnNone(list, e)
  BY <1>3 DEF Free
<1>5. ASSUME NEW e \in Entries PROVE Removed(e) = Without(list, e)
  <2>1. \A h \in Heads : e # h
    BY EntriesApart
  <2>2. \A h \in Heads : Place(h, e) = At(list[h], e)
    BY <2>1 DEF Place, At
  <2>3. QED
    BY <1>1, <1>2, <2>2 DEF Removed, Without
<1>6. QED
  BY <1>1, <1>2, <1>3, <1>4, <1>5

LEMMA PlaceIs ==
  ASSUME list \in Lists, NEW h \in Heads, list[h] # Stale, NEW x \in On(h) \cup {h}
  PROVE  /\ Place(h, x) \in 0..Len(list[h]) /\ R(h, list[h], Place(h, x)) = x
         /\ x # h => Place(h, x) \in 1..Len(list[h]) /\ list[h][Place(h, x)] = x
         /\ x = h => Place(h, x) = 0
         /\ list[h] \in Seq(Entries) /\ Len(list[h]) \in Nat
<1>1. list[h] \in Seq(Entries) /\ Len(list[h]) \in Nat
  BY DEF Lists
<1>2. CASE x = h
  BY <1>1, <1>2 DEF Place, R
<1>3. CASE x # h
  <2>1. x \in ToSet(list[h])
    BY <1>3 DEF On
  <2>2. Place(h, x) = At(list[h], x)
    BY <1>3 DEF Place, At
  <2>3. Place(h, x) \in 1..Len(list[h]) /\ list[h][Place(h, x)] = x
    BY <1>1, <2>1, <2>2, AtIs
  <2>4. QED
    BY <1>1, <1>3, <2>3 DEF R
<1>4. QED
  BY <1>2, <1>3
-----------------------------------------------------------------------------
(* One lemma per operation *)

LEMMA StepListAdd ==
  ASSUME IInv, NEW h \in Heads, NEW x \in Nodes, NEW new \in Entries, ListAdd(h, x, new)
  PROVE  IInv'
<1>1. /\ Quiet /\ list[h] # Stale /\ x \in On(h) \cup {h} /\ OnNone(list, new)
      /\ mem \in Mem /\ list \in Lists /\ RingInv(mem, list)
  <2>1. del = NULL
    BY DEF ListAdd, Quiet
  <2>2. mem \in Mem /\ list \in Lists /\ RingInv(mem, list)
    BY <2>1, Calm
  <2>3. QED
    BY <2>2, Words DEF ListAdd
<1>2. PICK k : k = Place(h, x)
  OBVIOUS
<1>3. PICK s : s = list[h]
  OBVIOUS
<1>4. k \in 0..Len(s) /\ R(h, s, k) = x /\ s \in Seq(Entries)
  BY <1>1, <1>2, <1>3, PlaceIs
<1>5. Good(mem, h, s)
  BY <1>1, <1>3 DEF RingInv
<1>6. NextOf(mem, x) = R(h, s, k + 1)
  BY <1>4, <1>5, RingPlaces
<1>7. PICK t : t = InsertAt(s, k + 1, new)
  OBVIOUS
<1>8. Inserted(s, k, <<new>>, t)
  BY <1>4, <1>7, Insertions
<1>9. LET r == __list_add(mem, new, R(h, s, k), R(h, s, k + 1)) IN
      /\ r \in Mem /\ RingInv(r, [list EXCEPT ![h] = t]) /\ [list EXCEPT ![h] = t] \in Lists
  BY <1>1, <1>3, <1>4, <1>8, AddInv
<1>10. mem' = __list_add(mem, new, R(h, s, k), R(h, s, k + 1))
  BY <1>4, <1>6 DEF ListAdd, list_add, NextOf
<1>11. list' = [list EXCEPT ![h] = t]
  BY <1>2, <1>3, <1>7 DEF ListAdd
<1>12. QED
  BY <1>1, <1>9, <1>10, <1>11, QuietInv

LEMMA StepListAddTail ==
  ASSUME IInv, NEW h \in Heads, NEW x \in Nodes, NEW new \in Entries, ListAddTail(h, x, new)
  PROVE  IInv'
<1>1. /\ Quiet /\ list[h] # Stale /\ x \in On(h) \cup {h} /\ OnNone(list, new)
      /\ mem \in Mem /\ list \in Lists /\ RingInv(mem, list)
  <2>1. del = NULL
    BY DEF ListAddTail, Quiet
  <2>2. mem \in Mem /\ list \in Lists /\ RingInv(mem, list)
    BY <2>1, Calm
  <2>3. QED
    BY <2>2, Words DEF ListAddTail
<1>2. CASE x = h
  <2>1. /\ list_add_tail(mem, new, h) \in Mem
        /\ RingInv(list_add_tail(mem, new, h), [list EXCEPT ![h] = Append(list[h], new)])
        /\ [list EXCEPT ![h] = Append(list[h], new)] \in Lists
    BY <1>1, HeadAdd
  <2>2. mem' = list_add_tail(mem, new, h) /\ list' = [list EXCEPT ![h] = Append(list[h], new)]
    BY <1>2 DEF ListAddTail
  <2>3. QED
    BY <1>1, <2>1, <2>2, QuietInv
<1>3. CASE x # h
  <2>1. PICK s : s = list[h]
    OBVIOUS
  <2>2. PICK j : j = Place(h, x)
    OBVIOUS
  <2>3. j \in 1..Len(s) /\ s[j] = x /\ s \in Seq(Entries) /\ Len(s) \in Nat
    BY <1>1, <1>3, <2>1, <2>2, PlaceIs
  <2>4. PICK k \in 0..Len(s) : k = j - 1 /\ k + 1 = j
    BY <2>3
  <2>5. Good(mem, h, s) /\ R(h, s, k + 1) = x
    BY <1>1, <2>1, <2>3, <2>4 DEF RingInv, R
  <2>6. PrevOf(mem, x) = R(h, s, k)
    BY <2>5, RingPlaces
  <2>7. PICK t : t = InsertAt(s, k + 1, new)
    OBVIOUS
  <2>8. Inserted(s, k, <<new>>, t)
    BY <2>3, <2>7, Insertions
  <2>9. LET r == __list_add(mem, new, R(h, s, k), R(h, s, k + 1)) IN
        /\ r \in Mem /\ RingInv(r, [list EXCEPT ![h] = t]) /\ [list EXCEPT ![h] = t] \in Lists
    BY <1>1, <2>1, <2>8, AddInv
  <2>10. mem' = __list_add(mem, new, R(h, s, k), R(h, s, k + 1))
    BY <2>5, <2>6 DEF ListAddTail, list_add_tail, PrevOf
  <2>11. list' = [list EXCEPT ![h] = t]
    BY <1>3, <2>1, <2>2, <2>4, <2>7 DEF ListAddTail
  <2>12. QED
    BY <1>1, <2>9, <2>10, <2>11, QuietInv
<1>4. QED
  BY <1>2, <1>3

\* What the quiet operations begin from
LEMMA QuietBase ==
  ASSUME IInv, Quiet
  PROVE  /\ mem \in Mem /\ list \in Lists /\ RingInv(mem, list)
         /\ \A e \in Entries : (e \in Free => Alone(mem, e)) => Removable(mem, list, e)
<1>1. mem \in Mem /\ list \in Lists /\ RingInv(mem, list)
  BY Calm DEF Quiet
<1>2. \A e \in Entries : e \in Free <=> OnNone(list, e)
  BY <1>1, Words
<1>3. QED
  BY <1>1, <1>2 DEF Alone, Removable, NextOf, PrevOf

LEMMA StepDelete ==
  ASSUME IInv, NEW e \in Entries, ListDel(e) \/ ListDelInit(e)
  PROVE  IInv'
<1>1. Quiet /\ (e \in Free => Alone(mem, e)) /\ list' = Removed(e)
  BY DEF ListDel, ListDelInit
<1>2. mem \in Mem /\ list \in Lists /\ RingInv(mem, list) /\ Removable(mem, list, e)
  BY <1>1, QuietBase
<1>3. list' = Without(list, e) /\ Without(list, e) \in Lists
  BY <1>1, <1>2, Words, UnlinkInv
<1>4. /\ list_del(mem, e) \in Mem /\ RingInv(list_del(mem, e), Without(list, e))
      /\ list_del_init(mem, e) \in Mem /\ RingInv(list_del_init(mem, e), Without(list, e))
  BY <1>2, DeleteInv
<1>5. mem' = list_del(mem, e) \/ mem' = list_del_init(mem, e)
  BY DEF ListDel, ListDelInit
<1>6. mem' \in Mem /\ RingInv(mem', list') /\ list' \in Lists
  BY <1>3, <1>4, <1>5
<1>7. QED
  BY <1>1, <1>6, QuietInv

LEMMA StepMove ==
  ASSUME IInv, NEW e \in Entries, NEW h \in Heads, ListMove(e, h) \/ ListMoveTail(e, h)
  PROVE  IInv'
<1>1. Quiet /\ (e \in Free => Alone(mem, e)) /\ h \in Live
  BY DEF ListMove, ListMoveTail
<1>2. mem \in Mem /\ list \in Lists /\ RingInv(mem, list) /\ Removable(mem, list, e)
  BY <1>1, QuietBase
<1>3. Removed(e) = Without(list, e) /\ list[h] # Stale
  BY <1>1, <1>2, Words
<1>4. PICK l2 : l2 = Without(list, e)
  OBVIOUS
<1>5. /\ list_move(mem, e, h) \in Mem
      /\ RingInv(list_move(mem, e, h), [l2 EXCEPT ![h] = <<e>> \o l2[h]])
      /\ [l2 EXCEPT ![h] = <<e>> \o l2[h]] \in Lists
      /\ list_move_tail(mem, e, h) \in Mem
      /\ RingInv(list_move_tail(mem, e, h), [l2 EXCEPT ![h] = Append(l2[h], e)])
      /\ [l2 EXCEPT ![h] = Append(l2[h], e)] \in Lists
  BY <1>2, <1>3, <1>4, MoveInv
<1>6. CASE ListMove(e, h)
  <2>1. mem' = list_move(mem, e, h) /\ list' = [l2 EXCEPT ![h] = <<e>> \o l2[h]]
    BY <1>3, <1>4, <1>6 DEF ListMove
  <2>2. QED
    BY <1>1, <1>5, <2>1, QuietInv
<1>7. CASE ListMoveTail(e, h)
  <2>1. mem' = list_move_tail(mem, e, h) /\ list' = [l2 EXCEPT ![h] = Append(l2[h], e)]
    BY <1>3, <1>4, <1>7 DEF ListMoveTail
  <2>2. QED
    BY <1>1, <1>5, <2>1, QuietInv
<1>8. QED
  BY <1>6, <1>7

LEMMA StepRotate ==
  ASSUME IInv, NEW h \in Heads, ListRotateLeft(h)
  PROVE  IInv'
<1>1. Quiet /\ h \in Live
  BY DEF ListRotateLeft
<1>2. mem \in Mem /\ list \in Lists /\ RingInv(mem, list) /\ list[h] # Stale
  BY <1>1, QuietBase, Words
<1>3. PICK s : s = list[h]
  OBVIOUS
<1>4. Good(mem, h, s) /\ s \in Seq(Entries) /\ Len(s) \in Nat
  BY <1>2, <1>3 DEF RingInv, Good
<1>5. CASE Len(s) = 0
  <2>1. NextOf(mem, h) = h /\ s = <<>>
    BY <1>4, <1>5, HeadPlaces
  <2>2. mem' = mem
    BY <2>1 DEF ListRotateLeft, list_empty, NextOf
  <2>3. list' = list
    BY <1>2, <1>3, <2>1 DEF ListRotateLeft, Lists
  <2>4. QED
    BY <1>1, <1>2, <2>2, <2>3, QuietInv
<1>6. CASE Len(s) # 0
  <2>1. PICK e : e = s[1]
    OBVIOUS
  <2>2. NextOf(mem, h) = e /\ e \in ToSet(s) /\ NextOf(mem, h) # h
    BY <1>4, <1>6, <2>1, HeadPlaces
  <2>3. e \in Entries /\ ~OnNone(list, e)
    BY <1>2, <1>3, <1>4, <2>2, Members DEF OnNone
  <2>4. Removable(mem, list, e)
    BY <2>3 DEF Removable
  <2>5. PICK l2 : l2 = Without(list, e)
    OBVIOUS
  <2>6. /\ list_move_tail(mem, e, h) \in Mem
        /\ RingInv(list_move_tail(mem, e, h), [l2 EXCEPT ![h] = Append(l2[h], e)])
        /\ [l2 EXCEPT ![h] = Append(l2[h], e)] \in Lists
    BY <1>2, <2>3, <2>4, <2>5, MoveInv
  <2>7. mem' = list_move_tail(mem, e, h)
    BY <2>2 DEF ListRotateLeft, list_empty, NextOf
  <2>8. l2 = [list EXCEPT ![h] = Tail(s)]
    <3>1. \A g \in Heads \ {h} : list[g] # Stale => e \notin ToSet(list[g])
      BY <1>2, <1>3, <2>2 DEF RingInv
    <3>2. At(s, e) = 1
      <4>1. At(s, e) \in 1..Len(s) /\ s[At(s, e)] = s[1] /\ 1 \in 1..Len(s)
        BY <1>4, <1>6, <2>1, <2>2, AtIs
      <4>2. QED
        BY <4>1, <1>4 DEF Good, Distinct
    <3>3. RemoveAt(s, 1) = Tail(s)
      <4>1. Dropped(s, 1, RemoveAt(s, 1)) /\ Dropped(s, 1, Tail(s))
        BY <1>4, <1>6, Removals
      <4>2. PICK a : a = RemoveAt(s, 1)
        OBVIOUS
      <4>3. PICK b : b = Tail(s)
        OBVIOUS
      <4>4. a \in Seq(Entries) /\ b \in Seq(Entries) /\ Len(a) = Len(b)
        BY <4>1, <4>2, <4>3 DEF Dropped
      <4>5. \A i \in 1..Len(a) : a[i] = b[i]
        BY <4>1, <4>2, <4>3, <4>4 DEF Dropped
      <4>6. a = b
        BY <4>4, <4>5
      <4>7. QED
        BY <4>2, <4>3, <4>6
    <3>4. QED
      BY <1>2, <1>3, <2>2, <2>5, <3>1, <3>2, <3>3 DEF Without, Lists
  <2>9. list' = [l2 EXCEPT ![h] = Append(l2[h], e)]
    <3>1. s # <<>> /\ Head(s) = e
      BY <1>4, <1>6, <2>1
    <3>2. list' = [list EXCEPT ![h] = Append(Tail(s), e)]
      BY <1>3, <3>1 DEF ListRotateLeft
    <3>3. l2[h] = Tail(s)
      BY <2>8, <1>2 DEF Lists
    <3>4. QED
      BY <2>8, <3>2, <3>3, <1>2 DEF Lists
  <2>10. QED
    BY <1>1, <2>6, <2>7, <2>9, QuietInv
<1>7. QED
  BY <1>5, <1>6

LEMMA StepInitHead ==
  ASSUME IInv, NEW h \in Heads, InitListHead(h)
  PROVE  IInv'
<1>1. Quiet /\ list[h] = Stale /\ mem' = INIT_LIST_HEAD(mem, h) /\ list' = [list EXCEPT ![h] = <<>>]
  BY DEF InitListHead
<1>2. mem \in Mem /\ list \in Lists /\ RingInv(mem, list)
  BY <1>1, QuietBase
<1>3. QED
  BY <1>1, <1>2, HeadInv, QuietInv

LEMMA StepReplace ==
  ASSUME IInv, NEW h \in Heads, NEW old \in Entries, NEW new \in Entries, NEW init \in BOOLEAN,
         ListReplace(h, old, new, init)
  PROVE  IInv'
<1>1. Quiet /\ h \in Live /\ old \in On(h) /\ new \in Free
  BY DEF ListReplace
<1>2. /\ mem \in Mem /\ list \in Lists /\ RingInv(mem, list)
      /\ list[h] # Stale /\ old \in ToSet(list[h]) /\ OnNone(list, new)
  BY <1>1, QuietBase, Words
<1>3. PICK k : k = At(list[h], old)
  OBVIOUS
<1>4. k \in 1..Len(list[h]) /\ old = list[h][k]
  BY <1>2, <1>3, AtIs, ListTypes
<1>5. PICK r : r = list_replace(mem, old, new)
  OBVIOUS
<1>6. PICK l2 : l2 = [list EXCEPT ![h] = ReplaceAll(list[h], old, new)]
  OBVIOUS
<1>7. r \in Mem /\ RingInv(r, l2) /\ l2 \in Lists /\ OnNone(l2, old)
  BY <1>2, <1>4, <1>5, <1>6, ReplaceInv
<1>8. list' = l2
  BY <1>6 DEF ListReplace
<1>9. CASE init
  <2>1. PICK i : i = INIT_LIST_HEAD(r, old)
    OBVIOUS
  <2>2. old \in Nodes
    BY EntriesApart
  <2>3. i \in Mem /\ \A x \in Nodes : x # old => Same(r, i, x)
    BY <1>7, <2>1, <2>2, InitStores DEF Same
  <2>4. RingInv(i, l2)
    BY <1>7, <2>3, OffInv
  <2>5. mem' = i
    BY <1>5, <1>9, <2>1 DEF ListReplace
  <2>6. QED
    BY <1>1, <1>7, <1>8, <2>3, <2>4, <2>5, QuietInv
<1>10. CASE ~init
  <2>1. mem' = r
    BY <1>5, <1>10 DEF ListReplace
  <2>2. QED
    BY <1>1, <1>7, <1>8, <2>1, QuietInv
<1>11. QED
  BY <1>9, <1>10

LEMMA StepReplaceHead ==
  ASSUME IInv, NEW old \in Heads, NEW new \in Heads, NEW init \in BOOLEAN, ListReplaceHead(old, new, init)
  PROVE  IInv'
<1>1. Quiet /\ old \in Live /\ new # old /\ list[new] \in {Stale, <<>>}
  BY DEF ListReplaceHead
<1>2. /\ mem \in Mem /\ list \in Lists /\ RingInv(mem, list)
      /\ list[old] # Stale /\ (list[new] = Stale \/ Len(list[new]) = 0)
  BY <1>1, QuietBase, Words
<1>3. PICK r : r = list_replace(mem, old, new)
  OBVIOUS
<1>4. PICK l2 : l2 = [list EXCEPT ![new] = list[old], ![old] = Stale]
  OBVIOUS
<1>5. r \in Mem /\ RingInv(r, l2) /\ l2 \in Lists
  BY <1>1, <1>2, <1>3, <1>4, RehangInv
<1>6. CASE init
  <2>1. INIT_LIST_HEAD(r, old) \in Mem /\ RingInv(INIT_LIST_HEAD(r, old), [l2 EXCEPT ![old] = <<>>])
        /\ [l2 EXCEPT ![old] = <<>>] \in Lists
    BY <1>5, HeadInv
  <2>2. list' = [l2 EXCEPT ![old] = <<>>]
    BY <1>2, <1>4, <1>6 DEF ListReplaceHead, Lists
  <2>3. mem' = INIT_LIST_HEAD(r, old)
    BY <1>3, <1>6 DEF ListReplaceHead
  <2>4. QED
    BY <1>1, <2>1, <2>2, <2>3, QuietInv
<1>7. CASE ~init
  <2>1. mem' = r /\ list' = l2
    BY <1>3, <1>4, <1>7 DEF ListReplaceHead
  <2>2. QED
    BY <1>1, <1>5, <2>1, QuietInv
<1>8. QED
  BY <1>6, <1>7

LEMMA StepCut ==
  ASSUME IInv, NEW l \in Heads, NEW h \in Heads, NEW x \in Nodes, ListCutPosition(l, h, x)
  PROVE  IInv'
<1>1. Quiet /\ h \in Live /\ l # h /\ x \in On(h) \cup {h}
  BY DEF ListCutPosition
<1>2. mem \in Mem /\ list \in Lists /\ RingInv(mem, list) /\ list[h] # Stale
  BY <1>1, QuietBase, Words
<1>3. PICK s : s = list[h]
  OBVIOUS
<1>4. Good(mem, h, s) /\ s \in Seq(Entries) /\ Len(s) \in Nat /\ Distinct(s)
  BY <1>2, <1>3 DEF RingInv, Good
<1>5. PICK k : k = Place(h, x)
  OBVIOUS
<1>6. /\ k \in 0..Len(s)
      /\ x # h => k \in 1..Len(s) /\ s[k] = x
      /\ x = h => k = 0
  BY <1>1, <1>2, <1>3, <1>5, PlaceIs
<1>7. CASE Len(s) = 0
  <2>1. NextOf(mem, h) = h /\ s = <<>>
    BY <1>4, <1>7, HeadPlaces
  <2>2. mem' = mem /\ list' = list
    BY <1>3, <2>1 DEF ListCutPosition, list_cut_position, list_empty, NextOf
  <2>3. QED
    BY <1>1, <1>2, <2>2, QuietInv
<1>8. CASE Len(s) # 0
  <2>1. NextOf(mem, h) = s[1] /\ PrevOf(mem, h) = s[Len(s)] /\ NextOf(mem, h) # h /\ s # <<>>
    BY <1>4, <1>8, HeadPlaces
  <2>2. ~list_empty(mem, h)
    BY <2>1 DEF list_empty, NextOf
  <2>3. ~(list_is_singular(mem, h) /\ mem.next[h] # x /\ h # x)
    <3>1. SUFFICES ASSUME list_is_singular(mem, h), h # x PROVE mem.next[h] = x
      OBVIOUS
    <3>2. s[1] = s[Len(s)]
      BY <2>1, <3>1 DEF list_is_singular, NextOf, PrevOf
    <3>3. 1 \in 1..Len(s) /\ Len(s) \in 1..Len(s)
      BY <1>4, <1>8
    <3>4. Len(s) = 1
      BY <3>2, <3>3, <1>4 DEF Distinct
    <3>5. k = 1 /\ s[1] = x
      BY <1>6, <3>1, <3>4
    <3>6. QED
      BY <2>1, <3>5 DEF NextOf
  <2>4. list' = [list EXCEPT ![l] = SubSeq(s, 1, k), ![h] = SubSeq(s, k + 1, Len(s))]
    BY <1>3, <1>5, <2>1 DEF ListCutPosition, UpTo, After
  <2>5. CASE x = h
    <3>1. mem' = INIT_LIST_HEAD(mem, l)
      BY <2>2, <2>3, <2>5 DEF ListCutPosition, list_cut_position
    <3>2. k = 0 /\ SubSeq(s, 1, 0) = <<>> /\ SubSeq(s, 0 + 1, Len(s)) = s
      BY <1>4, <1>6, <2>5
    <3>3. list' = [list EXCEPT ![l] = <<>>]
      BY <1>1, <1>2, <1>3, <2>4, <3>2 DEF Lists
    <3>4. INIT_LIST_HEAD(mem, l) \in Mem /\ RingInv(INIT_LIST_HEAD(mem, l), [list EXCEPT ![l] = <<>>])
          /\ [list EXCEPT ![l] = <<>>] \in Lists
      BY <1>2, HeadInv
    <3>5. QED
      BY <1>1, <3>1, <3>3, <3>4, QuietInv
  <2>6. CASE x # h
    <3>1. mem' = __list_cut_position(mem, l, h, x)
      BY <2>2, <2>3, <2>6 DEF ListCutPosition, list_cut_position
    <3>2. k \in 1..Len(list[h]) /\ x = list[h][k]
      BY <1>3, <1>6, <2>6
    <3>3. LET r == __list_cut_position(mem, l, h, x)
              l2 == [list EXCEPT ![l] = SubSeq(list[h], 1, k), ![h] = SubSeq(list[h], k + 1, Len(list[h]))]
          IN  r \in Mem /\ RingInv(r, l2) /\ l2 \in Lists
      BY <1>1, <1>2, <3>2, CutInv
    <3>4. QED
      BY <1>1, <1>3, <2>4, <3>1, <3>3, QuietInv
  <2>7. QED
    BY <2>5, <2>6
<1>9. QED
  BY <1>7, <1>8

LEMMA StepSplice ==
  ASSUME IInv, NEW l \in Heads, NEW h \in Heads, NEW tail \in BOOLEAN, NEW init \in BOOLEAN,
         ListSplice(l, h, tail, init)
  PROVE  IInv'
<1>1. Quiet /\ l \in Live /\ h \in Live /\ l # h
  BY DEF ListSplice
<1>2. mem \in Mem /\ list \in Lists /\ RingInv(mem, list) /\ list[h] # Stale /\ list[l] # Stale
  BY <1>1, QuietBase, Words
<1>3. PICK s : s = list[h]
  OBVIOUS
<1>4. PICK u : u = list[l]
  OBVIOUS
<1>5. Good(mem, h, s) /\ s \in Seq(Entries) /\ Len(s) \in Nat
  BY <1>2, <1>3 DEF RingInv, Good
<1>6. Good(mem, l, u) /\ u \in Seq(Entries) /\ Len(u) \in Nat
  BY <1>2, <1>4 DEF RingInv, Good
<1>7. CASE Len(u) = 0
  <2>1. NextOf(mem, l) = l
    BY <1>6, <1>7, HeadPlaces
  <2>2. mem' = mem /\ list' = list
    BY <2>1 DEF ListSplice, list_empty, NextOf
  <2>3. QED
    BY <1>1, <1>2, <2>2, QuietInv
<1>8. CASE Len(u) # 0
  <2>1. ~list_empty(mem, l)
    BY <1>6, <1>8, HeadPlaces DEF list_empty, NextOf
  <2>2. PICK k : k = IF tail THEN Len(s) ELSE 0
    OBVIOUS
  <2>3. PICK t : t = IF tail THEN s \o u ELSE u \o s
    OBVIOUS
  <2>4. k \in 0..Len(s) /\ Inserted(s, k, u, t)
    BY <1>5, <1>6, <2>2, <2>3, Joins
  <2>5. PICK r : r = __list_splice(mem, l, R(h, s, k), R(h, s, k + 1))
    OBVIOUS
  <2>6. PICK l2 : l2 = [list EXCEPT ![h] = t, ![l] = Stale]
    OBVIOUS
  <2>7. r \in Mem /\ RingInv(r, l2) /\ l2 \in Lists
    BY <1>1, <1>2, <1>3, <1>4, <1>8, <2>4, <2>5, <2>6, SpliceInv
  <2>8. r = IF tail THEN __list_splice(mem, l, mem.prev[h], h) ELSE __list_splice(mem, l, h, mem.next[h])
    <3>1. NextOf(mem, h) = R(h, s, 1) /\ PrevOf(mem, h) = R(h, s, Len(s))
      BY <1>5, HeadPlaces
    <3>2. R(h, s, 0) = h /\ R(h, s, Len(s) + 1) = h /\ 0 + 1 = 1
      BY <1>5 DEF R
    <3>3. QED
      BY <2>2, <2>5, <3>1, <3>2 DEF NextOf, PrevOf
  <2>9. CASE init
    <3>1. mem' = INIT_LIST_HEAD(r, l)
      BY <2>1, <2>8, <2>9 DEF ListSplice
    <3>2. list' = [list EXCEPT ![h] = t, ![l] = <<>>]
      BY <1>3, <1>4, <2>1, <2>3, <2>9 DEF ListSplice
    <3>3. list' = [l2 EXCEPT ![l] = <<>>]
      BY <1>2, <2>6, <3>2 DEF Lists
    <3>4. INIT_LIST_HEAD(r, l) \in Mem /\ RingInv(INIT_LIST_HEAD(r, l), [l2 EXCEPT ![l] = <<>>])
          /\ [l2 EXCEPT ![l] = <<>>] \in Lists
      BY <2>7, HeadInv
    <3>5. QED
      BY <1>1, <3>1, <3>3, <3>4, QuietInv
  <2>10. CASE ~init
    <3>1. mem' = r
      BY <2>1, <2>8, <2>10 DEF ListSplice
    <3>2. list' = l2
      BY <1>3, <1>4, <2>1, <2>3, <2>6, <2>10 DEF ListSplice
    <3>3. QED
      BY <1>1, <2>7, <3>1, <3>2, QuietInv
  <2>11. QED
    BY <2>9, <2>10
<1>9. QED
  BY <1>7, <1>8
-----------------------------------------------------------------------------
(* The loops.  Passed: a loop on w that has run its body at place p finds  *)
(* what was ahead of it in w2 from p2 on.                                  *)

Passed(w, p, w2, p2) ==
    /\ w2 \in Seq(Entries) /\ p2 \in 1..(Len(w2) + 1)
    /\ Len(w2) + 1 - p2 = Len(w) - p
    /\ \A i \in (p + 1)..Len(w) : w2[(i - (p + 1)) + p2] = w[i]

LEMMA Turns ==
  ASSUME NEW s \in Seq(Entries), NEW back \in BOOLEAN
  PROVE  /\ Turned(s, back) \in Seq(Entries) /\ Len(Turned(s, back)) = Len(s)
         /\ \A i \in 1..Len(s) : Turned(s, back)[i] = IF back THEN s[Len(s) + 1 - i] ELSE s[i]
<1>1. Len(s) \in Nat /\ \A i \in 1..Len(s) : (Len(s) - i) + 1 \in 1..Len(s) /\ (Len(s) - i) + 1 = Len(s) + 1 - i
  OBVIOUS
<1>2. CASE back
  <2>1. Turned(s, back) = [i \in 1..Len(s) |-> s[(Len(s) - i) + 1]]
    BY <1>2 DEF Turned, Reverse
  <2>2. \A i \in 1..Len(s) : s[(Len(s) - i) + 1] \in Entries
    BY <1>1
  <2>3. PICK w : w = Turned(s, back)
    OBVIOUS
  <2>4. w \in Seq(Entries) /\ Len(w) = Len(s)
    BY <1>1, <2>1, <2>2, <2>3
  <2>5. \A i \in 1..Len(s) : w[i] = s[Len(s) + 1 - i]
    BY <1>1, <2>1, <2>3
  <2>6. QED
    BY <1>2, <2>3, <2>4, <2>5
<1>3. CASE ~back
  BY <1>3 DEF Turned
<1>4. QED
  BY <1>2, <1>3

LEMMA TurnedDistinct ==
  ASSUME NEW s \in Seq(Entries), Distinct(s), NEW back \in BOOLEAN
  PROVE  Distinct(Turned(s, back))
<1>1. PICK w : w = Turned(s, back)
  OBVIOUS
<1>2. Len(s) \in Nat /\ Len(w) = Len(s) /\ \A i \in 1..Len(s) : w[i] = IF back THEN s[Len(s) + 1 - i] ELSE s[i]
  BY <1>1, Turns
<1>3. ASSUME NEW i \in 1..Len(w), NEW j \in 1..Len(w), w[i] = w[j] PROVE i = j
  <2>1. CASE back
    <3>1. Len(s) + 1 - i \in 1..Len(s) /\ Len(s) + 1 - j \in 1..Len(s)
      BY <1>2
    <3>2. s[Len(s) + 1 - i] = s[Len(s) + 1 - j]
      BY <1>2, <1>3, <2>1
    <3>3. Len(s) + 1 - i = Len(s) + 1 - j
      BY <3>1, <3>2 DEF Distinct
    <3>4. QED
      BY <3>3, <1>2
  <2>2. CASE ~back
    BY <2>2, <1>2, <1>3 DEF Distinct
  <2>3. QED
    BY <2>1, <2>2
<1>4. QED
  BY <1>1, <1>3 DEF Distinct

LEMMA Directions ==
  ASSUME NEW m, NEW h \in Heads, NEW s, Good(m, h, s), NEW back \in BOOLEAN, NEW p \in 0..Len(s)
  PROVE  Step(m, back, R(h, Turned(s, back), p)) = R(h, Turned(s, back), p + 1)
<1>1. s \in Seq(Entries) /\ Len(s) \in Nat
  BY DEF Good
<1>2. CASE back
  <2>1. PICK w : w = Turned(s, back)
    OBVIOUS
  <2>2. Len(w) = Len(s) /\ \A i \in 1..Len(s) : w[i] = s[Len(s) + 1 - i]
    BY <1>1, <1>2, <2>1, Turns
  <2>3. ASSUME NEW i \in 0..(Len(s) + 1) PROVE R(h, w, i) = R(h, s, Len(s) + 1 - i)
    BY <1>1, <2>2 DEF R
  <2>4. PICK q \in 0..Len(s) : q = Len(s) - p
    BY <1>1
  <2>5. PrevOf(m, R(h, s, q + 1)) = R(h, s, q)
    BY RingPlaces
  <2>6. p \in 0..(Len(s) + 1) /\ p + 1 \in 0..(Len(s) + 1) /\ Len(s) + 1 - p = q + 1 /\ Len(s) + 1 - (p + 1) = q
    BY <1>1, <2>4
  <2>7. R(h, w, p) = R(h, s, q + 1) /\ R(h, w, p + 1) = R(h, s, q)
    BY <2>3, <2>6
  <2>8. QED
    BY <1>2, <2>1, <2>5, <2>7 DEF Step, PrevOf
<1>3. CASE ~back
  <2>1. NextOf(m, R(h, s, p)) = R(h, s, p + 1)
    BY RingPlaces
  <2>2. QED
    BY <1>3, <2>1 DEF Step, NextOf, Turned
<1>4. QED
  BY <1>2, <1>3

LEMMA PassNone ==
  ASSUME NEW w \in Seq(Entries), NEW p \in 1..Len(w)
  PROVE  Passed(w, p, w, p + 1)
<1>1. Len(w) \in Nat /\ p + 1 \in 1..(Len(w) + 1) /\ Len(w) + 1 - (p + 1) = Len(w) - p
  OBVIOUS
<1>2. \A i \in (p + 1)..Len(w) : (i - (p + 1)) + (p + 1) = i
  BY <1>1
<1>3. QED
  BY <1>1, <1>2 DEF Passed

LEMMA PassDrop ==
  ASSUME NEW s \in Seq(Entries), NEW back \in BOOLEAN, NEW k \in 1..Len(s), NEW p,
         p = IF back THEN Len(s) + 1 - k ELSE k, NEW t, Dropped(s, k, t)
  PROVE  Passed(Turned(s, back), p, Turned(t, back), p)
<1>1. t \in Seq(Entries) /\ Len(t) = Len(s) - 1 /\ Len(s) \in Nat /\ Len(t) \in Nat
  BY DEF Dropped
<1>2. PICK w : w = Turned(s, back)
  OBVIOUS
<1>3. PICK v : v = Turned(t, back)
  OBVIOUS
<1>4. w \in Seq(Entries) /\ Len(w) = Len(s) /\ \A i \in 1..Len(s) : w[i] = IF back THEN s[Len(s) + 1 - i] ELSE s[i]
  BY <1>2, Turns
<1>5. v \in Seq(Entries) /\ Len(v) = Len(t) /\ \A i \in 1..Len(t) : v[i] = IF back THEN t[Len(t) + 1 - i] ELSE t[i]
  BY <1>1, <1>3, Turns
<1>6. p \in 1..Len(s) /\ p \in 1..(Len(v) + 1) /\ Len(v) + 1 - p = Len(w) - p
  BY <1>1, <1>4, <1>5
<1>7. ASSUME NEW i \in (p + 1)..Len(w) PROVE v[(i - (p + 1)) + p] = w[i]
  <2>1. (i - (p + 1)) + p = i - 1 /\ i - 1 \in 1..Len(t) /\ i \in 1..Len(s) /\ i - 1 >= p
    BY <1>1, <1>4, <1>6
  <2>2. CASE back
    <3>1. v[i - 1] = t[Len(t) + 1 - (i - 1)] /\ w[i] = s[Len(s) + 1 - i]
      BY <1>4, <1>5, <2>1, <2>2
    <3>2. Len(t) + 1 - (i - 1) = Len(s) + 1 - i /\ Len(s) + 1 - i \in 1..(k - 1)
      BY <1>1, <1>6, <2>1, <2>2
    <3>3. t[Len(s) + 1 - i] = s[Len(s) + 1 - i]
      BY <3>2 DEF Dropped
    <3>4. QED
      BY <2>1, <3>1, <3>2, <3>3
  <2>3. CASE ~back
    <3>1. v[i - 1] = t[i - 1] /\ w[i] = s[i]
      BY <1>4, <1>5, <2>1, <2>3
    <3>2. i - 1 \in k..Len(t) /\ (i - 1) + 1 = i
      BY <2>1, <2>3, <1>1
    <3>3. t[i - 1] = s[(i - 1) + 1]
      BY <3>2 DEF Dropped
    <3>4. QED
      BY <2>1, <3>1, <3>2, <3>3
  <2>4. QED
    BY <2>2, <2>3
<1>8. QED
  BY <1>2, <1>3, <1>5, <1>6, <1>7 DEF Passed

\* What is put at the end that the loop has left behind is not ahead of it
LEMMA PassPush ==
  ASSUME NEW w \in Seq(Entries), NEW p \in 1..Len(w), NEW t \in Seq(Entries), NEW back \in BOOLEAN,
         Passed(w, p, Turned(t, back), p), NEW e \in Entries
  PROVE  Passed(w, p, Turned(IF back THEN Append(t, e) ELSE <<e>> \o t, back), p + 1)
<1>1. PICK u : u = IF back THEN Append(t, e) ELSE <<e>> \o t
  OBVIOUS
<1>2. PICK v : v = Turned(t, back)
  OBVIOUS
<1>3. PICK x : x = Turned(u, back)
  OBVIOUS
<1>4. u \in Seq(Entries) /\ Len(u) = Len(t) + 1 /\ Len(t) \in Nat /\ Len(w) \in Nat
  BY <1>1
<1>5. v \in Seq(Entries) /\ Len(v) = Len(t) /\ \A i \in 1..Len(t) : v[i] = IF back THEN t[Len(t) + 1 - i] ELSE t[i]
  BY <1>2, Turns
<1>6. x \in Seq(Entries) /\ Len(x) = Len(u) /\ \A i \in 1..Len(u) : x[i] = IF back THEN u[Len(u) + 1 - i] ELSE u[i]
  BY <1>3, <1>4, Turns
<1>7. ASSUME NEW i \in 1..Len(t) PROVE x[i + 1] = v[i]
  <2>1. i + 1 \in 1..Len(u)
    BY <1>4
  <2>2. CASE back
    <3>1. x[i + 1] = u[Len(u) + 1 - (i + 1)] /\ v[i] = t[Len(t) + 1 - i]
      BY <1>5, <1>6, <2>1, <2>2
    <3>2. Len(u) + 1 - (i + 1) = Len(t) + 1 - i /\ Len(t) + 1 - i \in 1..Len(t)
      BY <1>4
    <3>3. \A j \in 1..Len(t) : u[j] = t[j]
      BY <1>1, <2>2
    <3>4. QED
      BY <3>1, <3>2, <3>3
  <2>3. CASE ~back
    <3>1. x[i + 1] = u[i + 1] /\ v[i] = t[i]
      BY <1>5, <1>6, <2>1, <2>3
    <3>2. Inserted(t, 0, <<e>>, u)
      BY <1>1, <2>3, Insertions
    <3>3. i \in (0 + 1)..Len(t) /\ Len(<<e>>) = 1
      OBVIOUS
    <3>4. u[i + 1] = t[i]
      BY <3>2, <3>3 DEF Inserted
    <3>5. QED
      BY <3>1, <3>4
  <2>4. QED
    BY <2>2, <2>3
<1>8. /\ p \in 1..(Len(v) + 1) /\ Len(v) + 1 - p = Len(w) - p
      /\ \A i \in (p + 1)..Len(w) : v[(i - (p + 1)) + p] = w[i]
  BY <1>2 DEF Passed
<1>9. p + 1 \in 1..(Len(x) + 1) /\ Len(x) + 1 - (p + 1) = Len(w) - p
  BY <1>4, <1>5, <1>6, <1>8
<1>10. ASSUME NEW i \in (p + 1)..Len(w) PROVE x[(i - (p + 1)) + (p + 1)] = w[i]
  <2>1. (i - (p + 1)) + (p + 1) = i /\ (i - (p + 1)) + p = i - 1 /\ i - 1 \in 1..Len(t) /\ (i - 1) + 1 = i
    BY <1>4, <1>5, <1>8
  <2>2. v[i - 1] = w[i] /\ x[(i - 1) + 1] = v[i - 1]
    BY <1>7, <1>8, <2>1
  <2>3. QED
    BY <2>1, <2>2
<1>11. QED
  BY <1>1, <1>3, <1>6, <1>9, <1>10 DEF Passed

LEMMA Advancing ==
  ASSUME NEW h, NEW w \in Seq(Entries), NEW p \in 1..Len(w), NEW w2, NEW p2, Passed(w, p, w2, p2),
         NEW seen, NEW todo, Behind(seen, todo, w, p)
  PROVE  Behind(Append(seen, w[p]), todo, w2, p2) /\ R(h, w2, p2) = R(h, w, p + 1)
<1>1. /\ w2 \in Seq(Entries) /\ Len(w) \in Nat /\ Len(w2) \in Nat /\ p2 \in 1..(Len(w2) + 1)
      /\ Len(w2) + 1 - p2 = Len(w) - p /\ w[p] \in Entries
  BY DEF Passed
<1>2. /\ seen \in Seq(Entries) /\ todo \in Seq(Entries) /\ Distinct(todo) /\ Len(seen) \in Nat
      /\ Len(todo) = Len(seen) + (Len(w) + 1 - p)
  BY DEF Behind
<1>3. PICK a : a = Append(seen, w[p])
  OBVIOUS
<1>4. /\ a \in Seq(Entries) /\ Len(a) = Len(seen) + 1 /\ a[Len(seen) + 1] = w[p]
      /\ \A i \in 1..Len(seen) : a[i] = seen[i]
  BY <1>1, <1>2, <1>3
<1>5. Len(todo) = Len(a) + (Len(w2) + 1 - p2)
  BY <1>1, <1>2, <1>4
<1>6. \A i \in p..Len(w) : todo[Len(seen) + 1 + i - p] = w[i]
  BY DEF Behind
<1>7. ASSUME NEW i \in 1..Len(a) PROVE todo[i] = a[i]
  <2>1. CASE i \in 1..Len(seen)
    BY <2>1, <1>4 DEF Behind
  <2>2. CASE i = Len(seen) + 1
    <3>1. p \in p..Len(w) /\ Len(seen) + 1 + p - p = Len(seen) + 1
      BY <1>1, <1>2
    <3>2. QED
      BY <2>2, <3>1, <1>4, <1>6
  <2>3. QED
    BY <2>1, <2>2, <1>2, <1>4
<1>8. ASSUME NEW i \in p2..Len(w2) PROVE todo[Len(a) + 1 + i - p2] = w2[i]
  <2>1. PICK j \in (p + 1)..Len(w) : j = (i - p2) + (p + 1)
    BY <1>1
  <2>2. (j - (p + 1)) + p2 = i /\ Len(a) + 1 + i - p2 = Len(seen) + 1 + j - p /\ j \in p..Len(w)
    BY <1>1, <1>2, <1>4, <2>1
  <2>3. w2[(j - (p + 1)) + p2] = w[j]
    BY DEF Passed
  <2>4. todo[Len(seen) + 1 + j - p] = w[j]
    BY <1>6, <2>2
  <2>5. QED
    BY <2>2, <2>3, <2>4
<1>9. R(h, w2, p2) = R(h, w, p + 1)
  <2>1. CASE p = Len(w)
    BY <2>1, <1>1 DEF R
  <2>2. CASE p # Len(w)
    <3>1. p + 1 \in (p + 1)..Len(w) /\ ((p + 1) - (p + 1)) + p2 = p2 /\ p2 \in 1..Len(w2) /\ p + 1 \in 1..Len(w)
      BY <2>2, <1>1
    <3>2. w2[((p + 1) - (p + 1)) + p2] = w[p + 1]
      BY <3>1 DEF Passed
    <3>3. QED
      BY <3>1, <3>2 DEF R
  <2>3. QED
    BY <2>1, <2>2
<1>10. QED
  BY <1>2, <1>3, <1>4, <1>5, <1>7, <1>8, <1>9 DEF Behind

LEMMA LoopBase ==
  ASSUME IInv, it # NULL
  PROVE  del = NULL /\ reader = NULL /\ mem \in Mem /\ list \in Lists /\ RingInv(mem, list) /\ LoopInv
<1>1. del = NULL /\ reader = NULL
  BY DEF IInv, DelInv, ReadInv
<1>2. QED
  BY <1>1, Calm DEF IInv

LEMMA LoopDone ==
  ASSUME del' = NULL, reader' = NULL, mem' \in Mem, list' \in Lists, RingInv(mem', list'), LoopInv'
  PROVE  IInv'
<1>1. Settled' = mem'
  BY DEF Settled
<1>2. RingInv(Settled', list')
  BY <1>1
<1>3. DelInv' /\ ReadInv'
  BY DEF DelInv, ReadInv
<1>4. QED
  BY <1>2, <1>3 DEF IInv

\* A loop as a record of its parts
Loops(h, back, safe, pos, n, seen, todo) ==
    [head |-> h, back |-> back, safe |-> safe, pos |-> pos, n |-> n, seen |-> seen, todo |-> todo]

LEMMA LoopParts ==
  ASSUME LoopInv, it # NULL
  PROVE  \E h \in Heads, back \in BOOLEAN, safe \in BOOLEAN : \E pos, n, seen, todo :
            /\ it = Loops(h, back, safe, pos, n, seen, todo) /\ list[h] # Stale
            /\ \E p \in 1..(Len(list[h]) + 1) :
                  /\ pos = R(h, Turned(list[h], back), p)
                  /\ safe /\ p # Len(Turned(list[h], back)) + 1 => n = R(h, Turned(list[h], back), p + 1)
                  /\ Behind(seen, todo, Turned(list[h], back), p)
<1>1. /\ it = Loops(it.head, it.back, it.safe, it.pos, it.n, it.seen, it.todo)
      /\ it.back \in BOOLEAN /\ it.safe \in BOOLEAN /\ it.head \in Heads /\ list[it.head] # Stale
  BY DEF LoopInv, Loops
<1>2. \E p \in 1..(Len(list[it.head]) + 1) : Stands(it, Turned(list[it.head], it.back), p)
  BY DEF LoopInv
<1>3. QED
  BY <1>1, <1>2, Zenon DEF Stands

LEMMA LoopStands ==
  ASSUME NEW h \in Heads, NEW back \in BOOLEAN, NEW safe \in BOOLEAN, NEW pos, NEW n, NEW seen, NEW todo,
         it' = Loops(h, back, safe, pos, n, seen, todo), list'[h] # Stale,
         NEW w, w = Turned(list'[h], back), NEW p \in 1..(Len(list'[h]) + 1),
         pos = R(h, w, p), safe /\ p # Len(w) + 1 => n = R(h, w, p + 1), Behind(seen, todo, w, p)
  PROVE  LoopInv'
<1>1. /\ it'.head = h /\ it'.back = back /\ it'.safe = safe /\ it'.pos = pos /\ it'.n = n
      /\ it'.seen = seen /\ it'.todo = todo
  BY DEF Loops
<1>2. Stands(it', w, p)
  BY <1>1 DEF Stands
<1>3. it' = Loops(it'.head, it'.back, it'.safe, it'.pos, it'.n, it'.seen, it'.todo)
  BY <1>1
<1>4. QED
  BY <1>1, <1>2, <1>3 DEF LoopInv, Loops

LEMMA StepLoopStart ==
  ASSUME IInv, NEW h \in Heads, NEW x \in Nodes, NEW start \in {"for_each", "continue", "from"},
         NEW back \in BOOLEAN, NEW safe \in BOOLEAN, LoopStart(h, x, start, back, safe)
  PROVE  IInv'
<1>1. /\ it = NULL /\ del = NULL /\ reader = NULL /\ h \in Live
      /\ start # "for_each" => x \in On(h)
      /\ start = "for_each" => x = h
      /\ UNCHANGED <<mem, list, del, reader>>
  BY DEF LoopStart
<1>2. mem \in Mem /\ list \in Lists /\ RingInv(mem, list) /\ list[h] # Stale
  BY <1>1, Calm, Words
<1>3. PICK s : s = list[h]
  OBVIOUS
<1>4. Good(mem, h, s) /\ s \in Seq(Entries) /\ Len(s) \in Nat /\ Distinct(s)
  BY <1>2, <1>3 DEF RingInv, Good
<1>5. PICK w : w = Turned(s, back)
  OBVIOUS
<1>6. w \in Seq(Entries) /\ Len(w) = Len(s) /\ Distinct(w)
  BY <1>4, <1>5, Turns, TurnedDistinct
<1>7. \A i \in 0..Len(w) : Step(mem, back, R(h, w, i)) = R(h, w, i + 1)
  BY <1>4, <1>5, <1>6, Directions
<1>8. PICK pos : pos = First(start, back, h, x)
  OBVIOUS
<1>9. PICK todo : todo = Ahead(start, back, h, x)
  OBVIOUS
<1>10. PICK n : n = IF safe THEN Step(mem, back, pos) ELSE NULL
  OBVIOUS
<1>11. it' = Loops(h, back, safe, pos, n, <<>>, todo)
  BY <1>8, <1>9, <1>10 DEF LoopStart, Loops
<1>12. \E p \in 1..(Len(w) + 1) : pos = R(h, w, p) /\ todo = SubSeq(w, p, Len(w))
  <2>1. CASE start = "for_each"
    <3>1. pos = Step(mem, back, h) /\ todo = w
      BY <2>1, <1>3, <1>5, <1>8, <1>9 DEF First, Ahead, Turned
    <3>2. R(h, w, 0) = h /\ 0 \in 0..Len(w) /\ 0 + 1 = 1 /\ 1 \in 1..(Len(w) + 1) /\ SubSeq(w, 1, Len(w)) = w
      BY <1>4, <1>6 DEF R
    <3>3. pos = R(h, w, 1)
      BY <3>1, <3>2, <1>7
    <3>4. QED
      BY <3>1, <3>2, <3>3
  <2>2. CASE start # "for_each"
    <3>1. PICK at : at = CHOOSE i \in DOMAIN w : w[i] = x
      OBVIOUS
    <3>2. \E i \in DOMAIN w : w[i] = x
      <4>1. x \in ToSet(s)
        BY <2>2, <1>1, <1>3 DEF On
      <4>2. PICK i \in 1..Len(s) : s[i] = x
        BY <4>1, <1>4, Members
      <4>3. Len(s) + 1 - i \in 1..Len(s) /\ Len(s) + 1 - (Len(s) + 1 - i) = i
        BY <1>4
      <4>4. \A j \in 1..Len(s) : w[j] = IF back THEN s[Len(s) + 1 - j] ELSE s[j]
        BY <1>4, <1>5, Turns
      <4>5. w[i] = x \/ w[Len(s) + 1 - i] = x
        BY <4>2, <4>3, <4>4
      <4>6. DOMAIN w = 1..Len(s)
        BY <1>6
      <4>7. QED
        BY <4>3, <4>5, <4>6
    <3>3. at \in 1..Len(w) /\ w[at] = x /\ at \in 0..Len(w) /\ at \in 1..(Len(w) + 1) /\ at + 1 \in 1..(Len(w) + 1)
      <4>1. at \in DOMAIN w /\ w[at] = x
        BY <3>1, <3>2
      <4>2. QED
        BY <4>1, <1>6
    <3>4. R(h, w, at) = x
      BY <3>3 DEF R
    <3>5. CASE start = "continue"
      <4>1. pos = Step(mem, back, x) /\ todo = SubSeq(w, at + 1, Len(w))
        BY <3>1, <3>5, <1>3, <1>5, <1>8, <1>9 DEF First, Ahead, Turned
      <4>2. pos = R(h, w, at + 1)
        BY <4>1, <3>3, <3>4, <1>7
      <4>3. QED
        BY <4>1, <4>2, <3>3
    <3>6. CASE start = "from"
      <4>1. pos = x /\ todo = SubSeq(w, at, Len(w))
        BY <3>1, <3>6, <1>3, <1>5, <1>8, <1>9 DEF First, Ahead, Turned
      <4>2. QED
        BY <4>1, <3>3, <3>4
    <3>7. QED
      BY <2>2, <3>5, <3>6
  <2>3. QED
    BY <2>1, <2>2
<1>13. PICK p \in 1..(Len(w) + 1) : pos = R(h, w, p) /\ todo = SubSeq(w, p, Len(w))
  BY <1>12
<1>14. safe /\ p # Len(w) + 1 => n = R(h, w, p + 1)
  <2>1. p # Len(w) + 1 => p \in 0..Len(w)
    BY <1>4, <1>6
  <2>2. QED
    BY <2>1, <1>7, <1>10, <1>13
<1>15. Behind(<<>>, todo, w, p)
  <2>1. Len(w) \in Nat /\ p \in Nat /\ 1 <= p /\ p <= Len(w) + 1
    BY <1>4, <1>6
  <2>2. /\ todo \in Seq(Entries) /\ Len(todo) = Len(w) + 1 - p
        /\ \A i \in 1..(Len(w) + 1 - p) : todo[i] = w[p + i - 1]
    BY <1>6, <1>13, <2>1
  <2>3. ASSUME NEW i \in 1..Len(todo), NEW j \in 1..Len(todo), todo[i] = todo[j] PROVE i = j
    <3>1. p + i - 1 \in 1..Len(w) /\ p + j - 1 \in 1..Len(w)
      BY <2>1, <2>2
    <3>2. w[p + i - 1] = w[p + j - 1]
      BY <2>2, <2>3
    <3>3. p + i - 1 = p + j - 1
      BY <3>1, <3>2, <1>6 DEF Distinct
    <3>4. QED
      BY <3>3, <2>1
  <2>4. ASSUME NEW i \in p..Len(w) PROVE todo[0 + 1 + i - p] = w[i]
    <3>1. 0 + 1 + i - p \in 1..(Len(w) + 1 - p) /\ p + (0 + 1 + i - p) - 1 = i
      BY <2>1
    <3>2. QED
      BY <3>1, <2>2
  <2>5. <<>> \in Seq(Entries) /\ Len(<<>>) = 0 /\ \A i \in 1..0 : FALSE
    OBVIOUS
  <2>6. Len(todo) = Len(<<>>) + (Len(w) + 1 - p)
    BY <2>1, <2>2, <2>5
  <2>7. QED
    BY <2>2, <2>3, <2>4, <2>5, <2>6 DEF Behind, Distinct
<1>16. LoopInv'
  <2>1. list'[h] = s /\ s # Stale /\ p \in 1..(Len(s) + 1)
    BY <1>1, <1>2, <1>3, <1>6
  <2>2. QED
    BY <2>1, <1>5, <1>11, <1>13, <1>14, <1>15, LoopStands
<1>17. QED
  BY <1>1, <1>2, <1>16, LoopDone

\* The body has run, and pos and n go on
LEMMA LoopGoes ==
  ASSUME NEW h \in Heads, NEW back \in BOOLEAN, NEW safe \in BOOLEAN, NEW pos, NEW n, NEW seen, NEW todo,
         it = Loops(h, back, safe, pos, n, seen, todo), it # NULL, list[h] # Stale,
         NEW s, s = list[h], Good(mem, h, s),
         NEW p \in 1..Len(s), pos = Turned(s, back)[p], safe => n = R(h, Turned(s, back), p + 1),
         Behind(seen, todo, Turned(s, back), p),
         NEW s2, s2 = list'[h], Good(mem', h, s2), s2 # Stale,
         NEW p2, Passed(Turned(s, back), p, Turned(s2, back), p2),
         safe \/ mem' = mem, Advance(mem')
  PROVE  LoopInv'
<1>1. PICK w : w = Turned(s, back)
  OBVIOUS
<1>2. PICK w2 : w2 = Turned(s2, back)
  OBVIOUS
<1>3. s \in Seq(Entries) /\ s2 \in Seq(Entries) /\ Len(s2) \in Nat
  BY DEF Good
<1>4. w \in Seq(Entries) /\ Len(w) = Len(s) /\ Len(w2) = Len(s2) /\ p \in 1..Len(w)
  BY <1>1, <1>2, <1>3, Turns
<1>5. Behind(Append(seen, w[p]), todo, w2, p2) /\ R(h, w2, p2) = R(h, w, p + 1)
  BY <1>1, <1>2, <1>4, Advancing
<1>6. p2 \in 1..(Len(s2) + 1)
  BY <1>2, <1>4 DEF Passed
<1>7. PICK q : q = IF safe THEN n ELSE Step(mem', back, pos)
  OBVIOUS
<1>8. q = R(h, w2, p2)
  <2>1. CASE safe
    BY <2>1, <1>1, <1>5, <1>7
  <2>2. CASE ~safe
    <3>1. pos = R(h, w, p) /\ p \in 0..Len(s)
      BY <1>1, <1>4 DEF R
    <3>2. Step(mem, back, R(h, w, p)) = R(h, w, p + 1)
      BY <1>1, <3>1, Directions
    <3>3. QED
      BY <2>2, <1>5, <1>7, <3>1, <3>2
  <2>3. QED
    BY <2>1, <2>2
<1>9. PICK n2 : n2 = IF safe THEN Step(mem', back, q) ELSE NULL
  OBVIOUS
<1>10. safe /\ p2 # Len(w2) + 1 => n2 = R(h, w2, p2 + 1)
  <2>1. p2 # Len(w2) + 1 => p2 \in 0..Len(s2)
    BY <1>3, <1>4, <1>6
  <2>2. p2 # Len(w2) + 1 => Step(mem', back, R(h, w2, p2)) = R(h, w2, p2 + 1)
    BY <2>1, <1>2, Directions
  <2>3. QED
    BY <2>2, <1>8, <1>9
<1>11. it' = Loops(h, back, safe, q, n2, Append(seen, w[p]), todo)
  <2>1. /\ it.head = h /\ it.back = back /\ it.safe = safe /\ it.pos = pos /\ it.n = n
        /\ it.seen = seen /\ it.todo = todo
    BY DEF Loops
  <2>2. it' = [it EXCEPT !.seen = Append(seen, pos), !.pos = q, !.n = n2]
    BY <2>1, <1>7, <1>9 DEF Advance
  <2>3. QED
    BY <2>2, <1>1 DEF Loops
<1>12. QED
  BY <1>2, <1>5, <1>6, <1>8, <1>10, <1>11, LoopStands

\* Where the entry at place p of a loop is on the list, and what is ahead without it
LEMMA PassOut ==
  ASSUME NEW s \in Seq(Entries), Distinct(s), NEW back \in BOOLEAN, NEW p \in 1..Len(s),
         NEW e, e = Turned(s, back)[p]
  PROVE  /\ e \in ToSet(s) /\ e \in Entries
         /\ RemoveAt(s, At(s, e)) \in Seq(Entries)
         /\ Passed(Turned(s, back), p, Turned(RemoveAt(s, At(s, e)), back), p)
<1>1. Len(s) \in Nat
  OBVIOUS
<1>2. PICK k : k = IF back THEN Len(s) + 1 - p ELSE p
  OBVIOUS
<1>3. k \in 1..Len(s) /\ p = IF back THEN Len(s) + 1 - k ELSE k
  BY <1>1, <1>2
<1>4. s[k] = e
  BY <1>2, Turns
<1>5. e \in ToSet(s) /\ e \in Entries
  BY <1>3, <1>4, Members
<1>6. At(s, e) = k
  BY <1>3, <1>4, <1>5, AtIs DEF Distinct
<1>7. PICK t : t = RemoveAt(s, k)
  OBVIOUS
<1>8. Dropped(s, k, t)
  BY <1>3, <1>7, Removals
<1>9. t \in Seq(Entries)
  BY <1>8 DEF Dropped
<1>10. Passed(Turned(s, back), p, Turned(t, back), p)
  BY <1>3, <1>8, PassDrop
<1>11. QED
  BY <1>5, <1>6, <1>7, <1>9, <1>10

LEMMA StepLoopBody ==
  ASSUME IInv, NEW op \in {"none", "del", "del_init", "move", "move_tail"}, NEW g \in Heads, LoopBody(op, g)
  PROVE  IInv'
<1>1. /\ it # NULL /\ it.pos # it.head /\ g \in Live
      /\ op # "none" => it.safe
      /\ op = "move" => g # it.head \/ ~it.back
      /\ op = "move_tail" => g # it.head \/ it.back
      /\ Advance(mem') /\ UNCHANGED <<del, reader>>
  BY DEF LoopBody
<1>2. del = NULL /\ reader = NULL /\ mem \in Mem /\ list \in Lists /\ RingInv(mem, list) /\ LoopInv
  BY <1>1, LoopBase
<1>3. PICK h \in Heads, back \in BOOLEAN, safe \in BOOLEAN : \E pos, n, seen, todo :
            /\ it = Loops(h, back, safe, pos, n, seen, todo) /\ list[h] # Stale
            /\ \E p \in 1..(Len(list[h]) + 1) :
                  /\ pos = R(h, Turned(list[h], back), p)
                  /\ safe /\ p # Len(Turned(list[h], back)) + 1 => n = R(h, Turned(list[h], back), p + 1)
                  /\ Behind(seen, todo, Turned(list[h], back), p)
  BY <1>1, <1>2, LoopParts
<1>4. PICK pos, n, seen, todo :
            /\ it = Loops(h, back, safe, pos, n, seen, todo) /\ list[h] # Stale
            /\ \E p \in 1..(Len(list[h]) + 1) :
                  /\ pos = R(h, Turned(list[h], back), p)
                  /\ safe /\ p # Len(Turned(list[h], back)) + 1 => n = R(h, Turned(list[h], back), p + 1)
                  /\ Behind(seen, todo, Turned(list[h], back), p)
  BY <1>3
<1>5. it.head = h /\ it.pos = pos /\ it.safe = safe /\ it.back = back
  BY <1>4 DEF Loops
<1>6. PICK s : s = list[h]
  OBVIOUS
<1>7. PICK w : w = Turned(s, back)
  OBVIOUS
<1>8. Good(mem, h, s) /\ s \in Seq(Entries) /\ Len(s) \in Nat /\ Distinct(s)
  BY <1>2, <1>4, <1>6 DEF RingInv, Good
<1>9. w \in Seq(Entries) /\ Len(w) = Len(s)
  BY <1>7, <1>8, Turns
<1>10. PICK p \in 1..(Len(s) + 1) : /\ pos = R(h, w, p)
                                    /\ safe /\ p # Len(w) + 1 => n = R(h, w, p + 1)
                                    /\ Behind(seen, todo, w, p)
  BY <1>4, <1>6, <1>7
<1>11. p \in 1..Len(s) /\ pos = w[p] /\ (safe => n = R(h, w, p + 1))
  <2>1. pos # h
    BY <1>1, <1>5
  <2>2. p # Len(s) + 1
    BY <2>1, <1>8, <1>9, <1>10 DEF R
  <2>3. p \in 1..Len(w) /\ p # Len(w) + 1
    BY <2>2, <1>8, <1>9
  <2>4. QED
    BY <2>3, <1>9, <1>10 DEF R
<1>12. PICK t : t = RemoveAt(s, At(s, pos))
  OBVIOUS
<1>13. pos \in ToSet(s) /\ pos \in Entries /\ t \in Seq(Entries) /\ Passed(w, p, Turned(t, back), p)
  BY <1>7, <1>8, <1>11, <1>12, PassOut
<1>14. list[g] # Stale /\ Removable(mem, list, pos) /\ Removed(pos) = Without(list, pos)
  BY <1>1, <1>2, <1>4, <1>6, <1>13, Words DEF Removable, OnNone
<1>15. PICK l2 : l2 = Without(list, pos)
  OBVIOUS
<1>16. l2 \in Lists /\ l2[h] = t /\ t # Stale
  BY <1>2, <1>4, <1>6, <1>12, <1>13, <1>14, <1>15, UnlinkInv, ListConstants DEF Without
<1>17. ASSUME mem' \in Mem, list' \in Lists, RingInv(mem', list'), safe \/ mem' = mem, list'[h] # Stale,
              NEW p2, Passed(w, p, Turned(list'[h], back), p2)
       PROVE  IInv'
  <2>1. PICK s2 : s2 = list'[h]
    OBVIOUS
  <2>2. Good(mem', h, s2)
    BY <1>17, <2>1 DEF RingInv
  <2>3. LoopInv'
    BY <1>1, <1>4, <1>6, <1>7, <1>8, <1>10, <1>11, <1>17, <2>1, <2>2, LoopGoes
  <2>4. QED
    BY <1>1, <1>2, <1>17, <2>3, LoopDone
<1>18. CASE op = "none"
  <2>1. mem' = mem /\ list' = list
    BY <1>18 DEF LoopBody
  <2>2. Passed(w, p, Turned(list'[h], back), p + 1)
    BY <2>1, <1>6, <1>7, <1>9, <1>11, PassNone
  <2>3. QED
    BY <1>2, <1>4, <1>17, <2>1, <2>2
<1>19. CASE op \in {"del", "del_init"}
  <2>1. list' = l2 /\ (mem' = list_del(mem, pos) \/ mem' = list_del_init(mem, pos))
    BY <1>5, <1>14, <1>15, <1>19 DEF LoopBody
  <2>2. mem' \in Mem /\ RingInv(mem', list')
    BY <1>2, <1>13, <1>14, <1>15, <2>1, DeleteInv
  <2>3. safe
    BY <1>1, <1>5, <1>19
  <2>4. Passed(w, p, Turned(list'[h], back), p)
    BY <2>1, <1>13, <1>16
  <2>5. QED
    BY <1>16, <1>17, <2>1, <2>2, <2>3, <2>4
<1>20. CASE op \in {"move", "move_tail"}
  <2>1. PICK u : u = IF op = "move" THEN <<pos>> \o l2[g] ELSE Append(l2[g], pos)
    OBVIOUS
  <2>2. PICK r : r = IF op = "move" THEN list_move(mem, pos, g) ELSE list_move_tail(mem, pos, g)
    OBVIOUS
  <2>3. r \in Mem /\ RingInv(r, [l2 EXCEPT ![g] = u]) /\ [l2 EXCEPT ![g] = u] \in Lists
    BY <1>2, <1>13, <1>14, <1>15, <2>1, <2>2, MoveInv
  <2>4. mem' = r
    BY <1>5, <1>20, <2>2 DEF LoopBody
  <2>5. list' = [l2 EXCEPT ![g] = u]
    <3>1. CASE op = "move"
      BY <3>1, <1>5, <1>14, <1>15, <2>1 DEF LoopBody
    <3>2. CASE op = "move_tail"
      BY <3>2, <1>5, <1>14, <1>15, <2>1 DEF LoopBody
    <3>3. QED
      BY <3>1, <3>2, <1>20
  <2>6. safe
    BY <1>1, <1>5, <1>20
  <2>7. CASE g # h
    <3>1. list'[h] = t
      BY <2>5, <2>7, <1>16 DEF Lists
    <3>2. QED
      BY <1>13, <1>16, <1>17, <2>3, <2>4, <2>5, <2>6, <3>1
  <2>8. CASE g = h
    <3>1. back <=> op = "move_tail"
      BY <1>1, <1>5, <1>20, <2>8
    <3>2. PICK v : v = IF back THEN Append(t, pos) ELSE <<pos>> \o t
      OBVIOUS
    <3>3. u = v
      BY <1>16, <1>20, <2>1, <2>8, <3>1, <3>2
    <3>4. list'[h] = v /\ v \in Seq(Entries) /\ v # Stale
      <4>1. v \in Seq(Entries)
        BY <1>13, <3>2
      <4>2. v # Stale
        BY <4>1, ListConstants
      <4>3. list'[h] = v
        BY <2>5, <2>8, <1>16, <3>3 DEF Lists
      <4>4. QED
        BY <4>1, <4>2, <4>3
    <3>5. Passed(w, p, Turned(v, back), p + 1)
      BY <1>9, <1>11, <1>13, <3>2, PassPush
    <3>6. QED
      BY <1>17, <2>3, <2>4, <2>5, <2>6, <3>4, <3>5
  <2>9. QED
    BY <2>7, <2>8
<1>21. QED
  BY <1>18, <1>19, <1>20

LEMMA StepLoopEnd ==
  ASSUME IInv, LoopEnd
  PROVE  IInv'
<1>1. it # NULL /\ it' = NULL /\ UNCHANGED <<mem, list, del, reader>>
  BY DEF LoopEnd
<1>2. LoopInv'
  BY <1>1 DEF LoopInv
<1>3. QED
  BY <1>1, <1>2, LoopBase, LoopDone

\* The entry after pos is deleted and n read again: one less of what was ahead
LEMMA Skipping ==
  ASSUME NEW s \in Seq(Entries), NEW p \in 1..Len(s), p # Len(s), NEW s2, Dropped(s, p + 1, s2),
         NEW seen, NEW todo, Behind(seen, todo, s, p)
  PROVE  LET at == CHOOSE i \in DOMAIN todo : todo[i] = s[p + 1] IN
         Behind(Append(seen, s[p]), RemoveAt(todo, at), s2, p + 1)
<1>1. Len(s) \in Nat /\ s[p] \in Entries /\ p + 1 \in 1..Len(s)
  OBVIOUS
<1>2. /\ seen \in Seq(Entries) /\ todo \in Seq(Entries) /\ Distinct(todo) /\ Len(seen) \in Nat
      /\ Len(todo) = Len(seen) + (Len(s) + 1 - p)
  BY DEF Behind
<1>3. PICK c : c = Len(seen)
  OBVIOUS
<1>4. \A i \in p..Len(s) : todo[c + 1 + i - p] = s[i]
  BY <1>3 DEF Behind
<1>5. c + 2 \in 1..Len(todo) /\ todo[c + 2] = s[p + 1]
  <2>1. p + 1 \in p..Len(s) /\ c + 1 + (p + 1) - p = c + 2
    BY <1>1, <1>2, <1>3
  <2>2. todo[c + 1 + (p + 1) - p] = s[p + 1]
    BY <2>1, <1>4
  <2>3. c + 2 \in 1..Len(todo)
    BY <1>1, <1>2, <1>3
  <2>4. QED
    BY <2>1, <2>2, <2>3
<1>6. PICK at : at = CHOOSE i \in DOMAIN todo : todo[i] = s[p + 1]
  OBVIOUS
<1>7. at = c + 2
  <2>1. DOMAIN todo = 1..Len(todo)
    BY <1>2
  <2>2. at \in DOMAIN todo /\ todo[at] = s[p + 1]
    BY <1>5, <1>6, <2>1
  <2>3. QED
    BY <1>2, <1>5, <2>1, <2>2 DEF Distinct
<1>8. PICK d : d = RemoveAt(todo, c + 2)
  OBVIOUS
<1>9. /\ d \in Seq(Entries) /\ Len(d) = Len(todo) - 1
      /\ \A i \in 1..(c + 1) : d[i] = todo[i]
      /\ \A i \in (c + 2)..Len(d) : d[i] = todo[i + 1]
  <2>1. Dropped(todo, c + 2, d)
    BY <1>2, <1>5, <1>8, Removals
  <2>2. (c + 2) - 1 = c + 1
    BY <1>2, <1>3
  <2>3. QED
    BY <2>1, <2>2 DEF Dropped
<1>10. PICK a : a = Append(seen, s[p])
  OBVIOUS
<1>11. a \in Seq(Entries) /\ Len(a) = c + 1 /\ a[c + 1] = s[p] /\ \A i \in 1..c : a[i] = seen[i]
  BY <1>1, <1>2, <1>3, <1>10
<1>12. Distinct(d)
  <2>1. SUFFICES ASSUME NEW i \in 1..Len(d), NEW j \in 1..Len(d), d[i] = d[j] PROVE i = j
    BY DEF Distinct
  <2>2. ASSUME NEW x \in 1..Len(d)
        PROVE  \/ d[x] = todo[x] /\ x \in 1..Len(todo) /\ x <= c + 1
               \/ d[x] = todo[x + 1] /\ x + 1 \in 1..Len(todo) /\ x >= c + 2
    <3>1. x \in Nat /\ c \in Nat /\ Len(todo) \in Nat /\ 1 <= x /\ x <= Len(todo) - 1
      BY <1>2, <1>3, <1>9
    <3>2. CASE x <= c + 1
      <4>1. x \in 1..(c + 1) /\ x \in 1..Len(todo)
        BY <3>1, <3>2
      <4>2. QED
        BY <3>2, <4>1, <1>9
    <3>3. CASE x >= c + 2
      <4>1. x \in (c + 2)..Len(d) /\ x + 1 \in 1..Len(todo)
        BY <3>1, <3>3, <1>9
      <4>2. QED
        BY <3>3, <4>1, <1>9
    <3>4. QED
      BY <3>1, <3>2, <3>3
  <2>3. \A x, y \in 1..Len(todo) : todo[x] = todo[y] => x = y
    BY <1>2 DEF Distinct
  <2>4. i \in Int /\ j \in Int /\ c \in Int
    BY <1>2, <1>3
  <2>5. CASE i <= c + 1 /\ j <= c + 1
    <3>1. d[i] = todo[i] /\ d[j] = todo[j] /\ i \in 1..Len(todo) /\ j \in 1..Len(todo)
      BY <2>2, <2>4, <2>5
    <3>2. QED
      BY <2>1, <2>3, <3>1
  <2>6. CASE i >= c + 2 /\ j >= c + 2
    <3>1. d[i] = todo[i + 1] /\ d[j] = todo[j + 1] /\ i + 1 \in 1..Len(todo) /\ j + 1 \in 1..Len(todo)
      BY <2>2, <2>4, <2>6
    <3>2. i + 1 = j + 1
      BY <2>1, <2>3, <3>1
    <3>3. QED
      BY <2>4, <3>2
  <2>7. CASE i <= c + 1 /\ j >= c + 2
    <3>1. d[i] = todo[i] /\ d[j] = todo[j + 1] /\ i \in 1..Len(todo) /\ j + 1 \in 1..Len(todo)
      BY <2>2, <2>4, <2>7
    <3>2. i = j + 1
      BY <2>1, <2>3, <3>1
    <3>3. QED
      BY <2>4, <2>7, <3>2
  <2>8. CASE i >= c + 2 /\ j <= c + 1
    <3>1. d[i] = todo[i + 1] /\ d[j] = todo[j] /\ i + 1 \in 1..Len(todo) /\ j \in 1..Len(todo)
      BY <2>2, <2>4, <2>8
    <3>2. i + 1 = j
      BY <2>1, <2>3, <3>1
    <3>3. QED
      BY <2>4, <2>8, <3>2
  <2>9. QED
    BY <2>4, <2>5, <2>6, <2>7, <2>8
<1>13. ASSUME NEW i \in 1..Len(a) PROVE d[i] = a[i]
  <2>1. CASE i \in 1..c
    <3>1. todo[i] = seen[i]
      BY <2>1, <1>3 DEF Behind
    <3>2. QED
      BY <2>1, <3>1, <1>2, <1>3, <1>9, <1>11
  <2>2. CASE i = c + 1
    <3>1. p \in p..Len(s) /\ c + 1 + p - p = c + 1 /\ c + 1 \in 1..(c + 1)
      BY <1>1, <1>2, <1>3
    <3>2. todo[c + 1] = s[p]
      BY <3>1, <1>4
    <3>3. QED
      BY <2>2, <3>1, <3>2, <1>9, <1>11
  <2>3. QED
    BY <2>1, <2>2, <1>2, <1>3, <1>11
<1>14. s2 \in Seq(Entries) /\ Len(s2) = Len(s) - 1 /\ \A i \in (p + 1)..Len(s2) : s2[i] = s[i + 1]
  BY DEF Dropped
<1>15. ASSUME NEW i \in (p + 1)..Len(s2) PROVE d[Len(a) + 1 + i - (p + 1)] = s2[i]
  <2>1. /\ Len(a) + 1 + i - (p + 1) = c + 1 + i - p /\ c + 1 + i - p \in (c + 2)..Len(d)
        /\ (c + 1 + i - p) + 1 = c + 1 + (i + 1) - p /\ i + 1 \in p..Len(s)
    BY <1>1, <1>2, <1>3, <1>9, <1>11, <1>14
  <2>2. d[c + 1 + i - p] = todo[(c + 1 + i - p) + 1]
    BY <2>1, <1>9
  <2>3. todo[c + 1 + (i + 1) - p] = s[i + 1]
    BY <2>1, <1>4
  <2>4. QED
    BY <2>1, <2>2, <2>3, <1>14
<1>16. Len(d) = Len(a) + (Len(s2) + 1 - (p + 1))
  BY <1>1, <1>2, <1>3, <1>9, <1>11, <1>14
<1>17. Behind(a, d, s2, p + 1)
  BY <1>9, <1>11, <1>12, <1>13, <1>15, <1>16 DEF Behind
<1>18. QED
  BY <1>6, <1>7, <1>8, <1>10, <1>17

LEMMA StepLoopReset ==
  ASSUME IInv, LoopBodyReset
  PROVE  IInv'
<1>1. /\ it # NULL /\ it.pos # it.head /\ it.safe /\ ~it.back /\ it.n # it.head
      /\ mem' = list_del(mem, it.n) /\ list' = Removed(it.n) /\ UNCHANGED <<del, reader>>
  BY DEF LoopBodyReset
<1>2. del = NULL /\ reader = NULL /\ mem \in Mem /\ list \in Lists /\ RingInv(mem, list) /\ LoopInv
  BY <1>1, LoopBase
<1>3. PICK h \in Heads, back \in BOOLEAN, safe \in BOOLEAN : \E pos, n, seen, todo :
            /\ it = Loops(h, back, safe, pos, n, seen, todo) /\ list[h] # Stale
            /\ \E p \in 1..(Len(list[h]) + 1) :
                  /\ pos = R(h, Turned(list[h], back), p)
                  /\ safe /\ p # Len(Turned(list[h], back)) + 1 => n = R(h, Turned(list[h], back), p + 1)
                  /\ Behind(seen, todo, Turned(list[h], back), p)
  BY <1>1, <1>2, LoopParts
<1>4. PICK pos, n, seen, todo :
            /\ it = Loops(h, back, safe, pos, n, seen, todo) /\ list[h] # Stale
            /\ \E p \in 1..(Len(list[h]) + 1) :
                  /\ pos = R(h, Turned(list[h], back), p)
                  /\ safe /\ p # Len(Turned(list[h], back)) + 1 => n = R(h, Turned(list[h], back), p + 1)
                  /\ Behind(seen, todo, Turned(list[h], back), p)
  BY <1>3
<1>5. /\ it.head = h /\ it.pos = pos /\ it.safe = safe /\ it.back = back /\ it.n = n
      /\ it.seen = seen /\ it.todo = todo
  BY <1>4 DEF Loops
<1>6. PICK s : s = list[h]
  OBVIOUS
<1>7. safe = TRUE /\ back = FALSE /\ Turned(s, back) = s
  BY <1>1, <1>5 DEF Turned
<1>8. Good(mem, h, s) /\ s \in Seq(Entries) /\ Len(s) \in Nat /\ Distinct(s)
  BY <1>2, <1>4, <1>6 DEF RingInv, Good
<1>9. PICK p \in 1..(Len(s) + 1) : /\ pos = R(h, s, p)
                                   /\ p # Len(s) + 1 => n = R(h, s, p + 1)
                                   /\ Behind(seen, todo, s, p)
  BY <1>4, <1>6, <1>7
<1>10. p \in 1..Len(s) /\ p # Len(s) /\ pos = s[p] /\ n = s[p + 1] /\ p + 1 \in 1..Len(s)
  <2>1. pos # h /\ n # h
    BY <1>1, <1>5
  <2>2. p # Len(s) + 1
    BY <2>1, <1>8, <1>9 DEF R
  <2>3. p \in 1..Len(s) /\ p # Len(s) + 1
    BY <2>2, <1>8, <1>9
  <2>4. p # Len(s)
    BY <2>1, <2>3, <1>8, <1>9 DEF R
  <2>5. p + 1 \in 1..Len(s)
    BY <2>3, <2>4, <1>8
  <2>6. QED
    BY <2>3, <2>4, <2>5, <1>9 DEF R
<1>11. n \in ToSet(s) /\ n \in Entries
  BY <1>8, <1>10, Members
<1>12. Removable(mem, list, n) /\ Removed(n) = Without(list, n)
  BY <1>2, <1>4, <1>6, <1>11, Words DEF Removable, OnNone
<1>13. PICK s2 : s2 = RemoveAt(s, p + 1)
  OBVIOUS
<1>14. Dropped(s, p + 1, s2)
  BY <1>8, <1>10, <1>13, Removals
<1>15. s2 \in Seq(Entries) /\ Len(s2) = Len(s) - 1 /\ s2[p] = s[p] /\ p \in 1..Len(s2) /\ s2 # Stale
  <2>1. p \in 1..((p + 1) - 1)
    BY <1>10
  <2>2. s2 \in Seq(Entries) /\ Len(s2) = Len(s) - 1 /\ s2[p] = s[p]
    BY <1>14, <2>1 DEF Dropped
  <2>3. QED
    BY <2>2, <1>8, <1>10, ListConstants
<1>16. list'[h] = s2
  <2>1. At(s, n) = p + 1
    BY <1>8, <1>10, <1>11, AtIs DEF Distinct
  <2>2. QED
    BY <2>1, <1>1, <1>4, <1>5, <1>6, <1>11, <1>12, <1>13 DEF Without
<1>17. mem' \in Mem /\ list' \in Lists /\ RingInv(mem', list')
  BY <1>1, <1>2, <1>5, <1>11, <1>12, DeleteInv, UnlinkInv
<1>18. Good(mem', h, s2)
  BY <1>15, <1>16, <1>17 DEF RingInv
<1>19. PICK q : q = NextOf(mem', pos)
  OBVIOUS
<1>20. q = R(h, s2, p + 1)
  <2>1. R(h, s2, p) = pos /\ p \in 0..Len(s2)
    BY <1>10, <1>15 DEF R
  <2>2. NextOf(mem', R(h, s2, p)) = R(h, s2, p + 1)
    BY <1>18, <2>1, RingPlaces
  <2>3. QED
    BY <1>19, <2>1, <2>2
<1>21. PICK n2 : n2 = NextOf(mem', q)
  OBVIOUS
<1>22. p + 1 # Len(s2) + 1 => n2 = R(h, s2, (p + 1) + 1)
  <2>1. p + 1 # Len(s2) + 1 => p + 1 \in 0..Len(s2)
    BY <1>8, <1>10, <1>15
  <2>2. p + 1 # Len(s2) + 1 => NextOf(mem', R(h, s2, p + 1)) = R(h, s2, (p + 1) + 1)
    BY <1>18, <2>1, RingPlaces
  <2>3. QED
    BY <1>20, <1>21, <2>2
<1>23. PICK at : at = CHOOSE i \in DOMAIN todo : todo[i] = n
  OBVIOUS
<1>24. Behind(Append(seen, s[p]), RemoveAt(todo, at), s2, p + 1)
  BY <1>8, <1>9, <1>10, <1>14, <1>23, Skipping
<1>25. it' = Loops(h, back, safe, q, n2, Append(seen, s[p]), RemoveAt(todo, at))
  <2>1. it' = [it EXCEPT !.seen = Append(seen, pos), !.todo = RemoveAt(todo, at), !.pos = q, !.n = n2]
    BY <1>5, <1>19, <1>21, <1>23 DEF LoopBodyReset, NextOf
  <2>2. QED
    BY <2>1, <1>4, <1>10 DEF Loops
<1>26. LoopInv'
  <2>1. s2 = Turned(list'[h], back) /\ p + 1 \in 1..(Len(list'[h]) + 1) /\ list'[h] # Stale
    BY <1>7, <1>15, <1>16 DEF Turned
  <2>2. QED
    BY <2>1, <1>20, <1>22, <1>24, <1>25, LoopStands
<1>27. QED
  BY <1>1, <1>2, <1>17, <1>26, LoopDone
-----------------------------------------------------------------------------
(* list_del_init one store at a time, and the reader *)

LEMMA StepDelInitStore ==
  ASSUME IInv, NEW e \in Entries, DelInitStore(e)
  PROVE  IInv'
<1>1. it = NULL /\ it' = NULL /\ reader' = reader /\ mem \in Mem /\ list \in Lists /\ e \in Nodes
  BY EntriesApart DEF DelInitStore, IInv
<1>2. LoopInv'
  BY <1>1 DEF LoopInv
<1>3. NULL \notin [e : Entries, step : 1..3]
  BY ListConstants
<1>4. /\ [e |-> e, step |-> 1] # NULL /\ [e |-> e, step |-> 2] # NULL /\ [e |-> e, step |-> 3] # NULL
      /\ \A i \in 1..3 : [e |-> e, step |-> i] \in [e : Entries, step : 1..3]
      /\ \A i \in 1..3 : [e |-> e, step |-> i].e = e /\ [e |-> e, step |-> i].step = i
  <2>1. \A i \in 1..3 : [e |-> e, step |-> i] \in [e : Entries, step : 1..3]
    OBVIOUS
  <2>2. 1 \in 1..3 /\ 2 \in 1..3 /\ 3 \in 1..3
    OBVIOUS
  <2>3. QED
    BY <1>3, <2>1, <2>2
<1>5. CASE /\ del = NULL /\ e \in Linked
           /\ mem' = Prev_(mem, mem.next[e], mem.prev[e])
           /\ del' = [e |-> e, step |-> 1] /\ UNCHANGED list
  <2>1. RingInv(mem, list) /\ ~OnNone(list, e)
    BY <1>1, <1>5, Calm, Words
  <2>2. PICK h \in Heads : list[h] # Stale /\ e \in ToSet(list[h])
    BY <2>1 DEF OnNone
  <2>3. Good(mem, h, list[h]) /\ e \in Around(h, list[h])
    BY <2>1, <2>2 DEF RingInv, Around
  <2>4. PICK p : p = PrevOf(mem, e)
    OBVIOUS
  <2>5. PICK n : n = NextOf(mem, e)
    OBVIOUS
  <2>6. n \in Nodes /\ p \in Nodes /\ n # e /\ p # e /\ PrevOf(mem, n) = e
    <3>1. n \in Around(h, list[h]) /\ p \in Around(h, list[h]) /\ Adj(h, list[h], e, n)
      BY <2>3, <2>4, <2>5, RingSteps
    <3>2. n # e /\ p # e
      BY <2>2, <2>3, <2>4, <2>5, NotSelf
    <3>3. n \in Nodes /\ p \in Nodes
      BY <2>3, <3>1, RingFacts
    <3>4. PrevOf(mem, n) = e
      BY <1>1, <2>3, <3>1, <3>3 DEF Good, Ringed
    <3>5. QED
      BY <3>2, <3>3, <3>4
  <2>7. mem' = Prev_(mem, n, p)
    BY <1>5, <2>4, <2>5 DEF NextOf, PrevOf
  <2>8. /\ mem' \in Mem /\ \A x \in Nodes : NextOf(mem', x) = NextOf(mem, x)
        /\ \A x \in Nodes : PrevOf(mem', x) = IF x = n THEN p ELSE PrevOf(mem, x)
    BY <1>1, <2>6, <2>7 DEF Mem, NextOf, PrevOf, Prev_
  <2>9. NextOf(mem', e) = n /\ PrevOf(mem', e) = p /\ PrevOf(mem', n) = p
    BY <1>1, <2>4, <2>5, <2>6, <2>8
  <2>10. del' # NULL /\ del'.e = e /\ del'.step = 1 /\ del' \in [e : Entries, step : 1..3]
    BY <1>4, <1>5
  <2>11. Settled' = Prev_(mem', n, e)
    BY <2>9, <2>10 DEF Settled, NextOf
  <2>12. RingInv(Settled', list')
    <3>1. PICK m2 : m2 = Prev_(mem', n, e)
      OBVIOUS
    <3>2. m2 = mem
      BY <1>1, <2>6, <2>7, <3>1 DEF Mem, Prev_, PrevOf
    <3>3. QED
      BY <1>5, <2>1, <2>11, <3>1, <3>2
  <2>13. DelInv'
    BY <1>1, <1>5, <2>1, <2>9, <2>10 DEF DelInv
  <2>14. ReadInv'
    <3>1. SUFFICES ASSUME reader # NULL PROVE ReadInv'
      BY <1>1 DEF ReadInv
    <3>2. /\ reader \in [e : Entries, next : Nodes \cup {LIST_POISON1}, empty : BOOLEAN, done : BOOLEAN]
          /\ reader.next = reader.e => NextOf(mem, reader.e) = reader.e
          /\ reader.empty => NextOf(mem, reader.e) = reader.e /\ PrevOf(mem, reader.e) = reader.e
      BY <3>1 DEF IInv, ReadInv
    <3>3. reader.e \in Nodes
      BY <3>2, EntriesApart
    <3>4. NextOf(mem', reader.e) = NextOf(mem, reader.e)
      BY <2>8, <3>3
    <3>5. reader.empty => reader.e # e /\ reader.e # n
      BY <2>5, <2>6, <3>2
    <3>6. reader.empty => PrevOf(mem', reader.e) = reader.e
      BY <2>8, <3>2, <3>3, <3>5
    <3>7. QED
      BY <1>1, <2>10, <3>2, <3>4, <3>5, <3>6 DEF ReadInv
  <2>15. QED
    BY <1>1, <1>2, <1>5, <2>8, <2>12, <2>13, <2>14 DEF IInv
<1>6. CASE /\ del = [e |-> e, step |-> 1]
           /\ mem' = Next_(mem, mem.prev[e], mem.next[e])
           /\ del' = [e |-> e, step |-> 2] /\ list' = Removed(e)
  <2>1. del # NULL /\ del.e = e /\ del.step = 1
    BY <1>4, <1>6
  <2>2. PICK p : p = PrevOf(mem, e)
    OBVIOUS
  <2>3. PICK n : n = NextOf(mem, e)
    OBVIOUS
  <2>4. ~OnNone(list, e) /\ PrevOf(mem, n) = p
    BY <2>1, <2>2, <2>3 DEF IInv, DelInv
  <2>5. PICK m : m = Prev_(mem, n, e)
    OBVIOUS
  <2>6. RingInv(m, list)
    BY <2>1, <2>3, <2>5 DEF IInv, Settled, NextOf
  <2>7. PICK h \in Heads : list[h] # Stale /\ e \in ToSet(list[h])
    BY <2>4 DEF OnNone
  <2>8. Good(m, h, list[h]) /\ e \in Around(h, list[h])
    BY <2>6, <2>7 DEF RingInv, Around
  <2>9. NextOf(m, e) = n
    BY <2>3, <2>5 DEF NextOf, Prev_
  <2>10. n \in Nodes /\ n # e
    <3>1. NextOf(m, e) \in Around(h, list[h])
      BY <2>8, RingSteps
    <3>2. Around(h, list[h]) \subseteq Nodes
      BY <2>8, RingFacts
    <3>3. NextOf(m, e) # e
      BY <2>7, <2>8, NotSelf
    <3>4. QED
      BY <2>9, <3>1, <3>2, <3>3
  <2>11. m \in Mem /\ PrevOf(m, e) = p /\ mem = Prev_(m, n, p)
    BY <1>1, <2>2, <2>4, <2>5, <2>10 DEF Mem, PrevOf, Prev_
  <2>12. p \in Nodes /\ p # e
    <3>1. PrevOf(m, e) \in Around(h, list[h])
      BY <2>8, RingSteps
    <3>2. Around(h, list[h]) \subseteq Nodes
      BY <2>8, RingFacts
    <3>3. PrevOf(m, e) # e
      BY <2>7, <2>8, NotSelf
    <3>4. QED
      BY <2>11, <3>1, <3>2, <3>3
  <2>13. mem' = __list_del_entry(m, e)
    BY <1>6, <2>2, <2>3, <2>9, <2>11 DEF __list_del_entry, __list_del, NextOf, PrevOf
  <2>14. Removable(m, list, e)
    BY <2>4 DEF Removable
  <2>15. PICK r : r = __list_del_entry(m, e)
    OBVIOUS
  <2>16. r \in Mem /\ RingInv(r, Without(list, e)) /\ Without(list, e) \in Lists /\ OnNone(Without(list, e), e)
         /\ Same(m, r, e)
    BY <1>1, <2>6, <2>11, <2>14, <2>15, UnlinkInv
  <2>17. list' = Without(list, e)
    BY <1>1, <1>6, Words
  <2>18. mem' \in Mem /\ list' \in Lists /\ RingInv(mem', list') /\ OnNone(list', e)
    BY <2>13, <2>15, <2>16, <2>17
  <2>19. NextOf(mem', e) = n /\ PrevOf(mem', e) = p
    BY <2>9, <2>11, <2>13, <2>15, <2>16 DEF Same
  <2>20. del' # NULL /\ del'.e = e /\ del'.step = 2 /\ del' \in [e : Entries, step : 1..3]
    BY <1>4, <1>6
  <2>21. Settled' = mem'
    BY <2>20 DEF Settled
  <2>22. DelInv'
    BY <1>1, <2>12, <2>18, <2>19, <2>20 DEF DelInv
  <2>23. ReadInv'
    <3>1. \A x \in Nodes : PrevOf(mem', x) = PrevOf(mem, x)
      BY <1>1, <1>6 DEF PrevOf, Next_
    <3>2. \A x \in Nodes : NextOf(mem', x) = IF x = p THEN n ELSE NextOf(mem, x)
      BY <1>1, <1>6, <2>2, <2>3, <2>12 DEF Mem, PrevOf, NextOf, Next_
    <3>3. NextOf(mem, p) = e
      <4>1. Adj(h, list[h], p, e)
        BY <2>8, <2>11, RingSteps
      <4>2. NextOf(m, p) = e
        BY <1>1, <2>8, <2>12, <4>1 DEF Good, Ringed
      <4>3. QED
        BY <4>2, <2>5 DEF NextOf, Prev_
    <3>4. QED
      BY <1>1, <2>1, <2>12, <2>20, <3>1, <3>2, <3>3, EntriesApart DEF IInv, ReadInv
  <2>24. QED
    BY <1>2, <2>18, <2>21, <2>22, <2>23 DEF IInv
<1>7. CASE /\ del = [e |-> e, step |-> 2]
           /\ mem' = Next_(mem, e, e)
           /\ del' = [e |-> e, step |-> 3] /\ UNCHANGED list
  <2>1. del # NULL /\ del.e = e /\ del.step = 2
    BY <1>4, <1>7
  <2>2. OnNone(list, e) /\ PrevOf(mem, e) # e /\ RingInv(mem, list)
    BY <2>1 DEF IInv, DelInv, Settled
  <2>3. /\ mem' \in Mem /\ \A x \in Nodes : PrevOf(mem', x) = PrevOf(mem, x)
        /\ \A x \in Nodes : NextOf(mem', x) = IF x = e THEN e ELSE NextOf(mem, x)
    BY <1>1, <1>7 DEF Mem, NextOf, PrevOf, Next_
  <2>4. \A x \in Nodes : x # e => Same(mem, mem', x)
    BY <2>3 DEF Same
  <2>5. PICK r : r = mem'
    OBVIOUS
  <2>6. RingInv(r, list)
    BY <1>1, <2>2, <2>4, <2>5, OffInv
  <2>7. del' # NULL /\ del'.e = e /\ del'.step = 3 /\ del' \in [e : Entries, step : 1..3]
    BY <1>4, <1>7
  <2>8. Settled' = mem'
    BY <2>7 DEF Settled
  <2>9. DelInv'
    BY <1>1, <1>7, <2>2, <2>3, <2>7 DEF DelInv, OnNone
  <2>10. ReadInv'
    BY <1>1, <2>1, <2>3, <2>7, EntriesApart DEF IInv, ReadInv
  <2>11. QED
    BY <1>1, <1>2, <1>7, <2>3, <2>5, <2>6, <2>8, <2>9, <2>10 DEF IInv
<1>8. CASE /\ del = [e |-> e, step |-> 3]
           /\ mem' = Prev_(mem, e, e)
           /\ del' = NULL /\ UNCHANGED list
  <2>1. del # NULL /\ del.e = e /\ del.step = 3
    BY <1>4, <1>8
  <2>2. OnNone(list, e) /\ RingInv(mem, list)
    BY <2>1 DEF IInv, DelInv, Settled
  <2>3. /\ mem' \in Mem /\ \A x \in Nodes : NextOf(mem', x) = NextOf(mem, x)
        /\ \A x \in Nodes : PrevOf(mem', x) = IF x = e THEN e ELSE PrevOf(mem, x)
    BY <1>1, <1>8 DEF Mem, NextOf, PrevOf, Prev_
  <2>4. \A x \in Nodes : x # e => Same(mem, mem', x)
    BY <2>3 DEF Same
  <2>5. PICK r : r = mem'
    OBVIOUS
  <2>6. RingInv(r, list)
    BY <1>1, <2>2, <2>4, <2>5, OffInv
  <2>7. Settled' = mem'
    BY <1>8 DEF Settled
  <2>8. DelInv'
    BY <1>8 DEF DelInv
  <2>9. ReadInv'
    BY <1>1, <1>8, <2>1, <2>3, EntriesApart DEF IInv, ReadInv
  <2>10. QED
    BY <1>1, <1>2, <1>8, <2>3, <2>5, <2>6, <2>7, <2>8, <2>9 DEF IInv
<1>9. QED
  BY <1>5, <1>6, <1>7, <1>8 DEF DelInitStore

LEMMA StepCarefulRead ==
  ASSUME IInv, NEW e \in Entries, CarefulRead(e)
  PROVE  IInv'
<1>1. it = NULL /\ UNCHANGED <<mem, list, it, del>> /\ mem \in Mem /\ list \in Lists /\ e \in Nodes
  BY EntriesApart DEF CarefulRead, IInv
<1>2. Settled' = Settled /\ RingInv(Settled', list') /\ DelInv' /\ LoopInv' /\ mem' \in Mem /\ list' \in Lists
  <2>1. Settled' = Settled
    BY <1>1 DEF Settled
  <2>2. RingInv(Settled', list')
    BY <1>1, <2>1 DEF IInv
  <2>3. DelInv' /\ LoopInv'
    BY <1>1 DEF IInv, DelInv, LoopInv, OnNone
  <2>4. QED
    BY <1>1, <2>1, <2>2, <2>3
<1>3. NextOf(mem, e) \in Nodes \cup {LIST_POISON1}
  BY <1>1 DEF Mem, NextOf
<1>4. ReadInv'
  <2>1. CASE /\ reader = NULL
             /\ reader' = [e |-> e, next |-> mem.next[e], empty |-> FALSE, done |-> FALSE]
    <3>1. /\ reader' \in [e : Entries, next : Nodes \cup {LIST_POISON1}, empty : BOOLEAN, done : BOOLEAN]
          /\ reader'.e = e /\ reader'.next = NextOf(mem, e) /\ reader'.empty = FALSE
      BY <2>1, <1>3 DEF NextOf
    <3>2. NextOf(mem', e) = NextOf(mem, e)
      BY <1>1
    <3>3. QED
      BY <1>1, <3>1, <3>2 DEF ReadInv
  <2>2. CASE /\ reader # NULL /\ reader.e = e /\ ~reader.done
             /\ reader' = [reader EXCEPT !.done = TRUE,
                              !.empty = list_empty_careful(reader.next, mem.prev[e], e)]
    <3>1. /\ reader \in [e : Entries, next : Nodes \cup {LIST_POISON1}, empty : BOOLEAN, done : BOOLEAN]
          /\ reader.next = e => NextOf(mem, e) = e
      BY <2>2 DEF IInv, ReadInv
    <3>2. PICK b \in BOOLEAN : b = (reader.next = e /\ reader.next = PrevOf(mem, e))
      OBVIOUS
    <3>3. reader' = [reader EXCEPT !.done = TRUE, !.empty = b]
      BY <2>2, <3>2 DEF list_empty_careful, PrevOf
    <3>4. /\ reader' \in [e : Entries, next : Nodes \cup {LIST_POISON1}, empty : BOOLEAN, done : BOOLEAN]
          /\ reader'.e = e /\ reader'.next = reader.next /\ reader'.empty = b
      BY <2>2, <3>1, <3>3
    <3>5. b => NextOf(mem, e) = e /\ PrevOf(mem, e) = e
      BY <3>1, <3>2
    <3>6. b /\ del # NULL => del.e # e
      <4>1. SUFFICES ASSUME b, del # NULL, del.e = e PROVE FALSE
        OBVIOUS
      <4>2. del.step # 1 => PrevOf(mem, e) # e
        BY <4>1 DEF IInv, DelInv
      <4>3. del.step = 1 /\ ~OnNone(list, e)
        BY <4>1, <4>2, <3>5 DEF IInv, DelInv
      <4>4. PICK m : m = Settled
        OBVIOUS
      <4>5. NextOf(m, e) = e /\ RingInv(m, list)
        BY <4>1, <4>3, <4>4, <3>5 DEF Settled, IInv, NextOf, Prev_
      <4>6. PICK h \in Heads : list[h] # Stale /\ e \in ToSet(list[h])
        BY <4>3 DEF OnNone
      <4>7. Good(m, h, list[h])
        BY <4>5, <4>6 DEF RingInv
      <4>8. QED
        BY <4>5, <4>6, <4>7, NotSelf
    <3>7. QED
      BY <1>1, <3>1, <3>4, <3>5, <3>6 DEF ReadInv
  <2>3. CASE reader' = NULL
    BY <2>3 DEF ReadInv
  <2>4. QED
    BY <2>1, <2>2, <2>3 DEF CarefulRead
<1>5. QED
  BY <1>2, <1>4 DEF IInv
-----------------------------------------------------------------------------
(* The theorems *)

LEMMA InitInv ==
  ASSUME Init
  PROVE  IInv
<1>1. it = NULL /\ del = NULL /\ reader = NULL /\ list = [h \in Heads |-> <<>>]
      /\ mem = [next |-> [n \in Nodes |-> n], prev |-> [n \in Nodes |-> n]]
  BY DEF Init
<1>2. mem \in Mem
  BY <1>1 DEF Mem
<1>3. <<>> \in Seq(Entries) /\ Len(<<>>) = 0 /\ ToSet(<<>>) = {} /\ Distinct(<<>>)
  BY DEF ToSet, Distinct
<1>4. list \in Lists /\ \A h \in Heads : list[h] = <<>>
  BY <1>1, <1>3 DEF Lists
<1>5. ASSUME NEW h \in Heads PROVE Good(mem, h, <<>>)
  <2>1. NextOf(mem, h) = h /\ PrevOf(mem, h) = h
    BY <1>1, HeadsApart DEF NextOf, PrevOf
  <2>2. \A a, b : Adj(h, <<>>, a, b) => a = h /\ b = h
    BY <1>3 DEF Adj, R
  <2>3. QED
    BY <1>3, <2>1, <2>2 DEF Good, Ringed
<1>6. RingInv(mem, list)
  BY <1>3, <1>4, <1>5 DEF RingInv
<1>7. Settled = mem
  BY <1>1 DEF Settled
<1>8. DelInv /\ ReadInv /\ LoopInv
  BY <1>1 DEF DelInv, ReadInv, LoopInv
<1>9. QED
  BY <1>2, <1>4, <1>6, <1>7, <1>8 DEF IInv

LEMMA NextInv ==
  ASSUME IInv, [Next]_vars
  PROVE  IInv'
<1>1. CASE UNCHANGED vars
  <2>1. UNCHANGED <<mem, list, it, del, reader>>
    BY <1>1 DEF vars
  <2>2. Settled' = Settled
    BY <2>1 DEF Settled
  <2>3. RingInv(Settled', list')
    BY <2>1, <2>2 DEF IInv
  <2>4. DelInv' /\ ReadInv' /\ LoopInv'
    BY <2>1 DEF IInv, DelInv, ReadInv, LoopInv, OnNone
  <2>5. QED
    BY <2>1, <2>3, <2>4 DEF IInv
<1>2. ASSUME NEW h \in Heads, ListRotateLeft(h) \/ InitListHead(h) PROVE IInv'
  BY <1>2, StepRotate, StepInitHead
<1>3. ASSUME NEW h \in Heads, NEW x \in Nodes, NEW new \in Entries, ListAdd(h, x, new) \/ ListAddTail(h, x, new)
      PROVE  IInv'
  BY <1>3, StepListAdd, StepListAddTail
<1>4. ASSUME NEW e \in Entries, ListDel(e) \/ ListDelInit(e) \/ DelInitStore(e) \/ CarefulRead(e) PROVE IInv'
  BY <1>4, StepDelete, StepDelInitStore, StepCarefulRead
<1>5. ASSUME NEW e \in Entries, NEW h \in Heads, ListMove(e, h) \/ ListMoveTail(e, h) PROVE IInv'
  BY <1>5, StepMove
<1>6. ASSUME NEW h \in Heads, NEW old \in Entries, NEW new \in Entries, NEW init \in BOOLEAN,
             ListReplace(h, old, new, init)
      PROVE  IInv'
  BY <1>6, StepReplace
<1>7. ASSUME NEW old \in Heads, NEW new \in Heads, NEW init \in BOOLEAN, ListReplaceHead(old, new, init)
      PROVE  IInv'
  BY <1>7, StepReplaceHead
<1>8. ASSUME NEW l \in Heads, NEW h \in Heads, NEW x \in Nodes, ListCutPosition(l, h, x) PROVE IInv'
  BY <1>8, StepCut
<1>9. ASSUME NEW l \in Heads, NEW h \in Heads, NEW tail \in BOOLEAN, NEW init \in BOOLEAN,
             ListSplice(l, h, tail, init)
      PROVE  IInv'
  BY <1>9, StepSplice
<1>10. ASSUME NEW h \in Heads, NEW x \in Nodes, NEW start \in {"for_each", "continue", "from"},
              NEW back \in BOOLEAN, NEW safe \in BOOLEAN, LoopStart(h, x, start, back, safe)
       PROVE  IInv'
  BY <1>10, StepLoopStart
<1>11. ASSUME NEW op \in {"none", "del", "del_init", "move", "move_tail"}, NEW h \in Heads, LoopBody(op, h)
       PROVE  IInv'
  BY <1>11, StepLoopBody
<1>12. ASSUME LoopBodyReset \/ LoopEnd PROVE IInv'
  BY <1>12, StepLoopReset, StepLoopEnd
<1>13. QED
  BY <1>1, <1>2, <1>3, <1>4, <1>5, <1>6, <1>7, <1>8, <1>9, <1>10, <1>11, <1>12 DEF Next

(* The lists are disjoint rings with n, the loop and the store-by-store    *)
(* list_del_init where the code means them to be, at every step of every   *)
(* operation of linux-list.h.                                              *)
THEOREM Invariance == Spec => []IInv
<1>1. Init => IInv
  BY InitInv
<1>2. IInv /\ [Next]_vars => IInv'
  BY NextInv
<1>3. QED
  BY <1>1, <1>2, PTL DEF Spec

(* For any number of lists and entries, every operation of linux-list.h    *)
(* (128-446) leaves each list a ring, in both directions, of the entries   *)
(* the caller put there; next is that ring even between the two stores of  *)
(* __list_del.                                                             *)
THEOREM RingsKept == Spec => []ListsAreRings
<1>1. IInv => ListsAreRings
  <2>1. SUFFICES ASSUME IInv PROVE ListsAreRings
    OBVIOUS
  <2>2. PICK m : m = Settled
    OBVIOUS
  <2>3. mem \in Mem /\ list \in Lists /\ RingInv(m, list) /\ DelInv /\ ReadInv /\ LoopInv
    BY <2>1, <2>2 DEF IInv
  <2>4. \A x : NextOf(mem, x) = NextOf(m, x)
    BY <2>2 DEF Settled, NextOf, Prev_
  <2>5. del = NULL => m = mem
    BY <2>2 DEF Settled
  <2>6. ASSUME NEW h \in Live, NEW i \in 0..Len(list[h])
        PROVE  /\ NextOf(m, R(h, list[h], i)) = R(h, list[h], i + 1)
               /\ PrevOf(m, R(h, list[h], i + 1)) = R(h, list[h], i)
    <3>1. h \in Heads /\ Good(m, h, list[h])
      BY <2>3 DEF RingInv, Live
    <3>2. QED
      BY <3>1, RingPlaces
  <2>7. \A h, i : Ring(h, i) = R(h, list[h], i)
    BY DEF Ring, R
  <2>8. NextIsList
    BY <2>4, <2>6, <2>7 DEF NextIsList, NextOf
  <2>9. PrevIsList
    BY <2>5, <2>6, <2>7 DEF PrevIsList, PrevOf
  <2>10. \A h \in Live : list[h] \in Seq(Entries)
    BY <2>3 DEF Live, Lists
  <2>11. ASSUME it # NULL PROVE it.head \in Live /\ it.pos \in Nodes
    <3>1. it.head \in Live /\ it.head \in Heads /\ it.back \in BOOLEAN
      BY <2>3, <2>11 DEF LoopInv, Live
    <3>2. PICK p \in 1..(Len(list[it.head]) + 1) : Stands(it, Turned(list[it.head], it.back), p)
      BY <2>3, <2>11 DEF LoopInv
    <3>3. PICK w : w = Turned(list[it.head], it.back)
      OBVIOUS
    <3>4. w \in Seq(Entries) /\ it.pos = R(it.head, w, p)
      BY <2>10, <3>1, <3>2, <3>3, Turns DEF Stands
    <3>5. R(it.head, w, p) \in Entries \cup {it.head}
      BY <3>4 DEF R
    <3>6. QED
      BY <3>1, <3>4, <3>5 DEF Nodes
  <2>12. del # NULL => del.e \in Entries
    BY <2>3 DEF DelInv
  <2>13. reader # NULL => reader.e \in Entries
    BY <2>3 DEF ReadInv
  <2>14. TypeOK
    BY <2>3, <2>10, <2>11, <2>12, <2>13 DEF TypeOK, Mem
  <2>15. QED
    BY <2>8, <2>9, <2>14 DEF ListsAreRings
<1>2. QED
  BY <1>1, Invariance, PTL

(* The loop macros (linux-list.h:510-676) run their body once for each     *)
(* entry ahead, in order, on lists of any length: whether the body of a    *)
(* safe loop deletes its entry, moves it to another list or to the end it  *)
(* comes from, or deletes the next one and calls list_safe_reset_next.     *)
THEOREM LoopsMeetAll == Spec => []LoopMeetsAll
<1>1. IInv => LoopMeetsAll
  <2>1. SUFFICES ASSUME IInv, it # NULL
                 PROVE  IsPrefix(it.seen, it.todo) /\ (it.pos = it.head => it.seen = it.todo)
    BY DEF LoopMeetsAll
  <2>2. LoopInv /\ list \in Lists
    BY <2>1 DEF IInv
  <2>3. it.head \in Heads /\ it.back \in BOOLEAN /\ list[it.head] # Stale
    BY <2>1, <2>2 DEF LoopInv
  <2>4. PICK p \in 1..(Len(list[it.head]) + 1) : Stands(it, Turned(list[it.head], it.back), p)
    BY <2>1, <2>2 DEF LoopInv
  <2>5. PICK w : w = Turned(list[it.head], it.back)
    OBVIOUS
  <2>6. list[it.head] \in Seq(Entries)
    BY <2>2, <2>3, ListTypes
  <2>7. w \in Seq(Entries) /\ Len(w) \in Nat /\ p \in 1..(Len(w) + 1)
    BY <2>3, <2>5, <2>6, Turns
  <2>8. it.pos = R(it.head, w, p) /\ Behind(it.seen, it.todo, w, p)
    BY <2>4, <2>5 DEF Stands
  <2>9. PICK a : a = it.seen
    OBVIOUS
  <2>10. PICK b : b = it.todo
    OBVIOUS
  <2>11. /\ a \in Seq(Entries) /\ b \in Seq(Entries) /\ Len(a) \in Nat
         /\ Len(b) = Len(a) + (Len(w) + 1 - p)
         /\ \A i \in 1..Len(a) : b[i] = a[i]
    <3>1. Behind(a, b, w, p)
      BY <2>8, <2>9, <2>10
    <3>2. QED
      BY <3>1 DEF Behind
  <2>12. Len(a) <= Len(b)
    BY <2>7, <2>11
  <2>13. SubSeq(a, 1, Len(a)) = SubSeq(b, 1, Len(a))
    BY <2>11, <2>12
  <2>14. ASSUME it.pos = it.head PROVE a = b
    <3>1. p = Len(w) + 1
      <4>1. SUFFICES ASSUME p # Len(w) + 1 PROVE FALSE
        OBVIOUS
      <4>2. p \in 1..Len(w)
        BY <4>1, <2>7
      <4>3. it.head \in Entries
        BY <4>2, <2>7, <2>8, <2>14 DEF R
      <4>4. QED
        BY <4>3, <2>3, HeadsApart
    <3>2. Len(b) = Len(a)
      BY <3>1, <2>7, <2>11
    <3>3. QED
      BY <3>2, <2>11
  <2>15. QED
    BY <2>9, <2>10, <2>12, <2>13, <2>14 DEF IsPrefix
<1>2. QED
  BY <1>1, Invariance, PTL

(* list_empty_careful (linux-list.h:308) is true only once the             *)
(* list_del_init on the other CPU has done its last store, wherever the    *)
(* two reads fall between its four stores.                                 *)
THEOREM CarefulIsDone == Spec => []CarefulMeansDone
<1>1. IInv => CarefulMeansDone
  BY DEF IInv, ReadInv, CarefulMeansDone, Alone, NextOf, PrevOf
<1>2. QED
  BY <1>1, Invariance, PTL
=============================================================================
