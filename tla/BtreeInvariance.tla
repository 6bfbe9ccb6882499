-------------------------- MODULE BtreeInvariance ---------------------------
(***************************************************************************)
(* Every operation of the B-tree keeps its tree, its free list, its cursor *)
(* and its hint in order, for any sizes of pages and records: the delete   *)
(* that takes empty pages out up to the root, the put that finds its page, *)
(* replaces or splits, the cursor that moves, the sync and the next open.  *)
(* What follows: get finds what was put, the free list is apart from the   *)
(* tree, the tree is a dictionary, its levels are linked from left to      *)
(* right and a scan meets the keys in order.                               *)
(***************************************************************************)
EXTENDS BtreeProofs

\* The free list when page X of the tree is freed.
LEMMA FreedFree ==
  ASSUME NEW S \in TreeM, NEW Q \in SUBSET PageNo, NEW fl, NEW n, FreeOK(S.page, S.free, S.npages, Q, fl, n),
         NEW X \in Q, S.page[X].prev \in Q \cup {P_INVALID}, NEW W, W = Free(Relink(S, X), X)
  PROVE  \E f, m : FreeOK(W.page, W.free, W.npages, Q \ {X}, f, m)
<1>1. X \in PageNo
  OBVIOUS
<1>2. /\ W = [page |-> W.page, npages |-> S.npages, free |-> X, memory |-> S.memory,
              cursor |-> S.cursor, last |-> S.last]
      /\ IsFreed(S.page, W.page, X, S.free)
  BY <1>1, FreedIs
<1>3. W.npages = S.npages /\ W.free = X
  BY ONLY <1>2
<1>4. (\A p \in PageNo : S.page[p].next < S.npages) /\ S.free < S.npages
  BY DEF FreeOK
<1>5. W.page[X].next = S.free
  BY ONLY <1>2 DEF IsFreed
<1>6. ASSUME NEW y \in PageNo, y # X
      PROVE  W.page[y].next = IF y = S.page[X].prev /\ y # S.page[X].next THEN S.page[X].next ELSE S.page[y].next
  <2>1. PICK a : a = IF y = S.page[X].next THEN S.page[X].prev ELSE S.page[y].prev
    OBVIOUS
  <2>2. PICK b : b = IF y = S.page[X].prev /\ y # S.page[X].next THEN S.page[X].next ELSE S.page[y].next
    OBVIOUS
  <2>3. W.page[y] = Sibling(S.page[y], a, b, S.page[y].ents)
    BY ONLY <1>2, <1>6, <2>1, <2>2 DEF IsFreed
  <2>4. W.page[y].next = b
    BY ONLY <2>3, SiblingIs
  <2>5. QED
    BY ONLY <2>2, <2>4
<1>7. \A y \in PageNo : W.page[y].next < S.npages
  BY ONLY <1>1, <1>4, <1>5, <1>6
<1>8. \A y \in PageNo : y \notin Q => W.page[y].next = S.page[y].next
  <2>1. P_INVALID \notin PageNo
    BY Numbers
  <2>2. QED
    BY <1>6, <2>1
<1>9. \E f : FreeOK(W.page, X, S.npages, Q \ {X}, f, n + 1)
  BY <1>1, <1>5, <1>7, <1>8, FreePush
<1>10. QED
  BY ONLY <1>3, <1>9

\* A step of __bt_pdelete, as in Pdelete, and the table of its steps.
Drop(s, e) ==
  IF Len(s.t.page[e.pgno].ents) > 1
  THEN [t |-> [s.t EXCEPT !.page[e.pgno].ents = RemoveAt(@, e.index)], up |-> FALSE]
  ELSE IF e.pgno = P_ROOT
  THEN [t |-> [s.t EXCEPT !.page[P_ROOT].ents = <<>>, !.page[P_ROOT].leaf = TRUE], up |-> FALSE]
  ELSE [t |-> Free(Relink(s.t, e.pgno), e.pgno), up |-> TRUE]

IsDrops(T, path, pgs, f) ==
  f = [j \in pgs |-> IF j = 0 THEN [t |-> T, up |-> TRUE]
                   ELSE IF f[j - 1].up THEN Drop(f[j - 1], path[Len(path) - j]) ELSE f[j - 1]]

\* The table that Pdelete builds from the leaf upwards exists.
LEMMA DropsExist ==
  ASSUME NEW T, NEW path, NEW n \in Nat
  PROVE  \E f : IsDrops(T, path, 0 .. n, f)
<1> DEFINE S == {m \in Nat : \E f : IsDrops(T, path, 0 .. m, f)}
<1>0. PICK a : a = [t |-> T, up |-> TRUE]
  OBVIOUS
<1>1. 0 \in S
  <2>2. PICK f : f = [j \in 0 .. 0 |-> a]
    OBVIOUS
  <2>3. f = [j \in 0 .. 0 |-> IF j = 0 THEN a
               ELSE IF f[j - 1].up THEN Drop(f[j - 1], path[Len(path) - j]) ELSE f[j - 1]]
    BY <2>2
  <2>4. IsDrops(T, path, 0 .. 0, f)
    BY <1>0, <2>3 DEF IsDrops
  <2>5. QED
    BY <2>4
<1>2. ASSUME NEW m \in 0 .. n, m # n, m \in S PROVE m + 1 \in S
  <2>1. PICK f : IsDrops(T, path, 0 .. m, f)
    BY <1>2
  <2>3. PICK h : h = [j \in 0 .. m + 1 |-> IF f[j - 1].up THEN Drop(f[j - 1], path[Len(path) - j]) ELSE f[j - 1]]
    OBVIOUS
  <2>4. m \in Nat /\ m + 1 \in Nat
    BY <1>2
  <2>5. PICK g : g = [j \in 0 .. m + 1 |-> IF j \in 0 .. m THEN f[j] ELSE h[j]]
    OBVIOUS
  <2>6. \A j \in 0 .. m + 1 : j # 0 => j - 1 \in 0 .. m /\ j - 1 \in 0 .. m + 1
    BY <2>4
  <2>7. \A j \in 0 .. m + 1 : j # 0 => g[j - 1] = f[j - 1]
    BY <2>5, <2>6
  <2>8. f = [j \in 0 .. m |-> IF j = 0 THEN a
               ELSE IF f[j - 1].up THEN Drop(f[j - 1], path[Len(path) - j]) ELSE f[j - 1]]
    BY <1>0, <2>1 DEF IsDrops
  <2>9. \A j \in 0 .. m : j \in 0 .. m + 1 /\ f[j] = IF j = 0 THEN a ELSE h[j]
    BY <2>3, <2>4, <2>8
  <2>10. \A j \in 0 .. m + 1 : g[j] = IF j = 0 THEN a ELSE h[j]
    BY <2>4, <2>5, <2>9
  <2>11. \A j \in 0 .. m + 1 : j # 0 => h[j] = IF g[j - 1].up THEN Drop(g[j - 1], path[Len(path) - j]) ELSE g[j - 1]
    BY <2>3, <2>7
  <2>12. g = [j \in 0 .. m + 1 |-> IF j = 0 THEN a
               ELSE IF g[j - 1].up THEN Drop(g[j - 1], path[Len(path) - j]) ELSE g[j - 1]]
    BY <2>5, <2>10, <2>11
  <2>13. IsDrops(T, path, 0 .. m + 1, g)
    BY <1>0, <2>12 DEF IsDrops
  <2>14. QED
    BY <2>4, <2>13
<1>3. n \in S
  <2> HIDE DEF S
  <2>1. \A m \in 0 .. n : m \in S
    BY <1>1, <1>2, Counting
  <2>2. QED
    BY <2>1
<1>4. QED
  BY <1>3

\* Pdelete frees the leaf after the last entry of that table.
LEMMA PdeleteDrops ==
  ASSUME NEW T, NEW path, Len(path) \in Nat, Len(path) # 0, path[Len(path)].pgno # P_ROOT
  PROVE  \E f : /\ IsDrops(T, path, 0 .. Len(path) - 1, f)
                /\ Pdelete(T, path) = Free(Relink(f[Len(path) - 1].t, path[Len(path)].pgno), path[Len(path)].pgno)
<1> DEFINE f == CHOOSE g : IsDrops(T, path, 0 .. Len(path) - 1, g)
<1>1. Len(path) - 1 \in Nat
  OBVIOUS
<1>2. IsDrops(T, path, 0 .. Len(path) - 1, f)
  <2>1. \E g : IsDrops(T, path, 0 .. Len(path) - 1, g)
    BY <1>1, DropsExist
  <2>2. QED
    BY <2>1
<1>3. Pdelete(T, path) = IF path[Len(path)].pgno = P_ROOT THEN f[Len(path) - 1].t
                         ELSE Free(Relink(f[Len(path) - 1].t, path[Len(path)].pgno), path[Len(path)].pgno)
  BY DEF Pdelete, IsDrops, Drop
<1>4. QED
  BY <1>2, <1>3

\* The pages of the path below level j + 1 and above the leaf.
Inner(path, j) == {path[Len(path) - m].pgno : m \in 1 .. j}

\* The pages above the leaf that j turns of the loop of __bt_pdelete free.
LEMMA InnerNext ==
  ASSUME NEW path, NEW j \in Nat
  PROVE  Inner(path, 0) = {} /\ Inner(path, j + 1) = Inner(path, j) \cup {path[Len(path) - (j + 1)].pgno}
<1>1. \A m : m \in 1 .. j + 1 <=> m \in 1 .. j \/ m = j + 1
  OBVIOUS
<1>2. 1 .. 0 = {}
  OBVIOUS
<1>3. QED
  BY ONLY <1>1, <1>2 DEF Inner

\* The tree with pages page; the record of the leaf at the end of the path was its
\* only one, and T is the tree without it.
EraseAt(T, page, R, lv, lo, hi, k, path, leaf) ==
  /\ TreeOK(page, R, lv, lo, hi, P_INVALID) /\ IsPath(page, R, lv, lo, hi, P_ROOT, k, path)
  /\ leaf = path[Len(path)].pgno /\ leaf # P_ROOT /\ Len(page[leaf].ents) = 1
  /\ T \in TreeM /\ T.page = WithEnts(page, leaf, <<>>)
  /\ \E fl, n : FreeOK(T.page, T.free, T.npages, R, fl, n)

LEMMA EraseTypes ==
  ASSUME NEW T, NEW page, NEW R, NEW lv, NEW lo, NEW hi, NEW k, NEW path, NEW leaf,
         EraseAt(T, page, R, lv, lo, hi, k, path, leaf)
  PROVE  /\ TreeOK(page, R, lv, lo, hi, P_INVALID) /\ R \in SUBSET PageNo /\ P_ROOT \in R
         /\ Len(path) \in Nat /\ Len(path) >= 2 /\ leaf \in R /\ lv[leaf] = 0
         /\ leaf = path[Len(path) - 0].pgno /\ path[Len(path) - (Len(path) - 1)].pgno = P_ROOT
         /\ \A j \in Nat : j < Len(path) => IsClimb(page, R, lv, path, j)
         /\ T.page \in [PageNo -> Page]
         /\ \A y \in PageNo : /\ T.page[y].prev = page[y].prev /\ T.page[y].next = page[y].next
                              /\ T.page[y].leaf = page[y].leaf /\ (y # leaf => T.page[y] = page[y])
         /\ Chained(page, R, lv) /\ Chained(T.page, R, lv)
<1>1. TreeOK(page, R, lv, lo, hi, P_INVALID) /\ IsPath(page, R, lv, lo, hi, P_ROOT, k, path)
      /\ leaf = path[Len(path)].pgno /\ leaf # P_ROOT /\ T \in TreeM /\ T.page = WithEnts(page, leaf, <<>>)
  BY DEF EraseAt
<1>2. R \in SUBSET PageNo /\ P_ROOT \in R /\ lv[P_ROOT] \in Nat /\ page \in [PageNo -> Page]
  BY ONLY <1>1 DEF TreeOK, Typed
<1>3. Len(path) = lv[P_ROOT] + 1 /\ path[1].pgno = P_ROOT
  BY ONLY <1>1 DEF IsPath
<1>4. Len(path) \in Nat /\ Len(path) # 0 /\ Len(path) # 1
  BY ONLY <1>1, <1>2, <1>3
<1>5. Len(path) >= 2 /\ Len(path) - 0 = Len(path) /\ Len(path) - (Len(path) - 1) = 1 /\ 0 < Len(path)
  <2>1. \A n \in Nat : n # 0 /\ n # 1 => n >= 2 /\ n - 0 = n /\ n - (n - 1) = 1 /\ 0 < n
    OBVIOUS
  <2>2. QED
    BY ONLY <1>4, <2>1
<1>6. ASSUME NEW j \in Nat, j < Len(path) PROVE IsClimb(page, R, lv, path, j)
  BY ONLY <1>1, <1>2, <1>6, Climb
<1>7. leaf \in R /\ lv[leaf] = 0
  <2>1. IsClimb(page, R, lv, path, 0)
    BY ONLY <1>5, <1>6
  <2>2. QED
    BY ONLY <1>1, <1>5, <2>1 DEF IsClimb
<1>8. T.page \in [PageNo -> Page]
  BY ONLY <1>1, TreeRecord
<1>9. \A y \in PageNo : /\ T.page[y].prev = page[y].prev /\ T.page[y].next = page[y].next
                        /\ T.page[y].leaf = page[y].leaf /\ (y # leaf => T.page[y] = page[y])
  BY ONLY <1>1, <1>2, <1>7, WithEntsIs
<1>10. Chained(page, R, lv)
  BY ONLY <1>1, ChainedIs
<1>11. Chained(T.page, R, lv)
  <2>1. \A y \in R : T.page[y].prev = page[y].prev /\ T.page[y].next = page[y].next
    BY ONLY <1>2, <1>9
  <2>2. QED
    BY ONLY <1>10, <2>1 DEF Chained
<1>12. QED
  BY ONLY <1>1, <1>2, <1>3, <1>4, <1>5, <1>6, <1>7, <1>8, <1>9, <1>10, <1>11

\* After j pages of the path are gone.
Gone(T, page, R, lv, lo, hi, path, leaf, j, s) ==
  /\ s.up /\ s.t \in TreeM /\ s.t.cursor = T.cursor /\ s.t.last = T.last /\ s.t.memory = T.memory
  /\ s.t.npages = T.npages
  /\ \E fl, n : FreeOK(s.t.page, s.t.free, s.t.npages, R \ Inner(path, j), fl, n)
  /\ Unlinked(T.page, s.t.page, R, Inner(path, j), P_INVALID, <<>>)
  /\ \A m \in 1 .. j : path[Len(path) - m].pgno # P_ROOT /\ Len(page[path[Len(path) - m].pgno].ents) = 1
  /\ \A m \in 0 .. j : lo[path[Len(path) - m].pgno] = lo[leaf] /\ hi[path[Len(path) - m].pgno] = hi[leaf]

LEMMA InnerIs ==
  ASSUME NEW T, NEW page, NEW R, NEW lv, NEW lo, NEW hi, NEW k, NEW path, NEW leaf,
         EraseAt(T, page, R, lv, lo, hi, k, path, leaf), NEW j \in Nat, j < Len(path)
  PROVE  /\ Inner(path, j) \in SUBSET R
         /\ \A c \in Inner(path, j) : lv[c] \in 1 .. j /\ c = path[Len(path) - lv[c]].pgno
         /\ \A m \in 1 .. j : path[Len(path) - m].pgno \in Inner(path, j)
<1>1. Len(path) \in Nat /\ \A m \in Nat : m < Len(path) => IsClimb(page, R, lv, path, m)
  BY EraseTypes
<1>2. ASSUME NEW c \in Inner(path, j) PROVE c \in R /\ lv[c] \in 1 .. j /\ c = path[Len(path) - lv[c]].pgno
  <2>1. PICK m \in 1 .. j : c = path[Len(path) - m].pgno
    BY ONLY <1>2 DEF Inner
  <2>2. m \in Nat /\ m < Len(path)
    BY ONLY <1>1, <2>1, j \in Nat, j < Len(path)
  <2>3. IsClimb(page, R, lv, path, m)
    BY ONLY <1>1, <2>2
  <2>4. c \in R /\ lv[c] = m
    BY ONLY <2>1, <2>3 DEF IsClimb
  <2>5. QED
    BY ONLY <2>1, <2>4
<1>3. \A m \in 1 .. j : path[Len(path) - m].pgno \in Inner(path, j)
  BY ONLY DEF Inner
<1>4. QED
  BY ONLY <1>2, <1>3

\* Before the first turn nothing is gone.
LEMMA GoneFirst ==
  ASSUME NEW T, NEW page, NEW R, NEW lv, NEW lo, NEW hi, NEW k, NEW path, NEW leaf,
         EraseAt(T, page, R, lv, lo, hi, k, path, leaf), NEW s, s = [t |-> T, up |-> TRUE]
  PROVE  Gone(T, page, R, lv, lo, hi, path, leaf, 0, s)
<1>1. Inner(path, 0) = {}
  BY InnerNext
<1>2. s.t = T /\ s.up
  OBVIOUS
<1>3. T \in TreeM /\ \E fl, n : FreeOK(T.page, T.free, T.npages, R, fl, n)
  BY DEF EraseAt
<1>4. T.page \in [PageNo -> Page] /\ R \in SUBSET PageNo /\ leaf = path[Len(path) - 0].pgno
  BY EraseTypes
<1>5. R \ Inner(path, 0) = R
  BY ONLY <1>1
<1>6. Unlinked(T.page, T.page, R, {}, P_INVALID, <<>>)
  <2>1. ASSUME NEW p \in R \ {}
        PROVE  T.page[p] = Sibling(T.page[p], IF T.page[p].prev \in {} THEN T.page[T.page[p].prev].prev ELSE T.page[p].prev,
                        IF T.page[p].next \in {} THEN T.page[T.page[p].next].next ELSE T.page[p].next,
                        IF p = P_INVALID THEN <<>> ELSE T.page[p].ents)
    <3>1. T.page[p] \in Page /\ p \in PageNo
      BY ONLY <1>4, <2>1
    <3>2. T.page[p] = Sibling(T.page[p], T.page[p].prev, T.page[p].next, T.page[p].ents)
      BY ONLY <3>1, PageParts
    <3>3. p # P_INVALID
      BY <3>1, Numbers
    <3>4. QED
      BY ONLY <3>2, <3>3
  <2>2. QED
    BY ONLY <1>4, <2>1 DEF Unlinked
<1>7. \A m \in 0 .. 0 : lo[path[Len(path) - m].pgno] = lo[leaf] /\ hi[path[Len(path) - m].pgno] = hi[leaf]
  <2>1. \A m \in 0 .. 0 : m = 0
    OBVIOUS
  <2>2. QED
    BY ONLY <1>4, <2>1
<1>8. \A m \in 1 .. 0 : path[Len(path) - m].pgno # P_ROOT /\ Len(page[path[Len(path) - m].pgno].ents) = 1
  OBVIOUS
<1>9. QED
  BY ONLY <1>1, <1>2, <1>3, <1>5, <1>6, <1>7, <1>8 DEF Gone

\* The page of the path on level j + 1, as the walk finds it.
Found(page, R, lv, path, leaf, j, s, X) ==
  /\ X \in R \ Inner(path, j) /\ lv[X] = j + 1 /\ X # leaf /\ X \in PageNo
  /\ \A c \in Inner(path, j) : lv[c] # lv[X]
  /\ s.t.page[X].ents = page[X].ents /\ Len(page[X].ents) \in Nat /\ Len(page[X].ents) # 0
  /\ path[Len(path) - (j + 1)].index \in 1 .. Len(page[X].ents)
  /\ page[X].ents[path[Len(path) - (j + 1)].index].v = path[Len(path) - j].pgno
  /\ s.t.page[X].prev = page[X].prev
  /\ page[X].prev \in (R \ Inner(path, j)) \cup {P_INVALID}

\* The next turn finds its page as it was, but for links.
LEMMA GoneFinds ==
  ASSUME NEW T, NEW page, NEW R, NEW lv, NEW lo, NEW hi, NEW k, NEW path, NEW leaf,
         EraseAt(T, page, R, lv, lo, hi, k, path, leaf), NEW j \in Nat, j + 1 < Len(path),
         NEW s, Gone(T, page, R, lv, lo, hi, path, leaf, j, s), NEW X, X = path[Len(path) - (j + 1)].pgno
  PROVE  Found(page, R, lv, path, leaf, j, s, X)
<1>1. /\ TreeOK(page, R, lv, lo, hi, P_INVALID) /\ R \in SUBSET PageNo /\ Len(path) \in Nat /\ leaf \in R /\ lv[leaf] = 0
      /\ \A m \in Nat : m < Len(path) => IsClimb(page, R, lv, path, m)
      /\ \A y \in PageNo : T.page[y].prev = page[y].prev /\ (y # leaf => T.page[y] = page[y])
      /\ Chained(page, R, lv)
  BY EraseTypes
<1>2. j < Len(path) /\ j + 1 \in Nat
  BY ONLY <1>1, j \in Nat, j + 1 < Len(path)
<1>3. Inner(path, j) \in SUBSET R /\ \A c \in Inner(path, j) : lv[c] \in 1 .. j
  BY <1>2, InnerIs
<1>4. X \in R /\ lv[X] = j + 1
  <2>1. IsClimb(page, R, lv, path, j + 1)
    BY ONLY <1>1, <1>2, j + 1 < Len(path)
  <2>2. QED
    BY ONLY <2>1, X = path[Len(path) - (j + 1)].pgno DEF IsClimb
<1>5. \A c \in Inner(path, j) : lv[c] # j + 1
  BY ONLY <1>3, j \in Nat
<1>6. X \notin Inner(path, j) /\ X # leaf /\ X \in PageNo
  BY ONLY <1>1, <1>4, <1>5, j \in Nat
<1>7. /\ path[Len(path) - (j + 1)].index \in 1 .. Len(page[X].ents)
      /\ page[X].ents[path[Len(path) - (j + 1)].index].v = path[Len(path) - j].pgno
  <2>1. IsClimb(page, R, lv, path, j)
    BY ONLY <1>1, <1>2, j \in Nat
  <2>2. QED
    BY ONLY <2>1, j + 1 < Len(path), X = path[Len(path) - (j + 1)].pgno DEF IsClimb
<1>8. Len(page[X].ents) \in Nat
  BY ONLY <1>1, <1>4, InTree
<1>9. Len(page[X].ents) # 0
  BY ONLY <1>7, <1>8
<1>10. page[X].prev \in (R \ Inner(path, j)) \cup {P_INVALID}
  BY ONLY <1>1, <1>3, <1>4, <1>5 DEF Chained
<1>11. Unlinked(T.page, s.t.page, R, Inner(path, j), P_INVALID, <<>>)
  BY DEF Gone
<1>12. X # P_INVALID /\ P_INVALID \notin Inner(path, j)
  <2>1. P_INVALID \notin PageNo
    BY Numbers
  <2>2. QED
    BY ONLY <1>1, <1>3, <1>6, <2>1
<1>13. /\ s.t.page[X].prev = IF T.page[X].prev \in Inner(path, j) THEN T.page[T.page[X].prev].prev ELSE T.page[X].prev
       /\ s.t.page[X].ents = IF X = P_INVALID THEN <<>> ELSE T.page[X].ents
  <2>1. X \in R \ Inner(path, j)
    BY ONLY <1>4, <1>6
  <2>2. QED
    BY ONLY <1>11, <2>1, UnlinkedIs
<1>14. T.page[X] = page[X]
  BY ONLY <1>1, <1>6
<1>15. s.t.page[X].prev = page[X].prev
  BY ONLY <1>10, <1>12, <1>13, <1>14
<1>16. s.t.page[X].ents = page[X].ents
  BY ONLY <1>12, <1>13, <1>14
<1>17. QED
  BY ONLY <1>4, <1>5, <1>6, <1>7, <1>8, <1>9, <1>10, <1>15, <1>16 DEF Found

\* A turn that goes on has freed one page more.
LEMMA GoneNext ==
  ASSUME NEW T, NEW page, NEW R, NEW lv, NEW lo, NEW hi, NEW k, NEW path, NEW leaf,
         EraseAt(T, page, R, lv, lo, hi, k, path, leaf), NEW j \in Nat, j + 1 < Len(path),
         NEW s, Gone(T, page, R, lv, lo, hi, path, leaf, j, s), NEW u, u = Drop(s, path[Len(path) - (j + 1)]), u.up
  PROVE  Gone(T, page, R, lv, lo, hi, path, leaf, j + 1, u)
<1>1. /\ TreeOK(page, R, lv, lo, hi, P_INVALID) /\ R \in SUBSET PageNo /\ Len(path) \in Nat
      /\ Chained(T.page, R, lv)
  BY EraseTypes
<1>2. PICK X : X = path[Len(path) - (j + 1)].pgno
  OBVIOUS
<1>3. Found(page, R, lv, path, leaf, j, s, X)
  BY <1>2, GoneFinds
<1>4. PICK C : C = Inner(path, j)
  OBVIOUS
<1>5. /\ X \in R \ C /\ X \in PageNo /\ (\A c \in C : lv[c] # lv[X]) /\ lv[X] = j + 1
      /\ s.t.page[X].ents = page[X].ents /\ Len(page[X].ents) \in Nat /\ Len(page[X].ents) # 0
      /\ s.t.page[X].prev \in (R \ C) \cup {P_INVALID}
  BY ONLY <1>3, <1>4 DEF Found
<1>6. C \in SUBSET R
  <2>1. j < Len(path)
    BY ONLY <1>1, j \in Nat, j + 1 < Len(path)
  <2>2. QED
    BY <1>4, <2>1, InnerIs
<1>7. ~(Len(page[X].ents) > 1) /\ X # P_ROOT /\ u = [t |-> Free(Relink(s.t, X), X), up |-> TRUE]
  <2>1. u = IF Len(page[X].ents) > 1
            THEN [t |-> [s.t EXCEPT !.page[X].ents = RemoveAt(@, path[Len(path) - (j + 1)].index)], up |-> FALSE]
            ELSE IF X = P_ROOT
            THEN [t |-> [s.t EXCEPT !.page[P_ROOT].ents = <<>>, !.page[P_ROOT].leaf = TRUE], up |-> FALSE]
            ELSE [t |-> Free(Relink(s.t, X), X), up |-> TRUE]
    BY ONLY <1>2, <1>5, u = Drop(s, path[Len(path) - (j + 1)]) DEF Drop
  <2>2. QED
    BY ONLY <2>1, u.up, SMTT(30)
<1>8. PICK W : W = Free(Relink(s.t, X), X)
  OBVIOUS
<1>9. u.t = W /\ Len(page[X].ents) = 1
  <2>1. u.t = W
    BY ONLY <1>7, <1>8
  <2>2. \A n \in Nat : n # 0 /\ ~(n > 1) => n = 1
    OBVIOUS
  <2>3. QED
    BY ONLY <1>5, <1>7, <2>1, <2>2
<1>10. /\ s.t \in TreeM /\ s.t.cursor = T.cursor /\ s.t.last = T.last /\ s.t.memory = T.memory /\ s.t.npages = T.npages
       /\ (\E fl, n : FreeOK(s.t.page, s.t.free, s.t.npages, R \ C, fl, n))
       /\ Unlinked(T.page, s.t.page, R, C, P_INVALID, <<>>)
  BY ONLY <1>4, Gone(T, page, R, lv, lo, hi, path, leaf, j, s) DEF Gone
<1>11. /\ W = [page |-> W.page, npages |-> s.t.npages, free |-> X, memory |-> s.t.memory,
               cursor |-> s.t.cursor, last |-> s.t.last]
       /\ IsFreed(s.t.page, W.page, X, s.t.free) /\ W \in TreeM
  BY ONLY <1>5, <1>8, <1>10, FreedIs
<1>12. W.npages = T.npages /\ W.memory = T.memory /\ W.cursor = T.cursor /\ W.last = T.last
  BY ONLY <1>10, <1>11
<1>13. \E f, m : FreeOK(W.page, W.free, W.npages, (R \ C) \ {X}, f, m)
  <2>1. PICK fl, n : FreeOK(s.t.page, s.t.free, s.t.npages, R \ C, fl, n)
    BY ONLY <1>10
  <2>2. R \ C \in SUBSET PageNo
    BY ONLY <1>1
  <2>3. QED
    BY ONLY <1>5, <1>8, <1>10, <2>1, <2>2, FreedFree
<1>14. Unlinked(T.page, W.page, R, C \cup {X}, P_INVALID, <<>>)
  BY ONLY <1>1, <1>5, <1>6, <1>10, <1>11, UnlinkStep
<1>15. Inner(path, j + 1) = C \cup {X}
  BY <1>2, <1>4, InnerNext
<1>16. R \ Inner(path, j + 1) = (R \ C) \ {X}
  BY ONLY <1>15
<1>17. \A m \in 1 .. j + 1 : m \in 1 .. j \/ m = j + 1
  OBVIOUS
<1>18. \A m \in 0 .. j + 1 : m \in 0 .. j \/ m = j + 1
  OBVIOUS
<1>19. \A m \in 1 .. j + 1 : path[Len(path) - m].pgno # P_ROOT /\ Len(page[path[Len(path) - m].pgno].ents) = 1
  <2>1. \A m \in 1 .. j : path[Len(path) - m].pgno # P_ROOT /\ Len(page[path[Len(path) - m].pgno].ents) = 1
    BY DEF Gone
  <2>2. QED
    BY ONLY <1>2, <1>7, <1>9, <1>17, <2>1
<1>20. lo[X] = lo[leaf] /\ hi[X] = hi[leaf]
  <2>1. PICK c : c = path[Len(path) - j].pgno
    OBVIOUS
  <2>2. path[Len(path) - (j + 1)].index = 1 /\ page[X].ents[1].v = c /\ 1 \in 1 .. Len(page[X].ents)
    BY ONLY <1>3, <1>9, <2>1 DEF Found
  <2>3. lv[X] # 0
    BY ONLY <1>5, j \in Nat
  <2>4. Down(page, R, lv, lo, hi)
    BY ONLY <1>1 DEF TreeOK
  <2>5. lo[c] = lo[X] /\ hi[c] = hi[X]
    BY ONLY <1>5, <1>9, <2>2, <2>3, <2>4 DEF Down
  <2>6. j \in 0 .. j
    OBVIOUS
  <2>7. lo[c] = lo[leaf] /\ hi[c] = hi[leaf]
    BY ONLY <2>1, <2>6, Gone(T, page, R, lv, lo, hi, path, leaf, j, s) DEF Gone
  <2>8. QED
    BY ONLY <2>5, <2>7
<1>21. \A m \in 0 .. j + 1 : lo[path[Len(path) - m].pgno] = lo[leaf] /\ hi[path[Len(path) - m].pgno] = hi[leaf]
  <2>1. \A m \in 0 .. j : lo[path[Len(path) - m].pgno] = lo[leaf] /\ hi[path[Len(path) - m].pgno] = hi[leaf]
    BY DEF Gone
  <2>2. QED
    BY ONLY <1>2, <1>18, <1>20, <2>1
<1>22. QED
  BY ONLY <1>9, <1>11, <1>12, <1>13, <1>14, <1>15, <1>16, <1>19, <1>21, u.up DEF Gone

\* Where the walk ends.
Ended(T, page, R, lv, lo, hi, path, leaf, u) ==
  \E j, s : /\ j \in Nat /\ j + 1 < Len(path) /\ Gone(T, page, R, lv, lo, hi, path, leaf, j, s)
              /\ u = Drop(s, path[Len(path) - (j + 1)]) /\ ~u.up

\* The loop ends at a page with two records at least, or at the root.
LEMMA DropsEnd ==
  ASSUME NEW T, NEW page, NEW R, NEW lv, NEW lo, NEW hi, NEW k, NEW path, NEW leaf,
         EraseAt(T, page, R, lv, lo, hi, k, path, leaf), NEW f, IsDrops(T, path, 0 .. Len(path) - 1, f)
  PROVE  Ended(T, page, R, lv, lo, hi, path, leaf, f[Len(path) - 1])
<1>1. Len(path) \in Nat /\ Len(path) >= 2 /\ path[Len(path) - (Len(path) - 1)].pgno = P_ROOT
  BY EraseTypes
<1>2. PICK n : n = Len(path) - 1
  OBVIOUS
<1>3. n \in Nat /\ n # 0 /\ Len(path) = n + 1 /\ path[Len(path) - n].pgno = P_ROOT
  BY ONLY <1>1, <1>2
<1>4. \A j \in 0 .. n : f[j] = IF j = 0 THEN [t |-> T, up |-> TRUE]
                               ELSE IF f[j - 1].up THEN Drop(f[j - 1], path[Len(path) - j]) ELSE f[j - 1]
  BY ONLY <1>2, IsDrops(T, path, 0 .. Len(path) - 1, f) DEF IsDrops
<1> DEFINE Done == {j \in 0 .. n : \/ Gone(T, page, R, lv, lo, hi, path, leaf, j, f[j])
                                   \/ Ended(T, page, R, lv, lo, hi, path, leaf, f[j])}
<1>5. 0 \in Done
  <2>1. 0 \in 0 .. n
    BY ONLY <1>3
  <2>2. f[0] = [t |-> T, up |-> TRUE]
    BY ONLY <1>4, <2>1
  <2>3. Gone(T, page, R, lv, lo, hi, path, leaf, 0, f[0])
    BY <2>2, GoneFirst
  <2>4. QED
    BY ONLY <2>1, <2>3
<1>6. ASSUME NEW j \in 0 .. n, j # n, j \in Done PROVE j + 1 \in Done
  <2>1. j \in Nat /\ j + 1 \in 0 .. n /\ j + 1 # 0 /\ (j + 1) - 1 = j /\ j + 1 < Len(path)
    BY ONLY <1>3, <1>6
  <2>2. f[j + 1] = IF f[j].up THEN Drop(f[j], path[Len(path) - (j + 1)]) ELSE f[j]
    BY ONLY <1>4, <2>1
  <2>3. CASE Gone(T, page, R, lv, lo, hi, path, leaf, j, f[j])
    <3>1. f[j + 1] = Drop(f[j], path[Len(path) - (j + 1)])
      BY ONLY <2>2, <2>3 DEF Gone
    <3>2. CASE f[j + 1].up
      <4>1. Gone(T, page, R, lv, lo, hi, path, leaf, j + 1, f[j + 1])
        BY <2>1, <2>3, <3>1, <3>2, GoneNext
      <4>2. QED
        BY ONLY <2>1, <4>1
    <3>3. CASE ~f[j + 1].up
      <4>1. Ended(T, page, R, lv, lo, hi, path, leaf, f[j + 1])
        BY ONLY <2>1, <2>3, <3>1, <3>3 DEF Ended
      <4>2. QED
        BY ONLY <2>1, <4>1
    <3>4. QED
      BY ONLY <3>2, <3>3
  <2>4. CASE Ended(T, page, R, lv, lo, hi, path, leaf, f[j])
    <3>1. ~f[j].up
      BY ONLY <2>4 DEF Ended
    <3>2. f[j + 1] = f[j]
      BY ONLY <2>2, <3>1
    <3>3. QED
      BY ONLY <2>1, <2>4, <3>2
  <2>5. QED
    BY ONLY <1>6, <2>3, <2>4
<1>7. n \in Done
  <2> HIDE DEF Done
  <2>1. \A i \in 0 .. n : i # n /\ i \in Done => i + 1 \in Done
    BY ONLY <1>6
  <2>2. \A i \in 0 .. n : i \in Done
    BY ONLY <1>3, <1>5, <2>1, Counting
  <2>3. QED
    BY <1>3, <2>2
<1>8. ~Gone(T, page, R, lv, lo, hi, path, leaf, n, f[n])
  <2>1. n \in 1 .. n
    BY ONLY <1>3
  <2>2. QED
    BY ONLY <1>3, <2>1 DEF Gone
<1>9. QED
  BY ONLY <1>2, <1>7, <1>8

\* The whole path up to level j.
Column(path, j) == {path[Len(path) - m].pgno : m \in 0 .. j}

\* The pages that are freed, one for each level from the leaf up.
LEMMA ColumnIs ==
  ASSUME NEW T, NEW page, NEW R, NEW lv, NEW lo, NEW hi, NEW k, NEW path, NEW leaf,
         EraseAt(T, page, R, lv, lo, hi, k, path, leaf), NEW j \in Nat, j < Len(path)
  PROVE  /\ Column(path, j) = Inner(path, j) \cup {leaf}
         /\ Column(path, j) \in SUBSET R
         /\ \A c \in Column(path, j) : lv[c] \in 0 .. j /\ c = path[Len(path) - lv[c]].pgno
         /\ \A m \in 0 .. j : path[Len(path) - m].pgno \in Column(path, j) /\ lv[path[Len(path) - m].pgno] = m
<1>1. /\ Len(path) \in Nat /\ leaf = path[Len(path) - 0].pgno
      /\ \A m \in Nat : m < Len(path) => IsClimb(page, R, lv, path, m)
  BY EraseTypes
<1>2. \A m : m \in 0 .. j <=> m = 0 \/ m \in 1 .. j
  OBVIOUS
<1>3. Column(path, j) = Inner(path, j) \cup {leaf}
  BY ONLY <1>1, <1>2 DEF Column, Inner
<1>4. ASSUME NEW m \in 0 .. j
      PROVE  path[Len(path) - m].pgno \in Column(path, j) /\ lv[path[Len(path) - m].pgno] = m /\ path[Len(path) - m].pgno \in R
  <2>1. m \in Nat /\ m < Len(path)
    BY ONLY <1>1, <1>4, j \in Nat, j < Len(path)
  <2>2. IsClimb(page, R, lv, path, m)
    BY ONLY <1>1, <2>1
  <2>3. QED
    BY ONLY <1>4, <2>2 DEF IsClimb, Column
<1>5. ASSUME NEW c \in Column(path, j) PROVE c \in R /\ lv[c] \in 0 .. j /\ c = path[Len(path) - lv[c]].pgno
  <2>1. PICK m \in 0 .. j : c = path[Len(path) - m].pgno
    BY ONLY <1>5 DEF Column
  <2>2. QED
    BY ONLY <1>4, <2>1
<1>6. QED
  BY ONLY <1>3, <1>4, <1>5

\* They leave a hole at record i of the page q where the loop ends.
LEMMA DropsAt ==
  ASSUME NEW T, NEW page, NEW R, NEW lv, NEW lo, NEW hi, NEW k, NEW path, NEW leaf,
         EraseAt(T, page, R, lv, lo, hi, k, path, leaf), NEW j \in Nat, j + 1 < Len(path),
         NEW s, Gone(T, page, R, lv, lo, hi, path, leaf, j, s),
         NEW q, q = path[Len(path) - (j + 1)].pgno, Len(page[q].ents) > 1, NEW C, C = Column(path, j),
         NEW i, i = path[Len(path) - (j + 1)].index
  PROVE  DropAt(page, R, lv, lo, hi, C, q, i, lo[leaf], hi[leaf])
<1>1. /\ TreeOK(page, R, lv, lo, hi, P_INVALID) /\ Len(path) \in Nat /\ P_ROOT \in R
      /\ leaf \in R /\ lv[leaf] = 0 /\ \A m \in Nat : m < Len(path) => IsClimb(page, R, lv, path, m)
  BY EraseTypes
<1>2. Found(page, R, lv, path, leaf, j, s, q)
  BY GoneFinds
<1>3. /\ q \in R /\ lv[q] = j + 1 /\ i \in 1 .. Len(page[q].ents) /\ page[q].ents[i].v = path[Len(path) - j].pgno
      /\ Len(page[q].ents) \in Nat
  BY ONLY <1>2, i = path[Len(path) - (j + 1)].index DEF Found
<1>4. j < Len(path)
  BY ONLY <1>1, j \in Nat, j + 1 < Len(path)
<1>5. /\ C \in SUBSET R
      /\ \A c \in C : lv[c] \in 0 .. j /\ c = path[Len(path) - lv[c]].pgno
      /\ \A m \in 0 .. j : path[Len(path) - m].pgno \in C /\ lv[path[Len(path) - m].pgno] = m
  BY <1>4, ColumnIs
<1>6. \A c \in C : lv[c] < lv[q] /\ lv[c] \in Nat /\ lv[c] # j + 1
  BY ONLY <1>3, <1>5, j \in Nat
<1>7. \A m \in 1 .. j : path[Len(path) - m].pgno # P_ROOT /\ Len(page[path[Len(path) - m].pgno].ents) = 1
  BY DEF Gone
<1>8. \A m \in 0 .. j : lo[path[Len(path) - m].pgno] = lo[leaf] /\ hi[path[Len(path) - m].pgno] = hi[leaf]
  BY DEF Gone
<1>9. P_ROOT \notin C
  <2>1. SUFFICES ASSUME P_ROOT \in C PROVE FALSE
    OBVIOUS
  <2>2. lv[P_ROOT] < lv[q]
    BY ONLY <1>6, <2>1
  <2>3. lv[q] <= lv[P_ROOT] /\ lv[P_ROOT] \in Nat /\ lv[q] \in Nat
    BY ONLY <1>1, <1>3, InTree
  <2>4. QED
    BY ONLY <2>2, <2>3
<1>10. \A c \in C : lo[c] = lo[leaf] /\ hi[c] = hi[leaf]
  BY ONLY <1>5, <1>8
<1>11. ASSUME NEW m \in 1 .. j
       PROVE  LET d == path[Len(path) - m].pgno IN
              Len(page[d].ents) = 1 /\ page[d].ents[1].v = path[Len(path) - (m - 1)].pgno /\ m - 1 \in 0 .. j
  <2>1. m - 1 \in Nat /\ m - 1 < Len(path) /\ (m - 1) + 1 = m /\ (m - 1) + 1 < Len(path) /\ m - 1 \in 0 .. j
    BY ONLY <1>1, <1>4, <1>11, j \in Nat
  <2>2. IsClimb(page, R, lv, path, m - 1)
    BY ONLY <1>1, <2>1
  <2>3. PICK d : d = path[Len(path) - m].pgno
    OBVIOUS
  <2>4. PICK x : x = path[Len(path) - m].index
    OBVIOUS
  <2>5. x \in 1 .. Len(page[d].ents) /\ page[d].ents[x].v = path[Len(path) - (m - 1)].pgno
    BY ONLY <2>1, <2>2, <2>3, <2>4 DEF IsClimb
  <2>6. Len(page[d].ents) = 1
    BY ONLY <1>7, <1>11, <2>3
  <2>7. x = 1
    BY ONLY <2>5, <2>6
  <2>8. QED
    BY ONLY <2>1, <2>3, <2>5, <2>6, <2>7
<1>12. ASSUME NEW c \in C, lv[c] # 0 PROVE Len(page[c].ents) = 1 /\ page[c].ents[1].v \in C
  <2>1. lv[c] \in 1 .. j /\ c = path[Len(path) - lv[c]].pgno
    BY ONLY <1>5, <1>12, j \in Nat
  <2>2. /\ Len(page[c].ents) = 1 /\ page[c].ents[1].v = path[Len(path) - (lv[c] - 1)].pgno
        /\ lv[c] - 1 \in 0 .. j
    BY ONLY <1>11, <2>1
  <2>3. QED
    BY ONLY <1>5, <2>2
<1>13. ASSUME NEW l \in Nat, l < lv[q] PROVE \E c \in C : lv[c] = l
  <2>1. l \in 0 .. j
    BY ONLY <1>3, <1>13, j \in Nat
  <2>2. QED
    BY ONLY <1>5, <2>1
<1>14. ASSUME NEW c \in C PROVE c = page[q].ents[i].v \/ \E d \in C : lv[d] # 0 /\ page[d].ents[1].v = c
  <2>1. lv[c] \in 0 .. j /\ c = path[Len(path) - lv[c]].pgno
    BY ONLY <1>5, <1>14
  <2>2. CASE lv[c] = j
    BY ONLY <1>3, <2>1, <2>2
  <2>3. CASE lv[c] # j
    <3>1. PICK m : m = lv[c] + 1
      OBVIOUS
    <3>2. m \in 1 .. j /\ m \in 0 .. j /\ m # 0 /\ m - 1 = lv[c]
      BY ONLY <2>1, <2>3, <3>1, j \in Nat
    <3>3. PICK d : d = path[Len(path) - m].pgno
      OBVIOUS
    <3>4. d \in C /\ lv[d] = m
      BY ONLY <1>5, <3>2, <3>3
    <3>5. page[d].ents[1].v = path[Len(path) - (m - 1)].pgno
      BY ONLY <1>11, <3>2, <3>3
    <3>6. page[d].ents[1].v = c
      BY ONLY <2>1, <3>2, <3>5
    <3>7. QED
      BY ONLY <3>2, <3>4, <3>6
  <2>4. QED
    BY ONLY <2>2, <2>3
<1>15. lv[q] # 0 /\ q \in R \ C
  <2>1. lv[q] # 0
    BY ONLY <1>3, j \in Nat
  <2>2. q \notin C
    BY ONLY <1>3, <1>6
  <2>3. QED
    BY ONLY <1>3, <2>1, <2>2
<1>16. Len(page[q].ents) # 1 /\ page[q].ents[i].v \in C /\ C \subseteq R
  <2>1. Len(page[q].ents) # 1
    <3>1. \A n \in Nat : n > 1 => n # 1
      OBVIOUS
    <3>2. QED
      BY ONLY <1>3, <3>1, Len(page[q].ents) > 1
  <2>2. j \in 0 .. j
    OBVIOUS
  <2>3. QED
    BY ONLY <1>3, <1>5, <2>1, <2>2
<1>17. QED
  BY ONLY <1>1, <1>3, <1>6, <1>9, <1>10, <1>12, <1>13, <1>14, <1>15, <1>16 DEF DropAt

\* A root without records is a tree.
LEMMA EmptyTree ==
  ASSUME NEW page \in [PageNo -> Page], \A p \in PageNo : page[p].leaf,
         page[P_ROOT].prev = P_INVALID, page[P_ROOT].next = P_INVALID, Len(page[P_ROOT].ents) = 0,
         NEW lv \in [PageNo -> Nat], NEW lo \in [PageNo -> Nat], NEW hi \in [PageNo -> Nat],
         lv[P_ROOT] = 0, lo[P_ROOT] = 0, hi[P_ROOT] = MaxKey + 1
  PROVE  TreeOK(page, {P_ROOT}, lv, lo, hi, P_INVALID)
<1>1. P_ROOT \in PageNo /\ MaxKey \in Nat /\ 0 < MaxKey + 1
  BY Numbers
<1>2. Typed(page, {P_ROOT}, lv, lo, hi) /\ Spans({P_ROOT}, lv, lo, hi) /\ Kinds(page, {P_ROOT}, lv)
  BY <1>1 DEF Typed, Spans, Kinds
<1>3. Apart({P_ROOT}, lv, lo, hi) /\ Linked(page, {P_ROOT}, lv, lo, hi)
  BY DEF Apart, Linked
<1>4. Ordered(page, {P_ROOT}, lv) /\ Within(page, {P_ROOT}, lv, lo, hi) /\ Filled(page, {P_ROOT}, lv)
  BY DEF Ordered, Within, Filled
<1>5. Down(page, {P_ROOT}, lv, lo, hi) /\ Up(page, {P_ROOT}, lv)
  BY DEF Down, Up
<1>6. Fitting(page, {P_ROOT}, P_INVALID)
  <2>1. 0 \in 0 .. 2 /\ page[P_ROOT].leaf \in BOOLEAN
    BY <1>1, PageParts
  <2>2. Fits(Sizes(page[P_ROOT].leaf, 0))
    BY ONLY <2>1, FitsTwo
  <2>3. QED
    BY <2>2 DEF Fitting
<1>7. QED
  BY ONLY <1>2, <1>3, <1>4, <1>5, <1>6 DEF TreeOK

LEMMA FewerEnts ==
  ASSUME NEW page \in [PageNo -> Page], NEW p \in PageNo, NEW i \in 1 .. Len(page[p].ents), NEW es,
         es = RemoveAt(page[p].ents, i)
  PROVE  IsRemoved(es, page[p].ents, i) /\ WithEnts(page, p, es) \in [PageNo -> Page]
<1>1. page[p] \in Page
  OBVIOUS
<1>2. PICK old : old = page[p].ents
  OBVIOUS
<1>3. /\ page[p].leaf \in BOOLEAN /\ page[p].prev \in 0 .. MaxPages - 1 /\ page[p].next \in 0 .. MaxPages - 1
      /\ old \in Seq(Ent) /\ Len(old) \in Nat
      /\ \A j \in 1 .. Len(old) : /\ page[p].leaf => old[j].k \in Key /\ old[j].v \in Data
                                  /\ ~page[p].leaf => old[j].v \in PageNo
  BY ONLY <1>1, <1>2, PageParts
<1>4. IsRemoved(es, old, i)
  BY ONLY <1>2, <1>3, i \in 1 .. Len(page[p].ents), es = RemoveAt(page[p].ents, i), EntRemoved
<1>5. es \in Seq(Ent) /\ Len(es) = Len(old) - 1
  BY ONLY <1>4 DEF IsRemoved
<1>6. ASSUME NEW j \in 1 .. Len(es) PROVE \E m \in 1 .. Len(old) : es[j] = old[m]
  <2>1. j \in 1 .. Len(old) - 1 /\ j \in 1 .. Len(old) /\ j + 1 \in 1 .. Len(old)
    BY ONLY <1>3, <1>5, <1>6
  <2>2. es[j] = IF j < i THEN old[j] ELSE old[j + 1]
    BY ONLY <1>4, <2>1 DEF IsRemoved
  <2>3. QED
    BY ONLY <2>1, <2>2
<1>7. \A j \in 1 .. Len(es) : IF page[p].leaf THEN es[j].k \in Key /\ es[j].v \in Data ELSE es[j].v \in PageNo
  BY ONLY <1>3, <1>6
<1>8. [leaf |-> page[p].leaf, prev |-> page[p].prev, next |-> page[p].next, ents |-> es] \in Page
  BY ONLY <1>3, <1>5, <1>7, PageMade
<1>9. QED
  BY <1>2, <1>4, <1>8 DEF WithEnts, Sibling

LEMMA WithEntsTree ==
  ASSUME NEW S \in TreeM, NEW p \in PageNo, NEW es, NEW V, V = WithEnts(S.page, p, es), V \in [PageNo -> Page],
         NEW W, W = [S EXCEPT !.page[p].ents = es]
  PROVE  /\ W = [page |-> V, npages |-> S.npages, free |-> S.free, memory |-> S.memory,
                 cursor |-> S.cursor, last |-> S.last]
         /\ W \in TreeM
<1>1. /\ S.page \in [PageNo -> Page] /\ S.npages \in 2 .. MaxPages /\ S.free \in 0 .. MaxPages - 1
      /\ S.memory \in Nat /\ S.cursor \in Cursor /\ S.last \in Hint
  BY TreeRecord
<1>2. V = [S.page EXCEPT ![p].ents = es]
  BY <1>1, WithEntsIs
<1>3. W = [page |-> V, npages |-> S.npages, free |-> S.free, memory |-> S.memory,
           cursor |-> S.cursor, last |-> S.last]
  BY <1>2 DEF TreeM
<1>4. [page |-> V, npages |-> S.npages, free |-> S.free, memory |-> S.memory,
       cursor |-> S.cursor, last |-> S.last] \in TreeM
  BY ONLY <1>1, V \in [PageNo -> Page] DEF TreeM
<1>5. QED
  BY ONLY <1>3, <1>4

\* The free list does not see the records.
LEMMA FreeSame ==
  ASSUME NEW page \in [PageNo -> Page], NEW free, NEW npages, NEW R, NEW fl, NEW n,
         FreeOK(page, free, npages, R, fl, n), NEW new, \A y \in PageNo : new[y].next = page[y].next
  PROVE  FreeOK(new, free, npages, R, fl, n)
<1>1. /\ fl \in [1 .. n -> PageNo] /\ \A i \in 1 .. n : fl[i] \notin R
      /\ \A y \in R : y < npages
      /\ \A y \in PageNo : page[y].next < npages
  BY DEF FreeOK
<1>2. \A y \in PageNo : new[y].next < npages
  BY <1>1
<1>3. \A i \in 1 .. n : new[fl[i]].next = page[fl[i]].next
  BY <1>1
<1>4. QED
  BY <1>1, <1>2, <1>3, FreeKept

\* The leaf, when it is its turn.
LeafAt(page, R, lv, path, leaf, j, s) ==
  /\ Inner(path, j) \in SUBSET R /\ leaf \in R \ Inner(path, j) /\ leaf \in PageNo
  /\ \A c \in Inner(path, j) : lv[c] # 0 /\ lv[c] # lv[leaf]
  /\ page[leaf].prev \in (R \ Inner(path, j)) \cup {P_INVALID}
  /\ s.t.page[leaf].prev = page[leaf].prev /\ s.t.page[leaf].next = page[leaf].next
  /\ page[leaf].prev \in R => lv[page[leaf].prev] = 0
  /\ page[leaf].next \in R => lv[page[leaf].next] = 0

LEMMA LeafIs ==
  ASSUME NEW T, NEW page, NEW R, NEW lv, NEW lo, NEW hi, NEW k, NEW path, NEW leaf,
         EraseAt(T, page, R, lv, lo, hi, k, path, leaf), NEW j \in Nat, j + 1 < Len(path),
         NEW s, Gone(T, page, R, lv, lo, hi, path, leaf, j, s)
  PROVE  LeafAt(page, R, lv, path, leaf, j, s)
<1>1. /\ R \in SUBSET PageNo /\ Len(path) \in Nat /\ leaf \in R /\ lv[leaf] = 0
      /\ \A y \in PageNo : T.page[y].prev = page[y].prev /\ T.page[y].next = page[y].next
      /\ Chained(page, R, lv)
  BY EraseTypes
<1>2. PICK C : C = Inner(path, j)
  OBVIOUS
<1>3. j < Len(path)
  BY ONLY <1>1, j \in Nat, j + 1 < Len(path)
<1>4. C \in SUBSET R /\ \A c \in C : lv[c] \in 1 .. j
  BY <1>2, <1>3, InnerIs
<1>5. \A c \in C : lv[c] # 0 /\ lv[c] # lv[leaf]
  BY ONLY <1>1, <1>4, j \in Nat
<1>6. P_INVALID \notin R
  BY ONLY <1>1, Numbers
<1>7. Unlinked(T.page, s.t.page, R, C, P_INVALID, <<>>)
  BY ONLY <1>2, Gone(T, page, R, lv, lo, hi, path, leaf, j, s) DEF Gone
<1>8. leaf \in R \ C
  BY ONLY <1>1, <1>5
<1>9. PICK a : a = page[leaf].prev
  OBVIOUS
<1>10. PICK b : b = page[leaf].next
  OBVIOUS
<1>11. /\ a = P_INVALID \/ (a \in R /\ lv[a] = lv[leaf])
       /\ b = P_INVALID \/ (b \in R /\ lv[b] = lv[leaf])
  BY ONLY <1>1, <1>9, <1>10 DEF Chained
<1>12. a \notin C /\ b \notin C
  BY ONLY <1>4, <1>5, <1>6, <1>11
<1>13. T.page[leaf].prev = a /\ T.page[leaf].next = b /\ leaf \in PageNo
  BY ONLY <1>1, <1>9, <1>10
<1>14. /\ s.t.page[leaf].prev = IF T.page[leaf].prev \in C THEN T.page[T.page[leaf].prev].prev ELSE T.page[leaf].prev
       /\ s.t.page[leaf].next = IF T.page[leaf].next \in C THEN T.page[T.page[leaf].next].next ELSE T.page[leaf].next
  BY ONLY <1>7, <1>8, UnlinkedIs
<1>15. s.t.page[leaf].prev = a /\ s.t.page[leaf].next = b
  BY ONLY <1>12, <1>13, <1>14
<1>16. QED
  BY ONLY <1>1, <1>2, <1>4, <1>5, <1>6, <1>8, <1>9, <1>10, <1>11, <1>12, <1>13, <1>15 DEF LeafAt

\* The leaves but one have their records, and there is no other record.
LeavesKept(page, R, lv, new, S, lv2, leaf) ==
  /\ \A p \in R : lv[p] = 0 /\ p # leaf => p \in S /\ lv2[p] = 0 /\ new[p].ents = page[p].ents
  /\ \A p \in S : lv2[p] = 0 => \/ p \in R /\ p # leaf /\ lv[p] = 0 /\ new[p].ents = page[p].ents
                                \/ Len(new[p].ents) = 0

Erased(T, page, R, lv, leaf, W) ==
  /\ \E S, lv2, lo2, hi2 : /\ TreeOK(W.page, S, lv2, lo2, hi2, P_INVALID)
                           /\ \E f, m : FreeOK(W.page, W.free, W.npages, S, f, m)
                           /\ LeavesKept(page, R, lv, W.page, S, lv2, leaf)
  /\ W \in TreeM /\ W.cursor = T.cursor /\ W.last = T.last /\ W.memory = T.memory /\ W.npages = T.npages
  /\ \A y \in PageNo : page[y].leaf => W.page[y].leaf

\* __bt_pdelete ends at page q, which has another record: before it is the leaf's turn.
LastDrop(T, page, R, path, leaf, j, s, q, i, es, U) ==
  /\ IsRemoved(es, page[q].ents, i) /\ U \in TreeM
  /\ U.npages = T.npages /\ U.memory = T.memory /\ U.cursor = T.cursor /\ U.last = T.last
  /\ Unlinked(T.page, U.page, R, Inner(path, j), q, es)
  /\ \E fl, n : FreeOK(U.page, U.free, U.npages, R \ Inner(path, j), fl, n)
  /\ U.page[leaf] = s.t.page[leaf]

\* The turn that takes record i from page q, where the loop ends.
LEMMA EraseLast ==
  ASSUME NEW T, NEW page, NEW R, NEW lv, NEW lo, NEW hi, NEW k, NEW path, NEW leaf,
         EraseAt(T, page, R, lv, lo, hi, k, path, leaf), NEW j \in Nat, j + 1 < Len(path),
         NEW s, Gone(T, page, R, lv, lo, hi, path, leaf, j, s),
         NEW q, q = path[Len(path) - (j + 1)].pgno, Len(page[q].ents) > 1,
         NEW i, i = path[Len(path) - (j + 1)].index, NEW es, es = RemoveAt(page[q].ents, i),
         NEW U, U = Drop(s, path[Len(path) - (j + 1)]).t
  PROVE  LastDrop(T, page, R, path, leaf, j, s, q, i, es, U)
<1>1. /\ R \in SUBSET PageNo /\ \A y \in PageNo : y # leaf => T.page[y] = page[y]
  BY EraseTypes
<1>2. Found(page, R, lv, path, leaf, j, s, q)
  BY GoneFinds
<1>3. PICK C : C = Inner(path, j)
  OBVIOUS
<1>4. /\ q \in R \ C /\ q # leaf /\ q \in PageNo /\ i \in 1 .. Len(page[q].ents) /\ s.t.page[q].ents = page[q].ents
  BY ONLY <1>2, <1>3, i = path[Len(path) - (j + 1)].index DEF Found
<1>5. /\ s.t \in TreeM /\ s.t.cursor = T.cursor /\ s.t.last = T.last /\ s.t.memory = T.memory /\ s.t.npages = T.npages
      /\ (\E fl, n : FreeOK(s.t.page, s.t.free, s.t.npages, R \ C, fl, n))
      /\ Unlinked(T.page, s.t.page, R, C, P_INVALID, <<>>)
  BY ONLY <1>3, Gone(T, page, R, lv, lo, hi, path, leaf, j, s) DEF Gone
<1>6. s.t.page \in [PageNo -> Page]
  BY ONLY <1>5, TreeRecord
<1>7. PICK V : V = WithEnts(s.t.page, q, es)
  OBVIOUS
<1>8. IsRemoved(es, page[q].ents, i) /\ V \in [PageNo -> Page]
  <2>1. i \in 1 .. Len(s.t.page[q].ents) /\ es = RemoveAt(s.t.page[q].ents, i)
    BY ONLY <1>4, es = RemoveAt(page[q].ents, i)
  <2>2. IsRemoved(es, s.t.page[q].ents, i) /\ WithEnts(s.t.page, q, es) \in [PageNo -> Page]
    BY ONLY <1>4, <1>6, <2>1, FewerEnts
  <2>3. QED
    BY ONLY <1>4, <1>7, <2>2
<1>9. U = [s.t EXCEPT !.page[q].ents = es]
  <2>1. Drop(s, path[Len(path) - (j + 1)])
          = IF Len(page[q].ents) > 1
            THEN [t |-> [s.t EXCEPT !.page[q].ents = RemoveAt(@, i)], up |-> FALSE]
            ELSE IF q = P_ROOT
            THEN [t |-> [s.t EXCEPT !.page[P_ROOT].ents = <<>>, !.page[P_ROOT].leaf = TRUE], up |-> FALSE]
            ELSE [t |-> Free(Relink(s.t, q), q), up |-> TRUE]
    BY ONLY <1>4, q = path[Len(path) - (j + 1)].pgno, i = path[Len(path) - (j + 1)].index DEF Drop
  <2>2. U = [s.t EXCEPT !.page[q].ents = RemoveAt(@, i)]
    BY ONLY <2>1, Len(page[q].ents) > 1, U = Drop(s, path[Len(path) - (j + 1)]).t
  <2>3. [s.t EXCEPT !.page[q].ents = RemoveAt(@, i)] = [s.t EXCEPT !.page[q].ents = es]
    BY <1>4, <1>5, es = RemoveAt(page[q].ents, i) DEF TreeM
  <2>4. QED
    BY ONLY <2>2, <2>3, SMTT(30)
<1>10. /\ U = [page |-> V, npages |-> s.t.npages, free |-> s.t.free, memory |-> s.t.memory,
               cursor |-> s.t.cursor, last |-> s.t.last]
       /\ U \in TreeM
  <2>1. PICK S : S = s.t
    OBVIOUS
  <2>2. S \in TreeM /\ V = WithEnts(S.page, q, es) /\ U = [S EXCEPT !.page[q].ents = es]
    BY ONLY <1>5, <1>7, <1>9, <2>1
  <2>3. q \in PageNo
    BY ONLY <1>4
  <2>4. V \in [PageNo -> Page]
    BY ONLY <1>8
  <2>5. /\ U = [page |-> V, npages |-> S.npages, free |-> S.free, memory |-> S.memory,
                cursor |-> S.cursor, last |-> S.last]
        /\ U \in TreeM
    BY ONLY <2>2, <2>3, <2>4, WithEntsTree, ZenonT(60)
  <2>6. QED
    BY ONLY <2>1, <2>5
<1>11. /\ U.page = V /\ U.npages = s.t.npages /\ U.free = s.t.free /\ U.memory = s.t.memory
       /\ U.cursor = s.t.cursor /\ U.last = s.t.last
  BY ONLY <1>10
<1>12. /\ V[q] = Sibling(s.t.page[q], s.t.page[q].prev, s.t.page[q].next, es)
       /\ \A y \in PageNo : (y # q => V[y] = s.t.page[y]) /\ V[y].next = s.t.page[y].next
  <2>1. V[q] = Sibling(s.t.page[q], s.t.page[q].prev, s.t.page[q].next, es)
    BY ONLY <1>4, <1>6, <1>7 DEF WithEnts
  <2>2. QED
    BY ONLY <1>4, <1>6, <1>7, <2>1, WithEntsIs
<1>13. \E fl, n : FreeOK(U.page, U.free, U.npages, R \ C, fl, n)
  <2>1. PICK fl, n : FreeOK(s.t.page, s.t.free, s.t.npages, R \ C, fl, n)
    BY ONLY <1>5
  <2>2. FreeOK(V, s.t.free, s.t.npages, R \ C, fl, n)
    BY ONLY <1>6, <1>12, <2>1, FreeSame
  <2>3. QED
    BY ONLY <1>11, <2>2
<1>14. ASSUME NEW p \in R \ C
       PROVE  V[p] = Sibling(T.page[p], IF T.page[p].prev \in C THEN T.page[T.page[p].prev].prev ELSE T.page[p].prev,
                             IF T.page[p].next \in C THEN T.page[T.page[p].next].next ELSE T.page[p].next,
                             IF p = q THEN es ELSE T.page[p].ents)
  <2>1. PICK a : a = IF T.page[p].prev \in C THEN T.page[T.page[p].prev].prev ELSE T.page[p].prev
    OBVIOUS
  <2>2. PICK b : b = IF T.page[p].next \in C THEN T.page[T.page[p].next].next ELSE T.page[p].next
    OBVIOUS
  <2>3. p # P_INVALID /\ p \in PageNo
    BY ONLY <1>1, <1>14, Numbers
  <2>4. s.t.page[p] = Sibling(T.page[p], a, b, IF p = P_INVALID THEN <<>> ELSE T.page[p].ents)
    BY ONLY <1>5, <1>14, <2>1, <2>2 DEF Unlinked
  <2>5. s.t.page[p] = Sibling(T.page[p], a, b, T.page[p].ents)
    BY ONLY <2>3, <2>4
  <2>6. CASE p = q
    <3>1. s.t.page[p].leaf = T.page[p].leaf /\ s.t.page[p].prev = a /\ s.t.page[p].next = b
      BY ONLY <2>5, SiblingIs
    <3>2. V[p] = Sibling(T.page[p], a, b, es)
      BY ONLY <1>12, <2>6, <3>1 DEF Sibling
    <3>3. QED
      BY ONLY <2>1, <2>2, <2>6, <3>2
  <2>7. CASE p # q
    <3>1. V[p] = Sibling(T.page[p], a, b, T.page[p].ents)
      BY ONLY <1>12, <2>3, <2>5, <2>7
    <3>2. QED
      BY ONLY <2>1, <2>2, <2>7, <3>1
  <2>8. QED
    BY ONLY <2>6, <2>7
<1>15. Unlinked(T.page, V, R, C, q, es)
  <2>1. \A p \in PageNo \ R : V[p] = T.page[p]
    BY ONLY <1>4, <1>5, <1>12 DEF Unlinked
  <2>2. \A p \in C : p \in PageNo
    <3>1. LeafAt(page, R, lv, path, leaf, j, s)
      BY LeafIs
    <3>2. QED
      BY ONLY <1>1, <1>3, <3>1 DEF LeafAt
  <2>3. \A p \in C : V[p].leaf
    BY ONLY <1>4, <1>5, <1>12, <2>2 DEF Unlinked
  <2>4. QED
    BY ONLY <1>8, <1>14, <2>1, <2>3 DEF Unlinked
<1>16. leaf \in PageNo
  <2>1. LeafAt(page, R, lv, path, leaf, j, s)
    BY LeafIs
  <2>2. QED
    BY ONLY <2>1 DEF LeafAt
<1>17. V[leaf] = s.t.page[leaf]
  BY ONLY <1>4, <1>12, <1>16
<1>18. QED
  BY ONLY <1>3, <1>5, <1>8, <1>10, <1>11, <1>13, <1>15, <1>17 DEF LastDrop

\* The tree, the free list and the leaves after __bt_pdelete.
LEMMA EraseUp ==
  ASSUME NEW T, NEW page, NEW R, NEW lv, NEW lo, NEW hi, NEW k, NEW path, NEW leaf,
         EraseAt(T, page, R, lv, lo, hi, k, path, leaf), NEW j \in Nat, j + 1 < Len(path),
         NEW s, Gone(T, page, R, lv, lo, hi, path, leaf, j, s),
         NEW q, q = path[Len(path) - (j + 1)].pgno, Len(page[q].ents) > 1,
         NEW U, U = Drop(s, path[Len(path) - (j + 1)]).t, NEW W, W = Free(Relink(U, leaf), leaf)
  PROVE  Erased(T, page, R, lv, leaf, W)
<1>1. /\ TreeOK(page, R, lv, lo, hi, P_INVALID) /\ R \in SUBSET PageNo /\ leaf \in R /\ Len(path) \in Nat
      /\ leaf = path[Len(path) - 0].pgno
      /\ \A y \in PageNo : /\ T.page[y].prev = page[y].prev /\ T.page[y].next = page[y].next
                           /\ T.page[y].leaf = page[y].leaf /\ (y # leaf => T.page[y] = page[y])
      /\ Chained(T.page, R, lv) /\ lv[leaf] = 0
  BY EraseTypes
<1>2. PICK i : i = path[Len(path) - (j + 1)].index
  OBVIOUS
<1>3. PICK es : es = RemoveAt(page[q].ents, i)
  OBVIOUS
<1>4. PICK Inn : Inn = Inner(path, j)
  OBVIOUS
<1>5. /\ IsRemoved(es, page[q].ents, i) /\ U \in TreeM
      /\ U.npages = T.npages /\ U.memory = T.memory /\ U.cursor = T.cursor /\ U.last = T.last
      /\ Unlinked(T.page, U.page, R, Inn, q, es)
      /\ \E fl, n : FreeOK(U.page, U.free, U.npages, R \ Inn, fl, n)
      /\ U.page[leaf] = s.t.page[leaf]
  <2>1. LastDrop(T, page, R, path, leaf, j, s, q, i, es, U)
    BY <1>2, <1>3, EraseLast
  <2>2. QED
    BY ONLY <1>4, <2>1 DEF LastDrop
<1>6. /\ Inn \in SUBSET R /\ leaf \in R \ Inn /\ leaf \in PageNo
      /\ \A c \in Inn : lv[c] # lv[leaf]
      /\ U.page[leaf].prev \in (R \ Inn) \cup {P_INVALID}
  <2>1. LeafAt(page, R, lv, path, leaf, j, s)
    BY LeafIs
  <2>2. QED
    BY ONLY <1>4, <1>5, <2>1 DEF LeafAt
<1>7. PICK C : C = Column(path, j)
  OBVIOUS
<1>8. j < Len(path)
  BY ONLY <1>1, j \in Nat, j + 1 < Len(path)
<1>9. C = Inn \cup {leaf} /\ C \in SUBSET R /\ \A c \in C : lv[c] \in 0 .. j /\ c = path[Len(path) - lv[c]].pgno
  BY <1>4, <1>7, <1>8, ColumnIs
<1>10. /\ W = [page |-> W.page, npages |-> U.npages, free |-> leaf, memory |-> U.memory,
               cursor |-> U.cursor, last |-> U.last]
       /\ IsFreed(U.page, W.page, leaf, U.free) /\ W \in TreeM
  BY ONLY <1>5, <1>6, W = Free(Relink(U, leaf), leaf), FreedIs
<1>11. W.npages = T.npages /\ W.memory = T.memory /\ W.cursor = T.cursor /\ W.last = T.last
  BY ONLY <1>5, <1>10
<1>12. \E f, m : FreeOK(W.page, W.free, W.npages, R \ C, f, m)
  <2>1. PICK fl, n : FreeOK(U.page, U.free, U.npages, R \ Inn, fl, n)
    BY ONLY <1>5
  <2>2. R \ Inn \in SUBSET PageNo
    BY ONLY <1>1
  <2>3. \E f, m : FreeOK(W.page, W.free, W.npages, (R \ Inn) \ {leaf}, f, m)
    BY ONLY <1>5, <1>6, <2>1, <2>2, W = Free(Relink(U, leaf), leaf), FreedFree
  <2>4. (R \ Inn) \ {leaf} = R \ C
    BY ONLY <1>9
  <2>5. QED
    BY ONLY <2>3, <2>4
<1>13. Unlinked(T.page, W.page, R, C, q, es)
  <2>1. Unlinked(T.page, W.page, R, Inn \cup {leaf}, q, es)
    BY ONLY <1>1, <1>5, <1>6, <1>10, UnlinkStep
  <2>2. QED
    BY ONLY <1>9, <2>1
<1>14. Kinds(page, R, lv) /\ \A p \in R : p \in PageNo
  BY ONLY <1>1 DEF TreeOK
<1>15. \A p \in PageNo \ (R \ C) : W.page[p].leaf
  <2>1. SUFFICES ASSUME NEW p \in PageNo, p \notin R \ C PROVE W.page[p].leaf
    OBVIOUS
  <2>2. CASE p \in C
    BY ONLY <1>13, <2>2 DEF Unlinked
  <2>3. CASE p \notin C
    <3>1. p \notin R
      BY ONLY <2>1, <2>3
    <3>2. W.page[p] = T.page[p]
      BY ONLY <1>13, <2>1, <3>1 DEF Unlinked
    <3>3. page[p].leaf
      BY ONLY <1>14, <2>1, <3>1 DEF Kinds
    <3>4. QED
      BY ONLY <1>1, <2>1, <3>2, <3>3
  <2>4. QED
    BY ONLY <2>2, <2>3
<1>16. ASSUME NEW p \in R \ C
       PROVE  /\ W.page[p].leaf = page[p].leaf
              /\ W.page[p].prev = IF page[p].prev \in C THEN page[page[p].prev].prev ELSE page[p].prev
              /\ W.page[p].next = IF page[p].next \in C THEN page[page[p].next].next ELSE page[p].next
              /\ W.page[p].ents = IF p = q THEN es ELSE page[p].ents
  <2>1. p \in PageNo /\ p # leaf
    BY ONLY <1>9, <1>14, <1>16
  <2>2. T.page[p] = page[p]
    BY ONLY <1>1, <2>1
  <2>3. /\ W.page[p].leaf = T.page[p].leaf
        /\ W.page[p].prev = IF T.page[p].prev \in C THEN T.page[T.page[p].prev].prev ELSE T.page[p].prev
        /\ W.page[p].next = IF T.page[p].next \in C THEN T.page[T.page[p].next].next ELSE T.page[p].next
        /\ W.page[p].ents = IF p = q THEN es ELSE T.page[p].ents
    BY ONLY <1>13, <1>16, UnlinkedIs
  <2>4. \A c \in C : T.page[c].prev = page[c].prev /\ T.page[c].next = page[c].next
    BY ONLY <1>1, <1>9, <1>14
  <2>5. QED
    BY ONLY <2>2, <2>3, <2>4
<1>17. Dropped(page, W.page, R, C, q, es)
  <2>1. W.page \in [PageNo -> Page]
    BY ONLY <1>10, TreeRecord
  <2>2. QED
    BY ONLY <1>15, <1>16, <2>1 DEF Dropped
<1>18. DropAt(page, R, lv, lo, hi, C, q, i, lo[leaf], hi[leaf])
  BY <1>2, <1>7, DropsAt
<1>19. PICK a : a = lo[leaf]
  OBVIOUS
<1>20. PICK b : b = hi[leaf]
  OBVIOUS
<1>21. PICK lo2 : lo2 = DropLo(lv, lo, q, i, a, b)
  OBVIOUS
<1>22. PICK hi2 : hi2 = DropHi(lv, hi, q, i, a, b)
  OBVIOUS
<1>23. DropAt(page, R, lv, lo, hi, C, q, i, a, b)
  BY ONLY <1>18, <1>19, <1>20
<1>24. Hole(page, lo, hi, q, i, a, b) /\ Beside(R, lv, lo, hi, C, q, a, b) /\ Outside(page, R, lv, C, q, i)
  BY ONLY <1>23, DropFacts
<1>25. Wider(R, lv, lo, hi, C, q, i, a, b, lo2, hi2)
  BY ONLY <1>21, <1>22, <1>23, WiderIs
<1>26. DropNow(page, R, lv, lo, hi, C, q, i, a, b, W.page, es, lo2, hi2)
  BY ONLY <1>5, <1>17, <1>23, <1>24, <1>25 DEF DropNow
<1>27. TreeOK(W.page, R \ C, lv, lo2, hi2, P_INVALID)
  BY ONLY <1>26, DropTree
<1>28. lv[q] # 0
  BY ONLY <1>23 DEF DropAt
<1>29. \A c \in C : lv[c] = 0 => c = leaf
  BY ONLY <1>1, <1>9
<1>30. LeavesKept(page, R, lv, W.page, R \ C, lv, leaf)
  BY ONLY <1>9, <1>16, <1>28, <1>29 DEF LeavesKept
<1>31. \A y \in PageNo : page[y].leaf => W.page[y].leaf
  BY ONLY <1>15, <1>16
<1>32. QED
  BY ONLY <1>10, <1>11, <1>12, <1>27, <1>30, <1>31 DEF Erased

\* When the walk gets to the root and its only record, the path was all of the tree.
LEMMA OnlyPath ==
  ASSUME NEW T, NEW page, NEW R, NEW lv, NEW lo, NEW hi, NEW k, NEW path, NEW leaf,
         EraseAt(T, page, R, lv, lo, hi, k, path, leaf), NEW j \in Nat, j + 1 < Len(path),
         NEW s, Gone(T, page, R, lv, lo, hi, path, leaf, j, s),
         P_ROOT = path[Len(path) - (j + 1)].pgno, Len(page[P_ROOT].ents) = 1
  PROVE  R = {P_ROOT} \cup Column(path, j) /\ lv[P_ROOT] = j + 1
<1>1. /\ TreeOK(page, R, lv, lo, hi, P_INVALID) /\ R \in SUBSET PageNo /\ P_ROOT \in R /\ leaf \in R
      /\ Len(path) \in Nat
  BY EraseTypes
<1>2. Found(page, R, lv, path, leaf, j, s, P_ROOT)
  BY GoneFinds
<1>3. lv[P_ROOT] = j + 1
  BY ONLY <1>2 DEF Found
<1>4. PICK c : c = path[Len(path) - j].pgno
  OBVIOUS
<1>5. path[Len(path) - (j + 1)].index = 1 /\ page[P_ROOT].ents[1].v = c /\ 1 \in 1 .. Len(page[P_ROOT].ents)
  BY ONLY <1>2, <1>4, Len(page[P_ROOT].ents) = 1 DEF Found
<1>6. lv[P_ROOT] # 0
  BY ONLY <1>3, j \in Nat
<1>7. /\ Down(page, R, lv, lo, hi) /\ Apart(R, lv, lo, hi) /\ Spans(R, lv, lo, hi)
  BY ONLY <1>1 DEF TreeOK
<1>8. lo[P_ROOT] = 0 /\ hi[P_ROOT] = MaxKey + 1 /\ \A p \in R : p # P_ROOT => lv[p] < lv[P_ROOT]
  BY ONLY <1>7 DEF Spans
<1>9. lo[c] = 0 /\ hi[c] = MaxKey + 1
  BY ONLY <1>1, <1>5, <1>6, <1>7, <1>8, Len(page[P_ROOT].ents) = 1 DEF Down
<1>10. \A m \in 0 .. j : lo[path[Len(path) - m].pgno] = 0 /\ hi[path[Len(path) - m].pgno] = MaxKey + 1
  <2>1. \A m \in 0 .. j : lo[path[Len(path) - m].pgno] = lo[leaf] /\ hi[path[Len(path) - m].pgno] = hi[leaf]
    BY DEF Gone
  <2>2. j \in 0 .. j
    OBVIOUS
  <2>3. QED
    BY ONLY <1>4, <1>9, <2>1, <2>2
<1>11. j < Len(path)
  BY ONLY <1>1, j \in Nat, j + 1 < Len(path)
<1>12. /\ Column(path, j) \in SUBSET R
       /\ \A m \in 0 .. j : path[Len(path) - m].pgno \in Column(path, j) /\ lv[path[Len(path) - m].pgno] = m
  BY <1>11, ColumnIs, SMTT(30)
<1>13. ASSUME NEW p \in R, p # P_ROOT PROVE p \in Column(path, j)
  <2>1. lv[p] \in Nat /\ lo[p] \in Nat /\ hi[p] \in Nat /\ lo[p] < hi[p]
    BY ONLY <1>1, <1>13, InTree
  <2>2. PICK m : m = lv[p]
    OBVIOUS
  <2>3. m \in 0 .. j
    BY ONLY <1>3, <1>8, <1>13, <2>1, <2>2, j \in Nat
  <2>4. PICK d : d = path[Len(path) - m].pgno
    OBVIOUS
  <2>5. d \in Column(path, j) /\ lv[d] = lv[p] /\ d \in R /\ lo[d] = 0 /\ hi[d] = MaxKey + 1
    BY ONLY <1>10, <1>12, <2>2, <2>3, <2>4
  <2>6. hi[p] <= MaxKey + 1
    BY ONLY <1>1, <1>13, Bounded
  <2>7. MaxKey \in Nat
    BY Numbers
  <2>8. p = d
    <3>1. SUFFICES ASSUME p # d PROVE FALSE
      OBVIOUS
    <3>2. hi[p] <= lo[d] \/ hi[d] <= lo[p]
      BY ONLY <1>7, <1>13, <2>5, <3>1 DEF Apart
    <3>3. QED
      BY ONLY <2>1, <2>5, <2>6, <2>7, <3>2
  <2>9. QED
    BY ONLY <2>5, <2>8
<1>14. QED
  BY ONLY <1>1, <1>3, <1>12, <1>13

\* __bt_pdelete gets to the root: it is an empty leaf then.
LEMMA EraseRoot ==
  ASSUME NEW T, NEW page, NEW R, NEW lv, NEW lo, NEW hi, NEW k, NEW path, NEW leaf,
         EraseAt(T, page, R, lv, lo, hi, k, path, leaf), NEW j \in Nat, j + 1 < Len(path),
         NEW s, Gone(T, page, R, lv, lo, hi, path, leaf, j, s),
         P_ROOT = path[Len(path) - (j + 1)].pgno, Len(page[P_ROOT].ents) = 1,
         NEW U, U = Drop(s, path[Len(path) - (j + 1)]).t, NEW W, W = Free(Relink(U, leaf), leaf)
  PROVE  Erased(T, page, R, lv, leaf, W)
<1>1. /\ TreeOK(page, R, lv, lo, hi, P_INVALID) /\ R \in SUBSET PageNo /\ leaf \in R /\ Len(path) \in Nat
      /\ leaf = path[Len(path) - 0].pgno /\ P_ROOT \in R
      /\ \A y \in PageNo : /\ T.page[y].prev = page[y].prev /\ T.page[y].next = page[y].next
                           /\ T.page[y].leaf = page[y].leaf /\ (y # leaf => T.page[y] = page[y])
      /\ lv[leaf] = 0
  BY EraseTypes
<1>2. PICK Inn : Inn = Inner(path, j)
  OBVIOUS
<1>3. PICK C : C = Column(path, j)
  OBVIOUS
<1>4. R = {P_ROOT} \cup C /\ lv[P_ROOT] = j + 1
  BY <1>3, OnlyPath
<1>5. j < Len(path)
  BY ONLY <1>1, j \in Nat, j + 1 < Len(path)
<1>6. C = Inn \cup {leaf} /\ \A c \in C : lv[c] \in 0 .. j /\ c = path[Len(path) - lv[c]].pgno
  BY <1>2, <1>3, <1>5, ColumnIs
<1>7. P_ROOT \notin C /\ P_ROOT \notin Inn /\ P_ROOT # leaf /\ lv[P_ROOT] # 0
  BY ONLY <1>4, <1>6, j \in Nat
<1>8. /\ s.t \in TreeM /\ s.t.cursor = T.cursor /\ s.t.last = T.last /\ s.t.memory = T.memory /\ s.t.npages = T.npages
      /\ (\E fl, n : FreeOK(s.t.page, s.t.free, s.t.npages, R \ Inn, fl, n))
      /\ Unlinked(T.page, s.t.page, R, Inn, P_INVALID, <<>>)
  BY ONLY <1>2, Gone(T, page, R, lv, lo, hi, path, leaf, j, s) DEF Gone
<1>9. PICK old : old = s.t.page
  OBVIOUS
<1>10. old \in [PageNo -> Page] /\ P_ROOT \in PageNo /\ old[P_ROOT] \in Page
  <2>1. s.t.page \in [PageNo -> Page]
    BY ONLY <1>8, TreeRecord
  <2>2. QED
    BY ONLY <1>9, <2>1, Numbers
<1>11. old[P_ROOT].prev = P_INVALID /\ old[P_ROOT].next = P_INVALID
  <2>1. page[P_ROOT].prev = P_INVALID /\ page[P_ROOT].next = P_INVALID
    BY ONLY <1>1, RootAlone
  <2>2. P_ROOT \in R \ Inn
    BY ONLY <1>1, <1>7
  <2>3. /\ old[P_ROOT].prev = IF T.page[P_ROOT].prev \in Inn THEN T.page[T.page[P_ROOT].prev].prev ELSE T.page[P_ROOT].prev
        /\ old[P_ROOT].next = IF T.page[P_ROOT].next \in Inn THEN T.page[T.page[P_ROOT].next].next ELSE T.page[P_ROOT].next
    BY ONLY <1>8, <1>9, <2>2, UnlinkedIs
  <2>4. P_INVALID \notin Inn
    BY ONLY <1>1, <1>4, <1>6, Numbers
  <2>5. QED
    BY ONLY <1>1, <1>10, <2>1, <2>3, <2>4
<1>12. PICK root : root = [leaf |-> TRUE, prev |-> P_INVALID, next |-> P_INVALID, ents |-> <<>>]
  OBVIOUS
<1>13. root \in Page /\ root.leaf /\ root.prev = P_INVALID /\ root.next = P_INVALID /\ root.ents = <<>>
  <2>1. P_INVALID \in 0 .. MaxPages - 1
    BY Numbers
  <2>2. QED
    BY ONLY <1>12, <2>1, EmptyLeaf
<1>14. PICK V : V = [old EXCEPT ![P_ROOT] = root]
  OBVIOUS
<1>15. /\ V \in [PageNo -> Page] /\ V[P_ROOT] = root /\ \A y \in PageNo : y # P_ROOT => V[y] = old[y]
  BY ONLY <1>10, <1>13, <1>14
<1>16. Found(page, R, lv, path, leaf, j, s, P_ROOT)
  BY GoneFinds
<1>17. U = [s.t EXCEPT !.page[P_ROOT].ents = <<>>, !.page[P_ROOT].leaf = TRUE]
  <2>1. s.t.page[P_ROOT].ents = page[P_ROOT].ents
    BY ONLY <1>16 DEF Found
  <2>2. ~(Len(s.t.page[P_ROOT].ents) > 1)
    BY ONLY <2>1, Len(page[P_ROOT].ents) = 1
  <2>3. QED
    BY ONLY <2>2, P_ROOT = path[Len(path) - (j + 1)].pgno, U = Drop(s, path[Len(path) - (j + 1)]).t DEF Drop
<1>18. [old EXCEPT ![P_ROOT].ents = <<>>, ![P_ROOT].leaf = TRUE] = V
  <2>1. old[P_ROOT] = Sibling(old[P_ROOT], old[P_ROOT].prev, old[P_ROOT].next, old[P_ROOT].ents)
    BY ONLY <1>10, PageParts
  <2>2. PICK a : a = old[P_ROOT].leaf
    OBVIOUS
  <2>3. PICK b : b = old[P_ROOT].ents
    OBVIOUS
  <2>4. old[P_ROOT] = [leaf |-> a, prev |-> P_INVALID, next |-> P_INVALID, ents |-> b]
    BY ONLY <1>11, <2>1, <2>2, <2>3 DEF Sibling
  <2>5. PICK yes : yes = TRUE
    OBVIOUS
  <2>6. [old EXCEPT ![P_ROOT].ents = <<>>, ![P_ROOT].leaf = yes] =
          [old EXCEPT ![P_ROOT] = [leaf |-> yes, prev |-> P_INVALID, next |-> P_INVALID, ents |-> <<>>]]
    <3>1. PICK g : g = [old EXCEPT ![P_ROOT].ents = <<>>]
      OBVIOUS
    <3>2. g[P_ROOT] = [leaf |-> a, prev |-> P_INVALID, next |-> P_INVALID, ents |-> <<>>]
      BY ONLY <1>10, <2>4, <3>1
    <3>3. PICK h : h = [g EXCEPT ![P_ROOT].leaf = yes]
      OBVIOUS
    <3>4. DOMAIN g = PageNo /\ \A y \in PageNo : y # P_ROOT => g[y] = old[y]
      BY ONLY <1>10, <3>1
    <3>5. h[P_ROOT] = [leaf |-> yes, prev |-> P_INVALID, next |-> P_INVALID, ents |-> <<>>]
      BY ONLY <1>10, <3>2, <3>3, <3>4
    <3>6. h = [old EXCEPT ![P_ROOT] = [leaf |-> yes, prev |-> P_INVALID, next |-> P_INVALID, ents |-> <<>>]]
      BY ONLY <1>10, <3>3, <3>4, <3>5
    <3>7. h = [old EXCEPT ![P_ROOT].ents = <<>>, ![P_ROOT].leaf = yes]
      BY ONLY <1>10, <2>4, <3>1, <3>3
    <3>8. QED
      BY ONLY <3>6, <3>7
  <2>7. QED
    BY ONLY <1>12, <1>14, <2>5, <2>6, Zenon
<1>19. U = [page |-> V, npages |-> s.t.npages, free |-> s.t.free, memory |-> s.t.memory,
            cursor |-> s.t.cursor, last |-> s.t.last]
  <2>1. PICK S : S = s.t
    OBVIOUS
  <2>2. S = [page |-> S.page, npages |-> S.npages, free |-> S.free, memory |-> S.memory,
             cursor |-> S.cursor, last |-> S.last]
    BY ONLY <1>8, <2>1, TreeRecord
  <2>3. PICK yes : yes = TRUE
    OBVIOUS
  <2>4. [S EXCEPT !.page[P_ROOT].ents = <<>>, !.page[P_ROOT].leaf = yes]
          = [S EXCEPT !.page = [S.page EXCEPT ![P_ROOT].ents = <<>>, ![P_ROOT].leaf = yes]]
    BY ONLY <2>2
  <2>5. [S EXCEPT !.page[P_ROOT].ents = <<>>, !.page[P_ROOT].leaf = TRUE]
          = [S EXCEPT !.page = [S.page EXCEPT ![P_ROOT].ents = <<>>, ![P_ROOT].leaf = TRUE]]
    BY ONLY <2>3, <2>4, Zenon
  <2>6. U = [S EXCEPT !.page = V]
    BY ONLY <1>9, <1>17, <1>18, <2>1, <2>5, Zenon
  <2>7. QED
    BY ONLY <2>1, <2>2, <2>6
<1>20. /\ U.page = V /\ U.npages = T.npages /\ U.free = s.t.free /\ U.memory = T.memory
       /\ U.cursor = T.cursor /\ U.last = T.last
  BY ONLY <1>8, <1>19
<1>21. U \in TreeM
  <2>1. /\ s.t.npages \in 2 .. MaxPages /\ s.t.free \in 0 .. MaxPages - 1
        /\ s.t.memory \in Nat /\ s.t.cursor \in Cursor /\ s.t.last \in Hint
    BY ONLY <1>8, TreeRecord
  <2>2. [page |-> V, npages |-> s.t.npages, free |-> s.t.free, memory |-> s.t.memory,
         cursor |-> s.t.cursor, last |-> s.t.last] \in TreeM
    BY ONLY <1>15, <2>1 DEF TreeM
  <2>3. QED
    BY ONLY <1>19, <2>2
<1>22. \E fl, n : FreeOK(U.page, U.free, U.npages, R \ Inn, fl, n)
  <2>1. PICK fl, n : FreeOK(old, s.t.free, s.t.npages, R \ Inn, fl, n)
    BY ONLY <1>8, <1>9
  <2>2. \A y \in PageNo : V[y].next = old[y].next
    BY ONLY <1>11, <1>13, <1>15
  <2>3. FreeOK(V, s.t.free, s.t.npages, R \ Inn, fl, n)
    BY ONLY <1>10, <2>1, <2>2, FreeSame
  <2>4. QED
    BY ONLY <1>8, <1>20, <2>3
<1>23. /\ leaf \in R \ Inn /\ leaf \in PageNo /\ V[leaf].prev \in (R \ Inn) \cup {P_INVALID}
       /\ V[leaf].prev # P_ROOT /\ V[leaf].next # P_ROOT
  <2>1. LeafAt(page, R, lv, path, leaf, j, s)
    BY LeafIs
  <2>2. /\ leaf \in R \ Inn /\ leaf \in PageNo /\ page[leaf].prev \in (R \ Inn) \cup {P_INVALID}
        /\ old[leaf].prev = page[leaf].prev /\ old[leaf].next = page[leaf].next
        /\ (page[leaf].prev \in R => lv[page[leaf].prev] = 0)
        /\ (page[leaf].next \in R => lv[page[leaf].next] = 0)
    BY ONLY <1>2, <1>9, <2>1 DEF LeafAt
  <2>3. V[leaf] = old[leaf]
    BY ONLY <1>7, <1>15, <2>2
  <2>4. QED
    BY ONLY <1>1, <1>7, <2>2, <2>3
<1>24. /\ W = [page |-> W.page, npages |-> U.npages, free |-> leaf, memory |-> U.memory,
               cursor |-> U.cursor, last |-> U.last]
       /\ IsFreed(V, W.page, leaf, U.free) /\ W \in TreeM
  BY ONLY <1>20, <1>21, <1>23, W = Free(Relink(U, leaf), leaf), FreedIs
<1>25. W.npages = T.npages /\ W.memory = T.memory /\ W.cursor = T.cursor /\ W.last = T.last
  BY ONLY <1>20, <1>24
<1>26. R \ C = {P_ROOT} /\ (R \ Inn) \ {leaf} = {P_ROOT}
  BY ONLY <1>4, <1>6, <1>7
<1>27. \E f, m : FreeOK(W.page, W.free, W.npages, {P_ROOT}, f, m)
  <2>1. PICK fl, n : FreeOK(U.page, U.free, U.npages, R \ Inn, fl, n)
    BY ONLY <1>22
  <2>2. R \ Inn \in SUBSET PageNo
    BY ONLY <1>1
  <2>3. U.page[leaf].prev \in (R \ Inn) \cup {P_INVALID}
    BY ONLY <1>20, <1>23
  <2>4. \E f, m : FreeOK(W.page, W.free, W.npages, (R \ Inn) \ {leaf}, f, m)
    BY ONLY <1>21, <1>23, <2>1, <2>2, <2>3, W = Free(Relink(U, leaf), leaf), FreedFree
  <2>5. QED
    BY ONLY <1>26, <2>4
<1>28. \A y \in PageNo : y # leaf => W.page[y].leaf = V[y].leaf /\ W.page[y].ents = V[y].ents
  <2>1. SUFFICES ASSUME NEW y \in PageNo, y # leaf PROVE W.page[y].leaf = V[y].leaf /\ W.page[y].ents = V[y].ents
    OBVIOUS
  <2>2. PICK a : a = IF y = V[leaf].next THEN V[leaf].prev ELSE V[y].prev
    OBVIOUS
  <2>3. PICK b : b = IF y = V[leaf].prev /\ y # V[leaf].next THEN V[leaf].next ELSE V[y].next
    OBVIOUS
  <2>4. W.page[y] = Sibling(V[y], a, b, V[y].ents)
    BY ONLY <1>24, <2>1, <2>2, <2>3 DEF IsFreed
  <2>5. QED
    BY ONLY <2>4, SiblingIs
<1>29. /\ W.page[P_ROOT].prev = P_INVALID /\ W.page[P_ROOT].next = P_INVALID /\ Len(W.page[P_ROOT].ents) = 0
  <2>1. PICK a : a = IF P_ROOT = V[leaf].next THEN V[leaf].prev ELSE V[P_ROOT].prev
    OBVIOUS
  <2>2. PICK b : b = IF P_ROOT = V[leaf].prev /\ P_ROOT # V[leaf].next THEN V[leaf].next ELSE V[P_ROOT].next
    OBVIOUS
  <2>3. W.page[P_ROOT] = Sibling(V[P_ROOT], a, b, V[P_ROOT].ents)
    BY ONLY <1>7, <1>10, <1>24, <2>1, <2>2 DEF IsFreed
  <2>4. a = P_INVALID /\ b = P_INVALID
    BY ONLY <1>13, <1>15, <1>23, <2>1, <2>2
  <2>5. W.page[P_ROOT].prev = a /\ W.page[P_ROOT].next = b /\ W.page[P_ROOT].ents = <<>>
    BY ONLY <1>13, <1>15, <2>3, SiblingIs
  <2>6. Len(<<>>) = 0
    OBVIOUS
  <2>7. QED
    BY ONLY <2>4, <2>5, <2>6
<1>30. \A y \in PageNo : W.page[y].leaf
  <2>1. SUFFICES ASSUME NEW y \in PageNo PROVE W.page[y].leaf
    OBVIOUS
  <2>2. CASE y = leaf
    <3>1. PICK yes : yes = TRUE
      OBVIOUS
    <3>2. W.page[leaf] = [leaf |-> TRUE, prev |-> P_INVALID, next |-> U.free, ents |-> <<>>]
      BY ONLY <1>24 DEF IsFreed
    <3>3. QED
      BY ONLY <2>2, <3>2
  <2>3. CASE y # leaf /\ y = P_ROOT
    BY ONLY <1>7, <1>10, <1>13, <1>15, <1>28, <2>3
  <2>4. CASE y # leaf /\ y # P_ROOT
    <3>1. W.page[y].leaf = old[y].leaf
      BY ONLY <1>15, <1>28, <2>1, <2>4
    <3>2. CASE y \in Inn
      BY ONLY <1>8, <1>9, <3>1, <3>2 DEF Unlinked
    <3>3. CASE y \notin Inn
      <4>1. y \notin R
        BY ONLY <1>4, <1>6, <2>4, <3>3
      <4>2. old[y] = T.page[y]
        BY ONLY <1>8, <1>9, <2>1, <4>1 DEF Unlinked
      <4>3. Kinds(page, R, lv)
        BY ONLY <1>1 DEF TreeOK
      <4>4. page[y].leaf
        BY ONLY <2>1, <4>1, <4>3 DEF Kinds
      <4>5. QED
        BY ONLY <1>1, <2>1, <3>1, <4>2, <4>4
    <3>4. QED
      BY ONLY <3>2, <3>3
  <2>5. QED
    BY ONLY <2>2, <2>3, <2>4
<1>31. PICK lv2 : lv2 = [lv EXCEPT ![P_ROOT] = 0]
  OBVIOUS
<1>32. /\ lv2 \in [PageNo -> Nat] /\ lo \in [PageNo -> Nat] /\ hi \in [PageNo -> Nat]
       /\ lv2[P_ROOT] = 0 /\ lo[P_ROOT] = 0 /\ hi[P_ROOT] = MaxKey + 1
  <2>1. lv \in [PageNo -> Nat] /\ lo \in [PageNo -> Nat] /\ hi \in [PageNo -> Nat]
    BY ONLY <1>1 DEF TreeOK, Typed
  <2>2. lo[P_ROOT] = 0 /\ hi[P_ROOT] = MaxKey + 1
    BY ONLY <1>1, RootAlone
  <2>3. QED
    BY ONLY <1>10, <1>31, <2>1, <2>2
<1>33. W.page \in [PageNo -> Page]
  BY ONLY <1>24, TreeRecord
<1>34. TreeOK(W.page, {P_ROOT}, lv2, lo, hi, P_INVALID)
  BY ONLY <1>29, <1>30, <1>32, <1>33, EmptyTree
<1>35. \A c \in C : lv[c] = 0 => c = leaf
  BY ONLY <1>1, <1>6
<1>36. LeavesKept(page, R, lv, W.page, {P_ROOT}, lv2, leaf)
  BY ONLY <1>4, <1>7, <1>29, <1>35 DEF LeavesKept
<1>37. QED
  BY ONLY <1>24, <1>25, <1>27, <1>30, <1>34, <1>36 DEF Erased

\* __bt_pdelete: the tree without the leaf.
LEMMA PdeleteIs ==
  ASSUME NEW T, NEW page, NEW R, NEW lv, NEW lo, NEW hi, NEW k, NEW path, NEW leaf,
         EraseAt(T, page, R, lv, lo, hi, k, path, leaf), NEW W, W = Pdelete(T, path)
  PROVE  Erased(T, page, R, lv, leaf, W)
<1>1. Len(path) \in Nat /\ Len(path) >= 2
  BY EraseTypes
<1>2. leaf = path[Len(path)].pgno /\ leaf # P_ROOT
  BY DEF EraseAt
<1>3. Len(path) # 0
  BY ONLY <1>1
<1>4. PICK f : /\ IsDrops(T, path, 0 .. Len(path) - 1, f)
               /\ W = Free(Relink(f[Len(path) - 1].t, leaf), leaf)
  BY ONLY <1>1, <1>2, <1>3, W = Pdelete(T, path), PdeleteDrops
<1>5. PICK u : u = f[Len(path) - 1]
  OBVIOUS
<1>6. Ended(T, page, R, lv, lo, hi, path, leaf, u)
  BY <1>4, <1>5, DropsEnd
<1>7. PICK j, s : /\ j \in Nat /\ j + 1 < Len(path) /\ Gone(T, page, R, lv, lo, hi, path, leaf, j, s)
                  /\ u = Drop(s, path[Len(path) - (j + 1)]) /\ ~u.up
  BY <1>6 DEF Ended
<1>8. PICK q : q = path[Len(path) - (j + 1)].pgno
  OBVIOUS
<1>9. PICK U : U = Drop(s, path[Len(path) - (j + 1)]).t
  OBVIOUS
<1>10. W = Free(Relink(U, leaf), leaf)
  BY ONLY <1>4, <1>5, <1>7, <1>9
<1>11. Found(page, R, lv, path, leaf, j, s, q)
  BY <1>7, <1>8, GoneFinds
<1>12. Len(page[q].ents) \in Nat /\ Len(page[q].ents) # 0 /\ s.t.page[q].ents = page[q].ents
  BY ONLY <1>11 DEF Found
<1>13. CASE Len(page[q].ents) > 1
  BY <1>7, <1>8, <1>9, <1>10, <1>13, EraseUp
<1>14. CASE ~(Len(page[q].ents) > 1)
  <2>1. \A n \in Nat : n # 0 /\ ~(n > 1) => n = 1
    OBVIOUS
  <2>2. Len(page[q].ents) = 1
    BY ONLY <1>12, <1>14, <2>1
  <2>3. q = P_ROOT
    <3>1. SUFFICES ASSUME q # P_ROOT PROVE FALSE
      OBVIOUS
    <3>2. u = [t |-> Free(Relink(s.t, q), q), up |-> TRUE]
      BY ONLY <1>7, <1>8, <1>12, <1>14, <3>1 DEF Drop
    <3>3. u.up
      BY ONLY <3>2
    <3>4. QED
      BY ONLY <1>7, <3>3
  <2>4. P_ROOT = path[Len(path) - (j + 1)].pgno /\ Len(page[P_ROOT].ents) = 1
    BY ONLY <1>8, <2>2, <2>3
  <2>5. QED
    BY <1>7, <1>9, <1>10, <2>4, EraseRoot
<1>15. QED
  BY ONLY <1>13, <1>14

\* An empty root is kept.
LEMMA PdeleteRoot ==
  ASSUME NEW T, NEW path, Len(path) = 1, path[Len(path)].pgno = P_ROOT
  PROVE  Pdelete(T, path) = T
<1> DEFINE f == CHOOSE g : IsDrops(T, path, 0 .. Len(path) - 1, g)
<1>1. Len(path) - 1 \in Nat /\ Len(path) - 1 = 0 /\ 0 \in 0 .. Len(path) - 1
  OBVIOUS
<1>2. IsDrops(T, path, 0 .. Len(path) - 1, f)
  <2>1. \E g : IsDrops(T, path, 0 .. Len(path) - 1, g)
    BY <1>1, DropsExist
  <2>2. QED
    BY <2>1
<1>3. Pdelete(T, path) = IF path[Len(path)].pgno = P_ROOT THEN f[Len(path) - 1].t
                         ELSE Free(Relink(f[Len(path) - 1].t, path[Len(path)].pgno), path[Len(path)].pgno)
  BY DEF Pdelete, IsDrops, Drop
<1> HIDE DEF f
<1>4. f[0] = [t |-> T, up |-> TRUE]
  BY ONLY <1>1, <1>2 DEF IsDrops
<1>5. Pdelete(T, path) = f[0].t
  BY ONLY <1>1, <1>3, path[Len(path)].pgno = P_ROOT
<1>6. f[0].t = T
  BY ONLY <1>4
<1>7. QED
  BY ONLY <1>5, <1>6

\* What __bt_dleaf does to the tree: the record is gone, the cursor is on its
\* own record or has the key of the one that is gone.
LeafChanged(T, p, es, R, lv, key, W) ==
  /\ W \in TreeM /\ W.page = WithEnts(T.page, p, es)
  /\ W.npages = T.npages /\ W.free = T.free /\ W.memory = T.memory
  /\ CursorOK(W.cursor, W.page, R, lv, key)
  /\ HintOK(T.last, T.page) => HintOK(W.last, W.page)

\* A leaf, and the state of the cursor.
LeafHere(T, p, R, lv, key) ==
  /\ T \in TreeM /\ R \in SUBSET PageNo /\ p \in R /\ lv[p] = 0 /\ T.page[p].leaf
  /\ CursorOK(T.cursor, T.page, R, lv, key)

\* Where the cursor is when record i of page p, whose key is k, is deleted.
CursorLeft(c, p, i, k) ==
  IF ~On(c, p) \/ c.index < i THEN c
  ELSE IF c.index = i THEN [c EXCEPT !.acquire = TRUE, !.key = k] ELSE [c EXCEPT !.index = @ - 1]

\* What is left of a cursor when record i of page p, whose key is k, goes.
LostMark(c, d, p, i, k) ==
  IF On(c, p) /\ c.index = i THEN d.init /\ d.acquire /\ d.key = k ELSE SameMark(c, d)

\* What __bt_curdel and __bt_dleaf do to the cursor.
LEMMA LeftMark ==
  ASSUME NEW c \in Cursor, NEW p, NEW i \in Nat, NEW k, NEW d, d = CursorLeft(c, p, i, k)
  PROVE  LostMark(c, d, p, i, k)
<1>1. /\ c = [init |-> c.init, acquire |-> c.acquire, key |-> c.key, pgno |-> c.pgno, index |-> c.index]
      /\ c.index \in Nat
  BY DEF Cursor
<1>2. CASE ~On(c, p) \/ c.index < i
  <2>1. d = c
    BY ONLY <1>2, d = CursorLeft(c, p, i, k) DEF CursorLeft
  <2>2. ~(On(c, p) /\ c.index = i)
    BY ONLY <1>1, <1>2, i \in Nat
  <2>3. QED
    BY ONLY <2>1, <2>2 DEF LostMark, SameMark
<1>3. CASE ~(~On(c, p) \/ c.index < i) /\ c.index = i
  <2>1. d = [c EXCEPT !.acquire = TRUE, !.key = k]
    BY ONLY <1>3, d = CursorLeft(c, p, i, k) DEF CursorLeft
  <2>2. d = [init |-> c.init, acquire |-> TRUE, key |-> k, pgno |-> c.pgno, index |-> c.index]
    BY ONLY <1>1, <2>1
  <2>3. c.init
    BY ONLY <1>3 DEF On
  <2>4. d.init /\ d.acquire /\ d.key = k
    BY ONLY <2>2, <2>3
  <2>5. On(c, p) /\ c.index = i
    BY ONLY <1>3
  <2>6. QED
    BY ONLY <2>4, <2>5 DEF LostMark
<1>4. CASE ~(~On(c, p) \/ c.index < i) /\ c.index # i
  <2>1. d = [c EXCEPT !.index = c.index - 1]
    BY ONLY <1>4, d = CursorLeft(c, p, i, k) DEF CursorLeft
  <2>2. d = [init |-> c.init, acquire |-> c.acquire, key |-> c.key, pgno |-> c.pgno, index |-> c.index - 1]
    BY ONLY <1>1, <2>1
  <2>3. SameMark(c, d)
    BY ONLY <2>2 DEF SameMark
  <2>4. QED
    BY ONLY <1>4, <2>3 DEF LostMark
<1>5. QED
  BY ONLY <1>2, <1>3, <1>4

DleafAt(page, R, lv, key, c, p, i, es, k) ==
  /\ page \in [PageNo -> Page] /\ R \in SUBSET PageNo /\ c \in Cursor /\ CursorOK(c, page, R, lv, key)
  /\ p \in R /\ lv[p] = 0 /\ page[p].leaf /\ i \in 1 .. Len(page[p].ents) /\ IsRemoved(es, page[p].ents, i)
  /\ k = page[p].ents[i].k

\* The cursor is on its record when another was deleted, or has its key.
LEMMA DleafCursor ==
  ASSUME NEW page, NEW R, NEW lv, NEW key, NEW c, NEW p, NEW i, NEW es, NEW k, DleafAt(page, R, lv, key, c, p, i, es, k),
         NEW new, new = WithEnts(page, p, es), NEW d, d = CursorLeft(c, p, i, k)
  PROVE  d \in Cursor /\ CursorOK(d, new, R, lv, key)
<1>0. /\ page \in [PageNo -> Page] /\ R \in SUBSET PageNo /\ c \in Cursor /\ CursorOK(c, page, R, lv, key)
      /\ p \in R /\ lv[p] = 0 /\ page[p].leaf /\ i \in 1 .. Len(page[p].ents) /\ IsRemoved(es, page[p].ents, i)
      /\ k = page[p].ents[i].k
  BY DEF DleafAt
<1> USE <1>0
<1>1. p \in PageNo /\ page[p] \in Page
  OBVIOUS
<1>2. PICK old : old = page[p].ents
  OBVIOUS
<1>3. Len(old) \in Nat /\ \A j \in 1 .. Len(old) : old[j].k \in Key
  BY ONLY <1>1, <1>2, page[p].leaf, PageParts
<1>4. Len(es) = Len(old) - 1 /\ \A j \in 1 .. Len(old) - 1 : es[j] = IF j < i THEN old[j] ELSE old[j + 1]
  BY ONLY <1>2, IsRemoved(es, page[p].ents, i) DEF IsRemoved
<1>5. i \in 1 .. Len(old)
  BY ONLY <1>2, i \in 1 .. Len(page[p].ents)
<1>6. new[p].ents = es /\ \A y \in PageNo : y # p => new[y] = page[y]
  BY ONLY <1>1, page \in [PageNo -> Page], new = WithEnts(page, p, es), WithEntsIs
<1>7. /\ c.init \in BOOLEAN /\ c.acquire \in BOOLEAN /\ c.key \in Key \cup {None} /\ c.pgno \in 0 .. MaxPages - 1
      /\ c.index \in Nat
      /\ c = [init |-> c.init, acquire |-> c.acquire, key |-> c.key, pgno |-> c.pgno, index |-> c.index]
  BY DEF Cursor
<1>8. /\ c.acquire => c.init /\ c.key \in Key
      /\ c.init /\ ~c.acquire => /\ c.pgno \in R /\ lv[c.pgno] = 0
                                 /\ c.index \in 1 .. Len(page[c.pgno].ents)
                                 /\ page[c.pgno].ents[c.index].k = key
  BY DEF CursorOK
<1>9. CASE ~On(c, p)
  <2>1. d = c
    BY ONLY <1>9, d = CursorLeft(c, p, i, k) DEF CursorLeft
  <2>2. c.init /\ ~c.acquire => c.pgno # p /\ new[c.pgno] = page[c.pgno]
    BY ONLY <1>6, <1>8, <1>9, R \in SUBSET PageNo DEF On
  <2>3. CursorOK(c, new, R, lv, key)
    BY ONLY <1>8, <2>2 DEF CursorOK
  <2>4. QED
    BY <2>1, <2>3
<1>10. CASE On(c, p) /\ c.index < i
  <2>1. d = c
    BY ONLY <1>10, d = CursorLeft(c, p, i, k) DEF CursorLeft
  <2>2. c.init /\ ~c.acquire /\ c.pgno = p
    BY ONLY <1>10 DEF On
  <2>3. c.index \in 1 .. Len(old) /\ old[c.index].k = key
    BY ONLY <1>2, <1>8, <2>2
  <2>4. c.index \in 1 .. Len(old) - 1
    BY ONLY <1>3, <1>5, <1>10, <2>3
  <2>5. c.index \in 1 .. Len(es) /\ es[c.index] = old[c.index]
    BY ONLY <1>4, <1>10, <2>4
  <2>6. CursorOK(c, new, R, lv, key)
    BY ONLY <1>6, <1>8, <2>2, <2>3, <2>5 DEF CursorOK
  <2>7. QED
    BY <2>1, <2>6
<1>11. CASE On(c, p) /\ ~(c.index < i) /\ c.index = i
  <2>1. d = [c EXCEPT !.acquire = TRUE, !.key = old[i].k]
    BY ONLY <1>2, <1>11, k = page[p].ents[i].k, d = CursorLeft(c, p, i, k) DEF CursorLeft
  <2>2. c.init
    BY ONLY <1>11 DEF On
  <2>3. old[i].k \in Key
    BY ONLY <1>3, <1>5
  <2>4. d = [init |-> c.init, acquire |-> TRUE, key |-> old[i].k, pgno |-> c.pgno, index |-> c.index]
    BY ONLY <1>7, <2>1
  <2>5. d \in Cursor
    BY ONLY <1>7, <2>3, <2>4 DEF Cursor
  <2>6. d.acquire /\ d.init /\ d.key \in Key
    BY ONLY <2>2, <2>3, <2>4
  <2>7. QED
    BY ONLY <2>5, <2>6 DEF CursorOK
<1>12. CASE On(c, p) /\ ~(c.index < i) /\ c.index # i
  <2>1. d = [c EXCEPT !.index = c.index - 1]
    BY ONLY <1>12, d = CursorLeft(c, p, i, k) DEF CursorLeft
  <2>2. c.init /\ ~c.acquire /\ c.pgno = p
    BY ONLY <1>12 DEF On
  <2>3. c.index \in 1 .. Len(old) /\ old[c.index].k = key
    BY ONLY <1>2, <1>8, <2>2
  <2>4. c.index - 1 \in 1 .. Len(old) - 1 /\ ~(c.index - 1 < i) /\ (c.index - 1) + 1 = c.index /\ c.index - 1 \in Nat
    BY ONLY <1>3, <1>5, <1>12, <2>3
  <2>5. c.index - 1 \in 1 .. Len(es) /\ es[c.index - 1] = old[c.index]
    BY ONLY <1>4, <2>4
  <2>6. d = [init |-> c.init, acquire |-> c.acquire, key |-> c.key, pgno |-> c.pgno, index |-> c.index - 1]
    BY ONLY <1>7, <2>1
  <2>7. d \in Cursor
    BY ONLY <1>7, <2>4, <2>6 DEF Cursor
  <2>8. d.pgno = p /\ d.index = c.index - 1 /\ d.acquire = c.acquire
    BY ONLY <2>2, <2>6
  <2>9. CursorOK(d, new, R, lv, key)
    BY ONLY <1>6, <2>2, <2>3, <2>5, <2>8, p \in R, lv[p] = 0 DEF CursorOK
  <2>10. QED
    BY ONLY <2>7, <2>9
<1>13. QED
  BY ONLY <1>9, <1>10, <1>11, <1>12

LEMMA DleafIs ==
  ASSUME NEW T, NEW R, NEW lv, NEW key, NEW p, LeafHere(T, p, R, lv, key), NEW i \in 1 .. Len(T.page[p].ents), NEW es,
         es = RemoveAt(T.page[p].ents, i), NEW W, W = Dleaf(T, p, i)
  PROVE  /\ LeafChanged(T, p, es, R, lv, key, W) /\ IsRemoved(es, T.page[p].ents, i)
         /\ LostMark(T.cursor, W.cursor, p, i, T.page[p].ents[i].k)
<1>1. /\ T \in TreeM /\ R \in SUBSET PageNo /\ p \in R /\ lv[p] = 0 /\ T.page[p].leaf
      /\ CursorOK(T.cursor, T.page, R, lv, key) /\ p \in PageNo
  BY DEF LeafHere
<1>2. /\ T = [page |-> T.page, npages |-> T.npages, free |-> T.free, memory |-> T.memory,
              cursor |-> T.cursor, last |-> T.last]
      /\ T.page \in [PageNo -> Page] /\ T.npages \in 2 .. MaxPages /\ T.free \in 0 .. MaxPages - 1
      /\ T.memory \in Nat /\ T.cursor \in Cursor /\ T.last \in Hint
  BY <1>1, TreeRecord
<1>3. PICK V : V = WithEnts(T.page, p, es)
  OBVIOUS
<1>4. IsRemoved(es, T.page[p].ents, i) /\ V \in [PageNo -> Page]
  BY <1>1, <1>2, <1>3, FewerEnts
<1>5. PICK c : c = T.cursor
  OBVIOUS
<1>6. PICK k : k = T.page[p].ents[i].k
  OBVIOUS
<1>7. PICK d : d = CursorLeft(c, p, i, k)
  OBVIOUS
<1>8. d \in Cursor /\ CursorOK(d, V, R, lv, key)
  <2>1. PICK page : page = T.page
    OBVIOUS
  <2>2. /\ page \in [PageNo -> Page] /\ c \in Cursor /\ CursorOK(c, page, R, lv, key) /\ page[p].leaf
        /\ i \in 1 .. Len(page[p].ents) /\ IsRemoved(es, page[p].ents, i) /\ V = WithEnts(page, p, es)
        /\ k = page[p].ents[i].k
    BY ONLY <1>1, <1>2, <1>3, <1>4, <1>5, <1>6, <2>1, i \in 1 .. Len(T.page[p].ents)
  <2>3. R \in SUBSET PageNo /\ p \in R /\ lv[p] = 0
    BY ONLY <1>1
  <2>4. DleafAt(page, R, lv, key, c, p, i, es, k)
    BY ONLY <2>2, <2>3 DEF DleafAt
  <2>5. QED
    BY ONLY <1>7, <2>2, <2>4, DleafCursor
<1>9. PICK x : x = IF T.last.pgno = p /\ Len(T.page[p].ents) = 1 THEN k ELSE T.last.stale
  OBVIOUS
<1>10. PICK h : h = [T.last EXCEPT !.stale = x]
  OBVIOUS
<1>11. h \in Hint /\ h.order = T.last.order /\ h.pgno = T.last.pgno
  <2>1. k \in 0 .. MaxKey
    BY <1>1, <1>2, <1>6, PageParts
  <2>2. x \in 0 .. MaxKey
    BY <1>2, <1>9, <2>1 DEF Hint
  <2>3. QED
    BY <1>2, <1>10, <2>2 DEF Hint
<1>12. W = [page |-> V, npages |-> T.npages, free |-> T.free, memory |-> T.memory, cursor |-> d, last |-> h]
  <2>1. PICK S : S = [T EXCEPT !.page[p].ents = RemoveAt(@, i),
                               !.last.stale = IF T.last.pgno = p /\ Len(T.page[p].ents) = 1
                                              THEN T.page[p].ents[i].k ELSE @]
    OBVIOUS
  <2>2. V = [T.page EXCEPT ![p].ents = es]
    BY <1>1, <1>2, <1>3, WithEntsIs
  <2>3. S = [page |-> V, npages |-> T.npages, free |-> T.free, memory |-> T.memory, cursor |-> T.cursor, last |-> h]
    <3>1. S = [T EXCEPT !.page = [T.page EXCEPT ![p].ents = es], !.last = [T.last EXCEPT !.stale = x]]
      BY <1>1, <1>2, <1>6, <1>9, <2>1 DEF Hint
    <3>2. S = [T EXCEPT !.page = V, !.last = h]
      BY ONLY <1>10, <2>2, <3>1
    <3>3. QED
      BY ONLY <1>2, <3>2
  <2>4. W = IF ~On(c, p) \/ c.index < i THEN S
            ELSE IF c.index = i THEN [S EXCEPT !.cursor.acquire = TRUE, !.cursor.key = T.page[p].ents[i].k]
            ELSE [S EXCEPT !.cursor.index = @ - 1]
    BY <1>5, <2>1 DEF Dleaf
  <2>5. CASE ~On(c, p) \/ c.index < i
    BY ONLY <1>5, <1>7, <2>3, <2>4, <2>5 DEF CursorLeft
  <2>6. CASE ~(~On(c, p) \/ c.index < i) /\ c.index = i
    <3>1. W = [S EXCEPT !.cursor.acquire = TRUE, !.cursor.key = k] /\ d = [c EXCEPT !.acquire = TRUE, !.key = k]
      BY ONLY <1>6, <1>7, <2>4, <2>6 DEF CursorLeft
    <3>2. PICK yes : yes = TRUE
      OBVIOUS
    <3>3. c = [init |-> c.init, acquire |-> c.acquire, key |-> c.key, pgno |-> c.pgno, index |-> c.index]
      BY <1>2, <1>5 DEF Cursor
    <3>4. S.cursor = c
      BY ONLY <1>5, <2>3
    <3>5. [S EXCEPT !.cursor.acquire = yes, !.cursor.key = k] = [S EXCEPT !.cursor = [c EXCEPT !.acquire = yes, !.key = k]]
      BY ONLY <2>3, <3>3, <3>4
    <3>6. W = [S EXCEPT !.cursor = d]
      BY ONLY <3>1, <3>2, <3>5, Zenon
    <3>7. QED
      BY ONLY <2>3, <3>6
  <2>7. CASE ~(~On(c, p) \/ c.index < i) /\ c.index # i
    <3>1. W = [S EXCEPT !.cursor.index = @ - 1] /\ d = [c EXCEPT !.index = c.index - 1]
      BY ONLY <1>7, <2>4, <2>7 DEF CursorLeft
    <3>2. c = [init |-> c.init, acquire |-> c.acquire, key |-> c.key, pgno |-> c.pgno, index |-> c.index]
      BY <1>2, <1>5 DEF Cursor
    <3>3. S.cursor = c
      BY ONLY <1>5, <2>3
    <3>4. W = [S EXCEPT !.cursor = d]
      BY ONLY <2>3, <3>1, <3>2, <3>3
    <3>5. QED
      BY ONLY <2>3, <3>4
  <2>8. QED
    BY ONLY <2>5, <2>6, <2>7
<1>13. W \in TreeM
  <2>1. [page |-> V, npages |-> T.npages, free |-> T.free, memory |-> T.memory, cursor |-> d, last |-> h] \in TreeM
    BY ONLY <1>2, <1>4, <1>8, <1>11 DEF TreeM
  <2>2. QED
    BY ONLY <1>12, <2>1
<1>14. /\ W.page = V /\ W.npages = T.npages /\ W.free = T.free /\ W.memory = T.memory /\ W.cursor = d /\ W.last = h
  BY ONLY <1>12
<1>15. HintOK(T.last, T.page) => HintOK(h, V)
  <2>1. \A y \in PageNo : V[y].leaf = T.page[y].leaf
    BY <1>1, <1>2, <1>3, WithEntsIs
  <2>2. QED
    BY ONLY <1>11, <2>1 DEF HintOK
<1>16. LostMark(T.cursor, W.cursor, p, i, T.page[p].ents[i].k)
  <2>1. i \in Nat
    BY <1>1, <1>2, PageParts
  <2>2. c \in Cursor
    BY ONLY <1>2, <1>5
  <2>3. LostMark(c, d, p, i, k)
    BY ONLY <1>7, <2>1, <2>2, LeftMark
  <2>4. QED
    BY ONLY <1>5, <1>6, <1>14, <2>3
<1>17. QED
  BY ONLY <1>3, <1>4, <1>8, <1>13, <1>14, <1>15, <1>16 DEF LeafChanged

\* Only the record of the leaf that was freed is gone.
LEMMA HeldErased ==
  ASSUME NEW page, NEW R, NEW lv, NEW lo, NEW hi, TreeOK(page, R, lv, lo, hi, P_INVALID),
         NEW cont, Held(page, R, lv, cont), cont \in [Key -> Data \cup {None}],
         NEW leaf \in R, lv[leaf] = 0, Len(page[leaf].ents) = 1, NEW k, k = page[leaf].ents[1].k,
         NEW new, NEW S, NEW lv2, LeavesKept(page, R, lv, new, S, lv2, leaf)
  PROVE  Held(new, S, lv2, [cont EXCEPT ![k] = None])
<1>1. PICK c2 : c2 = [cont EXCEPT ![k] = None]
  OBVIOUS
<1>2. 1 \in 1 .. Len(page[leaf].ents)
  OBVIOUS
<1>3. k \in Key
  BY ONLY <1>2, TreeOK(page, R, lv, lo, hi, P_INVALID), leaf \in R, lv[leaf] = 0, k = page[leaf].ents[1].k, InTree
<1>4. c2[k] = None /\ \A x \in Key : x # k => c2[x] = cont[x]
  BY ONLY <1>1, <1>3, cont \in [Key -> Data \cup {None}]
<1>5. ASSUME NEW p \in R, lv[p] = 0, p # leaf, NEW i \in 1 .. Len(page[p].ents)
      PROVE  page[p].ents[i].k \in Key /\ page[p].ents[i].k # k
  <2>1. PICK x : x = page[p].ents[i].k
    OBVIOUS
  <2>2. x \in Key /\ x \in Nat /\ k \in Nat /\ lo[p] \in Nat /\ hi[p] \in Nat /\ lo[leaf] \in Nat /\ hi[leaf] \in Nat
    <3>1. x \in Key /\ x \in Nat /\ lo[p] \in Nat /\ hi[p] \in Nat
      BY ONLY <1>5, <2>1, TreeOK(page, R, lv, lo, hi, P_INVALID), InTree
    <3>2. k \in Nat /\ lo[leaf] \in Nat /\ hi[leaf] \in Nat
      BY ONLY <1>2, TreeOK(page, R, lv, lo, hi, P_INVALID), leaf \in R, k = page[leaf].ents[1].k, InTree
    <3>3. QED
      BY ONLY <3>1, <3>2
  <2>3. Within(page, R, lv, lo, hi) /\ Apart(R, lv, lo, hi)
    BY ONLY TreeOK(page, R, lv, lo, hi, P_INVALID) DEF TreeOK
  <2>4. lo[p] <= x /\ x < hi[p] /\ lo[leaf] <= k /\ k < hi[leaf]
    BY ONLY <1>2, <1>5, <2>1, <2>3, leaf \in R, lv[leaf] = 0, k = page[leaf].ents[1].k DEF Within
  <2>5. hi[p] <= lo[leaf] \/ hi[leaf] <= lo[p]
    BY ONLY <1>5, <2>3, leaf \in R, lv[leaf] = 0 DEF Apart
  <2>6. x # k
    BY ONLY <2>2, <2>4, <2>5
  <2>7. QED
    BY ONLY <2>1, <2>2, <2>6
<1>6. ASSUME NEW p \in S, lv2[p] = 0, NEW i \in 1 .. Len(new[p].ents)
      PROVE  c2[new[p].ents[i].k] = new[p].ents[i].v
  <2>1. Len(new[p].ents) # 0
    <3>1. SUFFICES ASSUME Len(new[p].ents) = 0 PROVE FALSE
      OBVIOUS
    <3>2. i \in 1 .. 0
      BY ONLY <1>6, <3>1
    <3>3. QED
      BY ONLY <3>2
  <2>2. p \in R /\ p # leaf /\ lv[p] = 0 /\ new[p].ents = page[p].ents
    BY ONLY <1>6, <2>1, LeavesKept(page, R, lv, new, S, lv2, leaf) DEF LeavesKept
  <2>3. cont[page[p].ents[i].k] = page[p].ents[i].v
    BY ONLY <1>6, <2>2, Held(page, R, lv, cont) DEF Held
  <2>4. QED
    BY ONLY <1>4, <1>5, <1>6, <2>2, <2>3
<1>7. ASSUME NEW x \in Key, c2[x] # None
      PROVE  \E p \in S : lv2[p] = 0 /\ \E i \in 1 .. Len(new[p].ents) : new[p].ents[i].k = x
  <2>1. x # k /\ cont[x] # None
    BY ONLY <1>4, <1>7
  <2>2. PICK p \in R : lv[p] = 0 /\ \E i \in 1 .. Len(page[p].ents) : page[p].ents[i].k = x
    BY ONLY <1>7, <2>1, Held(page, R, lv, cont) DEF Held
  <2>3. PICK i \in 1 .. Len(page[p].ents) : page[p].ents[i].k = x
    BY ONLY <2>2
  <2>4. p # leaf
    <3>1. SUFFICES ASSUME p = leaf PROVE FALSE
      OBVIOUS
    <3>2. i = 1
      BY ONLY <2>3, <3>1, Len(page[leaf].ents) = 1
    <3>3. QED
      BY ONLY <2>1, <2>3, <3>1, <3>2, k = page[leaf].ents[1].k
  <2>5. p \in S /\ lv2[p] = 0 /\ new[p].ents = page[p].ents
    BY ONLY <2>2, <2>4, LeavesKept(page, R, lv, new, S, lv2, leaf) DEF LeavesKept
  <2>6. QED
    BY ONLY <2>3, <2>5
<1>8. Held(new, S, lv2, c2)
  BY ONLY <1>6, <1>7 DEF Held
<1>9. QED
  BY ONLY <1>1, <1>8

\* A cursor is not on the leaf that was freed.
LEMMA CursorErased ==
  ASSUME NEW c, NEW page, NEW R, NEW lv, NEW key, NEW V, CursorOK(c, V, R, lv, key), NEW leaf,
         Len(V[leaf].ents) = 0, \A p \in R : p # leaf => V[p].ents = page[p].ents,
         NEW new, NEW S, NEW lv2, LeavesKept(page, R, lv, new, S, lv2, leaf)
  PROVE  CursorOK(c, new, S, lv2, key)
<1>1. SUFFICES ASSUME c.init, ~c.acquire
               PROVE  /\ c.pgno \in S /\ lv2[c.pgno] = 0 /\ c.index \in 1 .. Len(new[c.pgno].ents)
                      /\ new[c.pgno].ents[c.index].k = key
  BY DEF CursorOK
<1>2. /\ c.pgno \in R /\ lv[c.pgno] = 0 /\ c.index \in 1 .. Len(V[c.pgno].ents) /\ V[c.pgno].ents[c.index].k = key
  BY <1>1 DEF CursorOK
<1>3. c.pgno # leaf
  <2>1. SUFFICES ASSUME c.pgno = leaf PROVE FALSE
    OBVIOUS
  <2>2. c.index \in 1 .. 0
    BY ONLY <1>2, <2>1, Len(V[leaf].ents) = 0
  <2>3. QED
    BY ONLY <2>2
<1>4. c.pgno \in S /\ lv2[c.pgno] = 0 /\ new[c.pgno].ents = V[c.pgno].ents
  BY ONLY <1>2, <1>3, \A p \in R : p # leaf => V[p].ents = page[p].ents, LeavesKept(page, R, lv, new, S, lv2, leaf) DEF LeavesKept
<1>5. QED
  BY ONLY <1>2, <1>4

\* The record of k on leaf p is changed to x, or is new, or gone.
Revised(page, R, lv, lo, hi, cont, p, k, x, ents) ==
  /\ TreeOK(page, R, lv, lo, hi, P_INVALID) /\ Held(page, R, lv, cont) /\ cont \in [Key -> Data \cup {None}]
  /\ p \in R /\ lv[p] = 0 /\ k \in Key /\ lo[p] <= k /\ k < hi[p]
  /\ \A j \in 1 .. Len(ents) :
       \/ ents[j].k = k /\ ents[j].v = x
       \/ ents[j].k # k /\ \E i \in 1 .. Len(page[p].ents) : ents[j] = page[p].ents[i]
  /\ \A i \in 1 .. Len(page[p].ents) :
       page[p].ents[i].k # k => \E j \in 1 .. Len(ents) : ents[j] = page[p].ents[i]
  /\ x = None \/ \E j \in 1 .. Len(ents) : ents[j].k = k

\* A leaf that changes for one key.
LEMMA HeldRevised ==
  ASSUME NEW page, NEW R, NEW lv, NEW lo, NEW hi, NEW cont, NEW p, NEW k, NEW x, NEW ents,
         Revised(page, R, lv, lo, hi, cont, p, k, x, ents)
  PROVE  Held(WithEnts(page, p, ents), R, lv, [cont EXCEPT ![k] = x])
<1>1. /\ TreeOK(page, R, lv, lo, hi, P_INVALID) /\ Held(page, R, lv, cont) /\ cont \in [Key -> Data \cup {None}]
      /\ p \in R /\ lv[p] = 0 /\ k \in Key /\ lo[p] <= k /\ k < hi[p]
      /\ x = None \/ \E j \in 1 .. Len(ents) : ents[j].k = k
  BY DEF Revised
<1>2. \A j \in 1 .. Len(ents) :
        \/ ents[j].k = k /\ ents[j].v = x
        \/ ents[j].k # k /\ \E i \in 1 .. Len(page[p].ents) : ents[j] = page[p].ents[i]
  BY DEF Revised
<1>3. \A i \in 1 .. Len(page[p].ents) :
        page[p].ents[i].k # k => \E j \in 1 .. Len(ents) : ents[j] = page[p].ents[i]
  BY DEF Revised
<1>4. QED
  BY ONLY <1>1, <1>2, <1>3, HeldChange

\* A tree that an operation leaves: the leaves hold cont, the cursor has key.
Fine(W, cont, key) ==
  \E R, lv, lo, hi : Mid(W, R, lv, key) /\ Sound(W, R, lv, lo, hi, cont)

\* What the next operation relies on besides.
Same(T, W) ==
  /\ W.npages = T.npages /\ W.memory = T.memory
  /\ HintOK(T.last, T.page) => HintOK(W.last, W.page)

EraseHere(T, R, lv, lo, hi, cont, key, k, path, p, i) ==
  /\ Mid(T, R, lv, key) /\ Sound(T, R, lv, lo, hi, cont) /\ cont \in [Key -> Data \cup {None}]
  /\ k \in Key /\ IsPath(T.page, R, lv, lo, hi, P_ROOT, k, path)
  /\ p = path[Len(path)].pgno /\ i \in 1 .. Len(T.page[p].ents) /\ T.page[p].ents[i].k = k

\* __bt_dleaf leaves a record on the page, or the page is the root.
LEMMA EraseStays ==
  ASSUME NEW T, NEW R, NEW lv, NEW lo, NEW hi, NEW cont, NEW key, NEW k, NEW path, NEW p, NEW i,
         EraseHere(T, R, lv, lo, hi, cont, key, k, path, p, i), Len(T.page[p].ents) # 1 \/ p = P_ROOT,
         NEW W, W = Dleaf(T, p, i)
  PROVE  Fine(W, [cont EXCEPT ![k] = None], key) /\ Same(T, W) /\ LostMark(T.cursor, W.cursor, p, i, k)
<1>0. /\ Mid(T, R, lv, key) /\ Sound(T, R, lv, lo, hi, cont) /\ cont \in [Key -> Data \cup {None}]
      /\ k \in Key /\ IsPath(T.page, R, lv, lo, hi, P_ROOT, k, path)
      /\ p = path[Len(path)].pgno /\ i \in 1 .. Len(T.page[p].ents) /\ T.page[p].ents[i].k = k
  BY DEF EraseHere
<1>1. /\ TreeOK(T.page, R, lv, lo, hi, P_INVALID) /\ Held(T.page, R, lv, cont)
  BY ONLY <1>0 DEF Sound
<1>2. /\ T \in TreeM /\ CursorOK(T.cursor, T.page, R, lv, key) /\ \E fl, n : FreeOK(T.page, T.free, T.npages, R, fl, n)
  BY ONLY <1>0 DEF Mid
<1>3. R \in SUBSET PageNo /\ P_ROOT \in R /\ lv[P_ROOT] \in Nat
  BY ONLY <1>1, RootAlone
<1>4. p \in R /\ lv[p] = 0 /\ lo[p] <= k /\ k < hi[p]
  <2>1. Len(path) = lv[P_ROOT] + 1
    BY ONLY <1>0 DEF IsPath
  <2>2. Len(path) \in 1 .. Len(path) /\ Len(path) - Len(path) = 0
    BY ONLY <1>3, <2>1
  <2>3. QED
    BY ONLY <1>0, <2>2 DEF IsPath
<1>5. /\ T.page[p].leaf /\ T.page[p].ents \in Seq(Ent) /\ Len(T.page[p].ents) \in Nat
      /\ \A j \in 1 .. Len(T.page[p].ents) : T.page[p].ents[j].k \in Nat
  BY ONLY <1>1, <1>4, InTree
<1>6. LeafHere(T, p, R, lv, key)
  BY ONLY <1>2, <1>3, <1>4, <1>5 DEF LeafHere
<1>7. PICK es : es = RemoveAt(T.page[p].ents, i)
  OBVIOUS
<1>8. /\ LeafChanged(T, p, es, R, lv, key, W) /\ IsRemoved(es, T.page[p].ents, i)
      /\ LostMark(T.cursor, W.cursor, p, i, T.page[p].ents[i].k)
  BY ONLY <1>0, <1>6, <1>7, W = Dleaf(T, p, i), DleafIs
<1>9. PICK V : V = WithEnts(T.page, p, es)
  OBVIOUS
<1>10. /\ W \in TreeM /\ W.page = V /\ W.npages = T.npages /\ W.free = T.free /\ W.memory = T.memory
       /\ CursorOK(W.cursor, V, R, lv, key) /\ (HintOK(T.last, T.page) => HintOK(W.last, W.page))
  BY ONLY <1>8, <1>9 DEF LeafChanged
<1>11. TreeOK(V, R, lv, lo, hi, P_INVALID)
  BY ONLY <1>0, <1>1, <1>4, <1>7, <1>9, Len(T.page[p].ents) # 1 \/ p = P_ROOT, LeafRemove
<1>12. \E fl, n : FreeOK(V, W.free, W.npages, R, fl, n)
  <2>1. PICK fl, n : FreeOK(T.page, T.free, T.npages, R, fl, n)
    BY ONLY <1>2
  <2>2. T.page \in [PageNo -> Page] /\ p \in PageNo
    BY ONLY <1>2, <1>3, <1>4, TreeRecord
  <2>3. \A y \in PageNo : V[y].next = T.page[y].next
    BY ONLY <1>9, <2>2, WithEntsIs
  <2>4. FreeOK(V, T.free, T.npages, R, fl, n)
    BY ONLY <2>1, <2>2, <2>3, FreeSame
  <2>5. QED
    BY ONLY <1>10, <2>4
<1>13. PICK old : old = T.page[p].ents
  OBVIOUS
<1>14. Len(es) = Len(old) - 1 /\ \A j \in 1 .. Len(old) - 1 : es[j] = IF j < i THEN old[j] ELSE old[j + 1]
  BY ONLY <1>8, <1>13 DEF IsRemoved
<1>15. Len(old) \in Nat /\ i \in 1 .. Len(old) /\ old[i].k = k
  BY ONLY <1>0, <1>5, <1>13
<1>16. \A a, b \in 1 .. Len(old) : a < b => old[a].k < old[b].k
  <2>1. Ordered(T.page, R, lv)
    BY ONLY <1>1 DEF TreeOK
  <2>2. QED
    BY ONLY <1>4, <1>13, <2>1 DEF Ordered
<1>17. \A a \in 1 .. Len(old) : a # i => old[a].k # k
  <2>1. SUFFICES ASSUME NEW a \in 1 .. Len(old), a # i PROVE old[a].k # k
    OBVIOUS
  <2>2. old[a].k \in Nat /\ old[i].k \in Nat
    BY ONLY <1>5, <1>13, <1>15, <2>1
  <2>3. a < i \/ i < a
    BY ONLY <1>15, <2>1
  <2>4. old[a].k < old[i].k \/ old[i].k < old[a].k
    BY ONLY <1>15, <1>16, <2>1, <2>3
  <2>5. QED
    BY ONLY <1>15, <2>2, <2>4
<1>18. ASSUME NEW j \in 1 .. Len(es) PROVE es[j].k # k /\ \E m \in 1 .. Len(old) : es[j] = old[m]
  <2>1. j \in 1 .. Len(old) - 1 /\ j \in 1 .. Len(old) /\ j + 1 \in 1 .. Len(old)
    BY ONLY <1>14, <1>15, <1>18
  <2>2. es[j] = IF j < i THEN old[j] ELSE old[j + 1]
    BY ONLY <1>14, <2>1
  <2>3. (j < i => j # i) /\ (~(j < i) => j + 1 # i)
    BY ONLY <1>15, <2>1
  <2>4. QED
    BY ONLY <1>17, <2>1, <2>2, <2>3
<1>19. ASSUME NEW m \in 1 .. Len(old), old[m].k # k PROVE \E j \in 1 .. Len(es) : es[j] = old[m]
  <2>1. m # i
    BY ONLY <1>15, <1>19
  <2>2. CASE m < i
    <3>1. m \in 1 .. Len(old) - 1
      BY ONLY <1>15, <1>19, <2>2
    <3>2. QED
      BY ONLY <1>14, <2>2, <3>1
  <2>3. CASE ~(m < i)
    <3>1. m - 1 \in 1 .. Len(old) - 1 /\ ~(m - 1 < i) /\ (m - 1) + 1 = m
      BY ONLY <1>15, <1>19, <2>1, <2>3
    <3>2. QED
      BY ONLY <1>14, <3>1
  <2>4. QED
    BY ONLY <2>2, <2>3
<1>20. Held(V, R, lv, [cont EXCEPT ![k] = None])
  <2>1. PICK x : x = None
    OBVIOUS
  <2>2. \A j \in 1 .. Len(es) :
          \/ es[j].k = k /\ es[j].v = x
          \/ es[j].k # k /\ \E m \in 1 .. Len(T.page[p].ents) : es[j] = T.page[p].ents[m]
    BY ONLY <1>13, <1>18
  <2>3. \A m \in 1 .. Len(T.page[p].ents) :
          T.page[p].ents[m].k # k => \E j \in 1 .. Len(es) : es[j] = T.page[p].ents[m]
    BY ONLY <1>13, <1>19
  <2>4. PICK page : page = T.page
    OBVIOUS
  <2>5. Revised(page, R, lv, lo, hi, cont, p, k, x, es)
    BY ONLY <1>0, <1>1, <1>4, <2>1, <2>2, <2>3, <2>4 DEF Revised
  <2>6. Held(WithEnts(page, p, es), R, lv, [cont EXCEPT ![k] = x])
    BY ONLY <2>5, HeldRevised
  <2>7. QED
    BY ONLY <1>9, <2>1, <2>4, <2>6
<1>21. Mid(W, R, lv, key)
  BY ONLY <1>10, <1>12 DEF Mid
<1>22. Sound(W, R, lv, lo, hi, [cont EXCEPT ![k] = None])
  BY ONLY <1>10, <1>11, <1>20 DEF Sound
<1>23. LostMark(T.cursor, W.cursor, p, i, k)
  BY ONLY <1>0, <1>8
<1>24. QED
  BY ONLY <1>10, <1>21, <1>22, <1>23 DEF Fine, Same

\* What EraseHere says of the leaf.
LEMMA HereIs ==
  ASSUME NEW T, NEW R, NEW lv, NEW lo, NEW hi, NEW cont, NEW key, NEW k, NEW path, NEW p, NEW i,
         EraseHere(T, R, lv, lo, hi, cont, key, k, path, p, i)
  PROVE  /\ TreeOK(T.page, R, lv, lo, hi, P_INVALID) /\ Held(T.page, R, lv, cont)
         /\ T \in TreeM /\ (\E fl, n : FreeOK(T.page, T.free, T.npages, R, fl, n))
         /\ R \in SUBSET PageNo /\ p \in R /\ lv[p] = 0 /\ Len(path) \in Nat /\ Len(path) = lv[P_ROOT] + 1
         /\ T.page[p].ents \in Seq(Ent) /\ Len(T.page[p].ents) \in Nat
         /\ LeafHere(T, p, R, lv, key)
<1>0. /\ Mid(T, R, lv, key) /\ Sound(T, R, lv, lo, hi, cont)
      /\ IsPath(T.page, R, lv, lo, hi, P_ROOT, k, path)
      /\ p = path[Len(path)].pgno
  BY DEF EraseHere
<1>1. /\ TreeOK(T.page, R, lv, lo, hi, P_INVALID) /\ Held(T.page, R, lv, cont)
  BY ONLY <1>0 DEF Sound
<1>2. /\ T \in TreeM /\ CursorOK(T.cursor, T.page, R, lv, key) /\ \E fl, n : FreeOK(T.page, T.free, T.npages, R, fl, n)
  BY ONLY <1>0 DEF Mid
<1>3. R \in SUBSET PageNo /\ P_ROOT \in R /\ lv[P_ROOT] \in Nat
  BY ONLY <1>1, RootAlone
<1>4. Len(path) = lv[P_ROOT] + 1
  BY ONLY <1>0 DEF IsPath
<1>5. Len(path) \in 1 .. Len(path) /\ Len(path) - Len(path) = 0
  BY ONLY <1>3, <1>4
<1>6. p \in R /\ lv[p] = 0
  BY ONLY <1>0, <1>5 DEF IsPath
<1>7. T.page[p].leaf /\ T.page[p].ents \in Seq(Ent) /\ Len(T.page[p].ents) \in Nat
  BY ONLY <1>1, <1>6, InTree
<1>8. LeafHere(T, p, R, lv, key)
  BY ONLY <1>2, <1>3, <1>6, <1>7 DEF LeafHere
<1>9. QED
  BY ONLY <1>1, <1>2, <1>3, <1>4, <1>6, <1>7, <1>8

\* __bt_dleaf takes the last record of a leaf, and __bt_pdelete the leaf.
LEMMA EraseGoes ==
  ASSUME NEW T, NEW R, NEW lv, NEW lo, NEW hi, NEW cont, NEW key, NEW k, NEW path, NEW p, NEW i,
         EraseHere(T, R, lv, lo, hi, cont, key, k, path, p, i), Len(T.page[p].ents) = 1, p # P_ROOT,
         NEW D0, D0 = Dleaf(T, p, i), NEW W, W = Pdelete(D0, path)
  PROVE  Fine(W, [cont EXCEPT ![k] = None], key) /\ Same(T, W) /\ LostMark(T.cursor, W.cursor, p, i, k)
<1>0. /\ cont \in [Key -> Data \cup {None}] /\ k \in Key /\ IsPath(T.page, R, lv, lo, hi, P_ROOT, k, path)
      /\ p = path[Len(path)].pgno /\ i \in 1 .. Len(T.page[p].ents) /\ T.page[p].ents[i].k = k
  BY DEF EraseHere
<1>1. /\ TreeOK(T.page, R, lv, lo, hi, P_INVALID) /\ Held(T.page, R, lv, cont)
      /\ T \in TreeM /\ (\E fl, n : FreeOK(T.page, T.free, T.npages, R, fl, n))
      /\ R \in SUBSET PageNo /\ p \in R /\ lv[p] = 0
      /\ T.page[p].ents \in Seq(Ent) /\ LeafHere(T, p, R, lv, key)
  BY HereIs
<1>2. PICK es : es = RemoveAt(T.page[p].ents, i)
  OBVIOUS
<1>3. /\ LeafChanged(T, p, es, R, lv, key, D0) /\ IsRemoved(es, T.page[p].ents, i)
      /\ LostMark(T.cursor, D0.cursor, p, i, T.page[p].ents[i].k)
  BY ONLY <1>0, <1>1, <1>2, D0 = Dleaf(T, p, i), DleafIs
<1>4. es = <<>> /\ i = 1
  <2>1. es \in Seq(Ent) /\ Len(es) = 0
    BY ONLY <1>3, Len(T.page[p].ents) = 1 DEF IsRemoved
  <2>2. QED
    BY ONLY <1>0, <2>1, Len(T.page[p].ents) = 1
<1>5. PICK page : page = T.page
  OBVIOUS
<1>6. /\ D0 \in TreeM /\ D0.page = WithEnts(page, p, <<>>) /\ D0.npages = T.npages /\ D0.free = T.free
      /\ D0.memory = T.memory /\ CursorOK(D0.cursor, D0.page, R, lv, key)
      /\ (HintOK(T.last, T.page) => HintOK(D0.last, D0.page))
  BY ONLY <1>3, <1>4, <1>5 DEF LeafChanged
<1>7. page \in [PageNo -> Page] /\ p \in PageNo
  BY ONLY <1>1, <1>5, TreeRecord
<1>8. /\ D0.page[p].ents = <<>>
      /\ \A y \in PageNo : /\ y # p => D0.page[y] = page[y]
                           /\ D0.page[y].leaf = page[y].leaf /\ D0.page[y].next = page[y].next
  BY ONLY <1>6, <1>7, WithEntsIs
<1>9. \E fl, n : FreeOK(D0.page, D0.free, D0.npages, R, fl, n)
  <2>1. PICK fl, n : FreeOK(T.page, T.free, T.npages, R, fl, n)
    BY ONLY <1>1
  <2>2. FreeOK(page, D0.free, D0.npages, R, fl, n)
    BY ONLY <1>5, <1>6, <2>1
  <2>3. PICK new : new = D0.page
    OBVIOUS
  <2>4. \A y \in PageNo : new[y].next = page[y].next
    BY ONLY <1>8, <2>3
  <2>5. FreeOK(new, D0.free, D0.npages, R, fl, n)
    BY ONLY <1>7, <2>2, <2>4, FreeSame
  <2>6. QED
    BY ONLY <2>3, <2>5
<1>10. EraseAt(D0, page, R, lv, lo, hi, k, path, p)
  BY ONLY <1>0, <1>1, <1>5, <1>6, <1>9, p # P_ROOT, Len(T.page[p].ents) = 1 DEF EraseAt
<1>11. Erased(D0, page, R, lv, p, W)
  BY ONLY <1>10, W = Pdelete(D0, path), PdeleteIs
<1>12. /\ W \in TreeM /\ W.cursor = D0.cursor /\ W.last = D0.last /\ W.memory = D0.memory /\ W.npages = D0.npages
       /\ \A y \in PageNo : page[y].leaf => W.page[y].leaf
  BY ONLY <1>11 DEF Erased
<1>13. PICK S, lv2, lo2, hi2 : /\ TreeOK(W.page, S, lv2, lo2, hi2, P_INVALID)
                               /\ \E f, m : FreeOK(W.page, W.free, W.npages, S, f, m)
                               /\ LeavesKept(page, R, lv, W.page, S, lv2, p)
  BY ONLY <1>11 DEF Erased
<1>14. Held(W.page, S, lv2, [cont EXCEPT ![k] = None])
  <2>1. PICK new : new = W.page
    OBVIOUS
  <2>2. LeavesKept(page, R, lv, new, S, lv2, p)
    BY ONLY <1>13, <2>1
  <2>3. k = page[p].ents[1].k /\ Len(page[p].ents) = 1 /\ TreeOK(page, R, lv, lo, hi, P_INVALID) /\ Held(page, R, lv, cont)
    BY ONLY <1>0, <1>1, <1>4, <1>5, Len(T.page[p].ents) = 1, SMTT(30)
  <2>4. Held(new, S, lv2, [cont EXCEPT ![k] = None])
    BY ONLY <1>0, <1>1, <2>2, <2>3, HeldErased
  <2>5. QED
    BY ONLY <2>1, <2>4
<1>15. CursorOK(W.cursor, W.page, S, lv2, key)
  <2>1. PICK new, V, c : new = W.page /\ V = D0.page /\ c = D0.cursor
    OBVIOUS
  <2>2. LeavesKept(page, R, lv, new, S, lv2, p) /\ CursorOK(c, V, R, lv, key)
    BY ONLY <1>6, <1>13, <2>1
  <2>3. Len(V[p].ents) = 0 /\ \A y \in R : y # p => V[y].ents = page[y].ents
    BY ONLY <1>1, <1>8, <2>1
  <2>4. CursorOK(c, new, S, lv2, key)
    BY ONLY <2>2, <2>3, CursorErased
  <2>5. QED
    BY ONLY <1>12, <2>1, <2>4
<1>16. Mid(W, S, lv2, key) /\ Sound(W, S, lv2, lo2, hi2, [cont EXCEPT ![k] = None])
  BY ONLY <1>12, <1>13, <1>14, <1>15 DEF Mid, Sound
<1>17. HintOK(T.last, T.page) => HintOK(W.last, W.page)
  <2>1. SUFFICES ASSUME HintOK(T.last, T.page) PROVE HintOK(W.last, W.page)
    OBVIOUS
  <2>2. HintOK(D0.last, D0.page)
    BY ONLY <1>6, <2>1
  <2>3. QED
    BY ONLY <1>8, <1>12, <2>2 DEF HintOK
<1>18. LostMark(T.cursor, W.cursor, p, i, k)
  BY ONLY <1>0, <1>3, <1>12
<1>19. QED
  BY ONLY <1>6, <1>12, <1>16, <1>17, <1>18 DEF Fine, Same

\* What __bt_delete makes of the tree.
ErasedTree(T, path, p, i) ==
  LET D0 == Dleaf(T, p, i) IN IF D0.page[p].ents = <<>> THEN Pdelete(D0, path) ELSE D0

\* A delete that finds its record, whether or not its leaf is then empty.
LEMMA EraseIs ==
  ASSUME NEW T, NEW R, NEW lv, NEW lo, NEW hi, NEW cont, NEW key, NEW k, NEW path, NEW p, NEW i,
         EraseHere(T, R, lv, lo, hi, cont, key, k, path, p, i), NEW W, W = ErasedTree(T, path, p, i)
  PROVE  Fine(W, [cont EXCEPT ![k] = None], key) /\ Same(T, W) /\ LostMark(T.cursor, W.cursor, p, i, k)
<1>0. p = path[Len(path)].pgno /\ i \in 1 .. Len(T.page[p].ents)
  BY DEF EraseHere
<1>1. /\ T \in TreeM /\ R \in SUBSET PageNo /\ p \in R /\ lv[p] = 0 /\ Len(path) = lv[P_ROOT] + 1
      /\ T.page[p].ents \in Seq(Ent) /\ Len(T.page[p].ents) \in Nat /\ LeafHere(T, p, R, lv, key)
  BY HereIs
<1>2. PICK D0 : D0 = Dleaf(T, p, i)
  OBVIOUS
<1>3. PICK es : es = RemoveAt(T.page[p].ents, i)
  OBVIOUS
<1>4. LeafChanged(T, p, es, R, lv, key, D0) /\ IsRemoved(es, T.page[p].ents, i)
  BY ONLY <1>0, <1>1, <1>2, <1>3, DleafIs
<1>5. D0.page[p].ents = es
  <2>1. T.page \in [PageNo -> Page] /\ p \in PageNo
    BY ONLY <1>1, TreeRecord
  <2>2. D0.page = WithEnts(T.page, p, es)
    BY ONLY <1>4 DEF LeafChanged
  <2>3. QED
    BY ONLY <2>1, <2>2, WithEntsIs
<1>6. es = <<>> <=> Len(T.page[p].ents) = 1
  <2>1. es \in Seq(Ent) /\ Len(es) = Len(T.page[p].ents) - 1
    BY ONLY <1>4 DEF IsRemoved
  <2>2. (es = <<>> => Len(es) = 0) /\ (Len(es) = 0 => es = <<>>)
    <3>1. ASSUME Len(es) = 0 PROVE es = <<>>
      <4>1. es \in Seq(Ent)
        BY ONLY <2>1
      <4>2. QED
        BY ONLY <3>1, <4>1
    <3>2. QED
      BY ONLY <3>1
  <2>3. QED
    BY ONLY <1>1, <2>1, <2>2
<1>7. W = IF D0.page[p].ents = <<>> THEN Pdelete(D0, path) ELSE D0
  BY ONLY <1>2, W = ErasedTree(T, path, p, i) DEF ErasedTree
<1>8. CASE Len(T.page[p].ents) = 1 /\ p # P_ROOT
  <2>1. W = Pdelete(D0, path)
    BY ONLY <1>5, <1>6, <1>7, <1>8
  <2>2. QED
    BY ONLY <1>2, <1>8, <2>1, EraseHere(T, R, lv, lo, hi, cont, key, k, path, p, i), EraseGoes
<1>9. CASE ~(Len(T.page[p].ents) = 1 /\ p # P_ROOT)
  <2>1. W = D0
    <3>1. CASE Len(T.page[p].ents) # 1
      BY ONLY <1>5, <1>6, <1>7, <3>1
    <3>2. CASE p = P_ROOT
      <4>1. Len(path) = 1
        BY ONLY <1>1, <3>2
      <4>2. Pdelete(D0, path) = D0
        BY ONLY <1>0, <3>2, <4>1, PdeleteRoot
      <4>3. QED
        BY ONLY <1>7, <4>2
    <3>3. QED
      BY ONLY <1>9, <3>1, <3>2
  <2>2. Len(T.page[p].ents) # 1 \/ p = P_ROOT
    BY ONLY <1>9
  <2>3. QED
    BY ONLY <1>2, <2>1, <2>2, EraseHere(T, R, lv, lo, hi, cont, key, k, path, p, i), EraseStays
<1>10. QED
  BY ONLY <1>8, <1>9

\* The cursor after an insertion of record i into page p.
CursorRight(c, p, i) == [c EXCEPT !.index = IF On(c, p) /\ c.index >= i THEN c.index + 1 ELSE c.index]

InsertsAt(page, R, lv, key, c, p, i, es, e) ==
  /\ page \in [PageNo -> Page] /\ R \in SUBSET PageNo /\ c \in Cursor /\ CursorOK(c, page, R, lv, key)
  /\ p \in R /\ lv[p] = 0 /\ page[p].leaf /\ i \in 1 .. Len(page[p].ents) + 1 /\ IsInserted(es, page[p].ents, i, e)

\* The cursor is on its record when one was put before it.
LEMMA InsertCursor ==
  ASSUME NEW page, NEW R, NEW lv, NEW key, NEW c, NEW p, NEW i, NEW es, NEW e, InsertsAt(page, R, lv, key, c, p, i, es, e),
         NEW new, new = WithEnts(page, p, es), NEW d, d = CursorRight(c, p, i)
  PROVE  d \in Cursor /\ CursorOK(d, new, R, lv, key)
<1>0. /\ page \in [PageNo -> Page] /\ R \in SUBSET PageNo /\ c \in Cursor /\ CursorOK(c, page, R, lv, key)
      /\ p \in R /\ lv[p] = 0 /\ page[p].leaf /\ i \in 1 .. Len(page[p].ents) + 1 /\ IsInserted(es, page[p].ents, i, e)
  BY DEF InsertsAt
<1>1. PICK x : x = IF On(c, p) /\ c.index >= i THEN c.index + 1 ELSE c.index
  OBVIOUS
<1>2. d = [c EXCEPT !.index = x]
  BY ONLY <1>1, d = CursorRight(c, p, i) DEF CursorRight
<1>3. c.index \in Nat /\ x \in Nat
  <2>1. c.index \in Nat
    BY ONLY <1>0 DEF Cursor
  <2>2. QED
    BY ONLY <1>1, <2>1
<1>4. d \in Cursor /\ d.init = c.init /\ d.acquire = c.acquire /\ d.key = c.key /\ d.pgno = c.pgno /\ d.index = x
  BY ONLY <1>0, <1>2, <1>3 DEF Cursor
<1>5. p \in PageNo
  BY ONLY <1>0
<1>6. new[p].ents = es /\ \A q \in PageNo : q # p => new[q] = page[q]
  BY ONLY <1>0, <1>5, new = WithEnts(page, p, es), WithEntsIs
<1>7. Len(page[p].ents) \in Nat
  BY ONLY <1>0, <1>5, PageParts
<1>8. /\ Len(es) = Len(page[p].ents) + 1
      /\ \A j \in 1 .. Len(page[p].ents) + 1 :
           es[j] = IF j < i THEN page[p].ents[j] ELSE IF j = i THEN e ELSE page[p].ents[j - 1]
  BY ONLY <1>0 DEF IsInserted
<1>9. ASSUME c.init, ~c.acquire
      PROVE  d.pgno \in R /\ lv[d.pgno] = 0 /\ d.index \in 1 .. Len(new[d.pgno].ents) /\ new[d.pgno].ents[d.index].k = key
  <2>1. c.pgno \in R /\ lv[c.pgno] = 0 /\ c.index \in 1 .. Len(page[c.pgno].ents) /\ page[c.pgno].ents[c.index].k = key
    BY ONLY <1>0, <1>9 DEF CursorOK
  <2>2. CASE c.pgno # p
    <3>1. ~On(c, p) /\ new[c.pgno] = page[c.pgno]
      BY ONLY <1>0, <1>6, <2>1, <2>2 DEF On
    <3>2. x = c.index
      BY ONLY <1>1, <3>1
    <3>3. QED
      BY ONLY <1>4, <2>1, <3>1, <3>2
  <2>3. CASE c.pgno = p
    <3>1. On(c, p)
      BY ONLY <1>9, <2>3 DEF On
    <3>2. c.index \in 1 .. Len(page[p].ents) /\ page[p].ents[c.index].k = key
      BY ONLY <2>1, <2>3
    <3>3. x \in 1 .. Len(page[p].ents) + 1
      BY ONLY <1>1, <1>7, <3>1, <3>2
    <3>4. (c.index >= i => ~(x < i) /\ x # i /\ x - 1 = c.index) /\ (~(c.index >= i) => x = c.index /\ x < i)
      BY ONLY <1>0, <1>1, <1>3, <1>7, <3>1
    <3>5. es[x] = page[p].ents[c.index]
      BY ONLY <1>8, <3>3, <3>4
    <3>6. QED
      BY ONLY <1>4, <1>6, <1>8, <2>1, <2>3, <3>2, <3>3, <3>5
  <2>4. QED
    BY ONLY <2>2, <2>3
<1>10. QED
  BY ONLY <1>0, <1>4, <1>9 DEF CursorOK

LEMMA MoreEnts ==
  ASSUME NEW page \in [PageNo -> Page], NEW p \in PageNo, page[p].leaf, NEW i \in 1 .. Len(page[p].ents) + 1,
         NEW k \in Key, NEW v \in Data, NEW e, e = [k |-> k, v |-> v], NEW es, es = InsertAt(page[p].ents, i, e)
  PROVE  e \in Ent /\ IsInserted(es, page[p].ents, i, e) /\ WithEnts(page, p, es) \in [PageNo -> Page]
<1>1. PICK old : old = page[p].ents
  OBVIOUS
<1>2. page[p] \in Page
  OBVIOUS
<1>3. /\ old \in Seq(Ent) /\ Len(old) \in Nat /\ page[p].prev \in 0 .. MaxPages - 1 /\ page[p].next \in 0 .. MaxPages - 1
      /\ \A j \in 1 .. Len(old) : old[j].k \in Key /\ old[j].v \in Data
  BY <1>1, <1>2, PageParts
<1>4. e \in Ent /\ e.k = k /\ e.v = v
  BY Numbers DEF Ent
<1>5. i \in 1 .. Len(old) + 1 /\ es = InsertAt(old, i, e)
  BY <1>1
<1>6. IsInserted(es, old, i, e)
  BY ONLY <1>3, <1>4, <1>5, EntInserted
<1>7. /\ es \in Seq(Ent) /\ Len(es) = Len(old) + 1
      /\ \A j \in 1 .. Len(old) + 1 : es[j] = IF j < i THEN old[j] ELSE IF j = i THEN e ELSE old[j - 1]
  BY ONLY <1>6 DEF IsInserted
<1>8. ASSUME NEW j \in 1 .. Len(es) PROVE es[j].k \in Key /\ es[j].v \in Data
  <2>1. j \in 1 .. Len(old) + 1
    BY ONLY <1>7, <1>8
  <2>2. es[j] = IF j < i THEN old[j] ELSE IF j = i THEN e ELSE old[j - 1]
    BY ONLY <1>7, <2>1
  <2>3. (j < i => j \in 1 .. Len(old)) /\ (~(j < i) /\ j # i => j - 1 \in 1 .. Len(old))
    BY ONLY <1>3, <1>5, <2>1
  <2>4. QED
    BY ONLY <1>3, <1>4, <2>2, <2>3, k \in Key, v \in Data
<1>9. PICK yes : yes = TRUE
  OBVIOUS
<1>10. Sibling(page[p], page[p].prev, page[p].next, es) \in Page
  <2>1. page[p].leaf \in BOOLEAN
    BY ONLY <1>2, PageParts
  <2>2. \A j \in 1 .. Len(es) : IF page[p].leaf THEN es[j].k \in Key /\ es[j].v \in Data ELSE es[j].v \in PageNo
    BY <1>8
  <2>3. PICK lf : lf = page[p].leaf
    OBVIOUS
  <2>4. PICK pv, nx : pv = page[p].prev /\ nx = page[p].next
    OBVIOUS
  <2>5. lf \in BOOLEAN /\ pv \in 0 .. MaxPages - 1 /\ nx \in 0 .. MaxPages - 1
    BY ONLY <1>3, <2>1, <2>3, <2>4
  <2>6. \A j \in 1 .. Len(es) : IF lf THEN es[j].k \in Key /\ es[j].v \in Data ELSE es[j].v \in PageNo
    BY ONLY <2>2, <2>3
  <2>7. es \in Seq(Ent)
    BY ONLY <1>7
  <2>8. [leaf |-> lf, prev |-> pv, next |-> nx, ents |-> es] \in Page
    BY ONLY <2>5, <2>6, <2>7, PageMade
  <2>9. QED
    BY ONLY <2>3, <2>4, <2>8 DEF Sibling
<1>11. WithEnts(page, p, es) \in [PageNo -> Page]
  BY ONLY <1>10, page \in [PageNo -> Page], p \in PageNo DEF WithEnts
<1>12. QED
  BY ONLY <1>1, <1>4, <1>6, <1>11

\* put leaves the hint alone, or makes one for the page it put the record
\* on.
LEMMA RememberIs ==
  ASSUME NEW S, NEW p, NEW i, NEW W, W = Remember(S, p, i)
  PROVE  \/ W = S
         \/ \E o \in {"forward", "back"} : W = [S EXCEPT !.last = [order |-> o, pgno |-> p, index |-> i, stale |-> 0]]
<1>1. PICK f : f = [S EXCEPT !.last = [order |-> "forward", pgno |-> p, index |-> i, stale |-> 0]]
  OBVIOUS
<1>2. PICK b : b = [S EXCEPT !.last = [order |-> "back", pgno |-> p, index |-> i, stale |-> 0]]
  OBVIOUS
<1>3. W = S \/ W = f \/ W = b
  BY <1>1, <1>2, Zenon DEF Remember
<1>4. QED
  BY ONLY <1>1, <1>2, <1>3

LEMMA InsertIs ==
  ASSUME NEW T, NEW R, NEW lv, NEW key, NEW p, LeafHere(T, p, R, lv, key), NEW i \in 1 .. Len(T.page[p].ents) + 1,
         NEW k \in Key, NEW v \in Data, NEW e, e = [k |-> k, v |-> v], NEW es,
         es = InsertAt(T.page[p].ents, i, e), NEW W, W = Insert(T, p, i, e)
  PROVE  LeafChanged(T, p, es, R, lv, key, W) /\ IsInserted(es, T.page[p].ents, i, e) /\ SameMark(T.cursor, W.cursor)
<1>1. /\ T \in TreeM /\ R \in SUBSET PageNo /\ p \in R /\ lv[p] = 0 /\ T.page[p].leaf
      /\ CursorOK(T.cursor, T.page, R, lv, key) /\ p \in PageNo
  BY DEF LeafHere
<1>2. /\ T = [page |-> T.page, npages |-> T.npages, free |-> T.free, memory |-> T.memory,
              cursor |-> T.cursor, last |-> T.last]
      /\ T.page \in [PageNo -> Page] /\ T.npages \in 2 .. MaxPages /\ T.free \in 0 .. MaxPages - 1
      /\ T.memory \in Nat /\ T.cursor \in Cursor /\ T.last \in Hint
  BY <1>1, TreeRecord
<1>3. PICK page : page = T.page
  OBVIOUS
<1>4. PICK V : V = WithEnts(page, p, es)
  OBVIOUS
<1>5. /\ page \in [PageNo -> Page] /\ page[p].leaf /\ i \in 1 .. Len(page[p].ents) + 1 /\ es = InsertAt(page[p].ents, i, e)
      /\ Len(page[p].ents) \in Nat
  <2>1. page \in [PageNo -> Page] /\ page[p].leaf /\ i \in 1 .. Len(page[p].ents) + 1 /\ es = InsertAt(page[p].ents, i, e)
    BY ONLY <1>1, <1>2, <1>3, i \in 1 .. Len(T.page[p].ents) + 1, es = InsertAt(T.page[p].ents, i, e)
  <2>2. QED
    BY ONLY <1>1, <2>1, PageParts
<1>6. e \in Ent /\ IsInserted(es, page[p].ents, i, e) /\ V \in [PageNo -> Page]
  BY ONLY <1>1, <1>4, <1>5, k \in Key, v \in Data, e = [k |-> k, v |-> v], MoreEnts
<1>7. PICK c : c = T.cursor
  OBVIOUS
<1>8. PICK d : d = CursorRight(c, p, i)
  OBVIOUS
<1>9. d \in Cursor /\ CursorOK(d, V, R, lv, key)
  <2>1. InsertsAt(page, R, lv, key, c, p, i, es, e)
    BY ONLY <1>1, <1>2, <1>3, <1>5, <1>6, <1>7 DEF InsertsAt
  <2>2. QED
    BY ONLY <1>4, <1>8, <2>1, InsertCursor
<1>10. PICK x : x = IF T.last.pgno = p THEN 0 ELSE T.last.stale
  OBVIOUS
<1>11. PICK h : h = [T.last EXCEPT !.stale = x]
  OBVIOUS
<1>12. h \in Hint /\ h.order = T.last.order /\ h.pgno = T.last.pgno
  <2>1. x \in 0 .. MaxKey
    BY <1>2, <1>10, Numbers DEF Hint
  <2>2. QED
    BY <1>2, <1>11, <2>1 DEF Hint
<1>13. PICK S : S = [T EXCEPT !.page[p].ents = InsertAt(@, i, e),
                     !.last.stale = IF T.last.pgno = p THEN 0 ELSE @,
                     !.cursor.index = IF On(T.cursor, p) /\ @ >= i THEN @ + 1 ELSE @]
  OBVIOUS
<1>14. S = [page |-> V, npages |-> T.npages, free |-> T.free, memory |-> T.memory, cursor |-> d, last |-> h]
  <2>1. V = [page EXCEPT ![p].ents = es]
    <3>1. p \in PageNo /\ T.page \in [PageNo -> Page]
      BY ONLY <1>1, <1>2
    <3>2. WithEnts(T.page, p, es) = [T.page EXCEPT ![p].ents = es]
      BY <3>1, WithEntsIs
    <3>3. QED
      BY ONLY <1>3, <1>4, <3>2
  <2>2. PICK y : y = IF On(c, p) /\ c.index >= i THEN c.index + 1 ELSE c.index
    OBVIOUS
  <2>3. d = [c EXCEPT !.index = y]
    BY ONLY <1>8, <2>2 DEF CursorRight
  <2>4. T.page[p].ents = page[p].ents
    BY ONLY <1>3
  <2>5. S = [T EXCEPT !.page[p].ents = es, !.last.stale = x, !.cursor.index = y]
    BY ONLY <1>1, <1>2, <1>5, <1>7, <1>10, <1>13, <2>2, <2>4 DEF Hint, Cursor
  <2>6. S = [T EXCEPT !.page = [page EXCEPT ![p].ents = es], !.last = [T.last EXCEPT !.stale = x],
                      !.cursor = [c EXCEPT !.index = y]]
    BY ONLY <1>1, <1>2, <1>3, <1>7, <2>5 DEF Hint, Cursor
  <2>7. S = [T EXCEPT !.page = V, !.last = h, !.cursor = d]
    BY ONLY <1>11, <2>1, <2>3, <2>6
  <2>8. QED
    BY ONLY <1>2, <2>7
<1>15. W = Remember(S, p, i)
  BY ONLY <1>13, W = Insert(T, p, i, e) DEF Insert
<1>16. \E g \in Hint : /\ W = [page |-> V, npages |-> T.npages, free |-> T.free, memory |-> T.memory, cursor |-> d, last |-> g]
                       /\ g = h \/ g.pgno = p
  <2>1. CASE W = S
    BY ONLY <1>12, <1>14, <2>1
  <2>2. ASSUME NEW o \in {"forward", "back"}, W = [S EXCEPT !.last = [order |-> o, pgno |-> p, index |-> i, stale |-> 0]]
        PROVE  \E g \in Hint : /\ W = [page |-> V, npages |-> T.npages, free |-> T.free, memory |-> T.memory,
                                       cursor |-> d, last |-> g]
                               /\ g = h \/ g.pgno = p
    <3>1. PICK g : g = [order |-> o, pgno |-> p, index |-> i, stale |-> 0]
      OBVIOUS
    <3>2. i \in Nat /\ p \in 0 .. MaxPages - 1 /\ 0 \in 0 .. MaxKey
      BY <1>1, <1>5, Numbers
    <3>3. g \in Hint /\ g.pgno = p
      BY ONLY <2>2, <3>1, <3>2 DEF Hint
    <3>4. W = [S EXCEPT !.last = g]
      BY ONLY <2>2, <3>1
    <3>5. W = [page |-> V, npages |-> T.npages, free |-> T.free, memory |-> T.memory, cursor |-> d, last |-> g]
      BY ONLY <1>14, <3>4
    <3>6. QED
      BY ONLY <3>3, <3>5
  <2>3. QED
    BY ONLY <1>15, <2>1, <2>2, RememberIs
<1>17. PICK g \in Hint : /\ W = [page |-> V, npages |-> T.npages, free |-> T.free, memory |-> T.memory, cursor |-> d, last |-> g]
                         /\ g = h \/ g.pgno = p
  BY ONLY <1>16
<1>18. W \in TreeM
  <2>1. [page |-> V, npages |-> T.npages, free |-> T.free, memory |-> T.memory, cursor |-> d, last |-> g] \in TreeM
    BY ONLY <1>2, <1>6, <1>9, <1>17 DEF TreeM
  <2>2. QED
    BY ONLY <1>17, <2>1
<1>19. /\ W.page = V /\ W.npages = T.npages /\ W.free = T.free /\ W.memory = T.memory /\ W.cursor = d /\ W.last = g
  BY ONLY <1>17
<1>20. HintOK(T.last, T.page) => HintOK(g, V)
  <2>1. \A y \in PageNo : V[y].leaf = page[y].leaf
    BY ONLY <1>1, <1>4, <1>5, WithEntsIs
  <2>2. CASE g = h
    BY ONLY <1>3, <1>12, <2>1, <2>2 DEF HintOK
  <2>3. CASE g.pgno = p
    BY ONLY <1>1, <1>5, <2>1, <2>3 DEF HintOK
  <2>4. QED
    BY ONLY <1>17, <2>2, <2>3
<1>21. SameMark(T.cursor, W.cursor)
  <2>1. c = [init |-> c.init, acquire |-> c.acquire, key |-> c.key, pgno |-> c.pgno, index |-> c.index]
    BY ONLY <1>2, <1>7 DEF Cursor
  <2>2. PICK y : y = IF On(c, p) /\ c.index >= i THEN c.index + 1 ELSE c.index
    OBVIOUS
  <2>3. d = [c EXCEPT !.index = y]
    BY ONLY <1>8, <2>2 DEF CursorRight
  <2>4. SameMark(c, d)
    BY ONLY <2>1, <2>3 DEF SameMark
  <2>5. QED
    BY ONLY <1>7, <1>19, <2>4
<1>22. QED
  BY ONLY <1>3, <1>4, <1>6, <1>9, <1>18, <1>19, <1>20, <1>21 DEF LeafChanged

\* Key k goes to leaf p, as record i.
Landing(T, R, lv, lo, hi, cont, key, k, p, i) ==
  /\ Mid(T, R, lv, key) /\ Sound(T, R, lv, lo, hi, cont) /\ cont \in [Key -> Data \cup {None}]
  /\ k \in Key /\ p \in R /\ lv[p] = 0 /\ lo[p] <= k /\ k < hi[p] /\ IsPlace(T.page[p].ents, k, i)

\* What is known of the leaf and the place a record goes to.
LEMMA LandingIs ==
  ASSUME NEW T, NEW R, NEW lv, NEW lo, NEW hi, NEW cont, NEW key, NEW k, NEW p, NEW i,
         Landing(T, R, lv, lo, hi, cont, key, k, p, i)
  PROVE  /\ TreeOK(T.page, R, lv, lo, hi, P_INVALID) /\ Held(T.page, R, lv, cont)
         /\ T \in TreeM /\ (\E fl, n : FreeOK(T.page, T.free, T.npages, R, fl, n))
         /\ T.page \in [PageNo -> Page] /\ p \in PageNo /\ R \in SUBSET PageNo /\ p \in R /\ lv[p] = 0
         /\ T.page[p].leaf /\ T.page[p].ents \in Seq(Ent) /\ Len(T.page[p].ents) \in Nat
         /\ DOMAIN T.page[p].ents = 1 .. Len(T.page[p].ents)
         /\ i \in 1 .. Len(T.page[p].ents) + 1 /\ LeafHere(T, p, R, lv, key)
<1>0. Mid(T, R, lv, key) /\ Sound(T, R, lv, lo, hi, cont) /\ p \in R /\ lv[p] = 0 /\ IsPlace(T.page[p].ents, k, i)
  BY DEF Landing
<1>1. /\ TreeOK(T.page, R, lv, lo, hi, P_INVALID) /\ Held(T.page, R, lv, cont)
  BY ONLY <1>0 DEF Sound
<1>2. /\ T \in TreeM /\ CursorOK(T.cursor, T.page, R, lv, key) /\ \E fl, n : FreeOK(T.page, T.free, T.npages, R, fl, n)
  BY ONLY <1>0 DEF Mid
<1>3. R \in SUBSET PageNo
  BY ONLY <1>1, RootAlone
<1>4. /\ T.page[p].leaf /\ T.page[p].ents \in Seq(Ent) /\ Len(T.page[p].ents) \in Nat
      /\ DOMAIN T.page[p].ents = 1 .. Len(T.page[p].ents)
  BY ONLY <1>0, <1>1, InTree
<1>5. T.page \in [PageNo -> Page]
  BY ONLY <1>2, TreeRecord
<1>6. LeafHere(T, p, R, lv, key)
  BY ONLY <1>0, <1>2, <1>3, <1>4 DEF LeafHere
<1>7. i \in 1 .. Len(T.page[p].ents) + 1
  BY ONLY <1>0 DEF IsPlace
<1>8. p \in PageNo
  BY ONLY <1>0, <1>3
<1>9. QED
  BY ONLY <1>0, <1>1, <1>2, <1>3, <1>4, <1>5, <1>6, <1>7, <1>8

\* When the leaf has the key, it is there.
LEMMA ExactIs ==
  ASSUME NEW T, NEW R, NEW lv, NEW lo, NEW hi, NEW cont, NEW key, NEW k, NEW p, NEW i,
         Landing(T, R, lv, lo, hi, cont, key, k, p, i)
  PROVE  /\ Exact(T.page[p], k) => i \in 1 .. Len(T.page[p].ents) /\ T.page[p].ents[i].k = k
         /\ ~Exact(T.page[p], k) => \A j \in 1 .. Len(T.page[p].ents) : T.page[p].ents[j].k # k
<1>0. k \in Key /\ IsPlace(T.page[p].ents, k, i)
  BY DEF Landing
<1>1. /\ TreeOK(T.page, R, lv, lo, hi, P_INVALID) /\ p \in R /\ lv[p] = 0 /\ Len(T.page[p].ents) \in Nat
      /\ DOMAIN T.page[p].ents = 1 .. Len(T.page[p].ents) /\ i \in 1 .. Len(T.page[p].ents) + 1
  BY LandingIs
<1>2. PICK es : es = T.page[p].ents
  OBVIOUS
<1>3. Exact(T.page[p], k) <=> \E j \in 1 .. Len(es) : es[j].k = k
  BY ONLY <1>1, <1>2 DEF Exact
<1>4. \A a, b \in 1 .. Len(es) : a < b => es[a].k < es[b].k
  <2>1. Ordered(T.page, R, lv)
    BY ONLY <1>1 DEF TreeOK
  <2>2. QED
    BY ONLY <1>1, <1>2, <2>1 DEF Ordered
<1>5. \A j \in 1 .. Len(es) : es[j].k \in Nat
  BY ONLY <1>1, <1>2, InTree
<1>6. ASSUME NEW j \in 1 .. Len(es), es[j].k = k PROVE i \in 1 .. Len(es) /\ es[i].k = k
  <2>1. k \in Nat
    BY ONLY <1>5, <1>6
  <2>2. /\ (j < i => es[j].k < k) /\ \A m \in 1 .. Len(es) : m >= i => k <= es[m].k
    BY ONLY <1>0, <1>2, <1>6 DEF IsPlace
  <2>3. ~(j < i)
    BY ONLY <1>6, <2>1, <2>2
  <2>4. i \in 1 .. Len(es) /\ i >= i /\ (i = j \/ i < j)
    BY ONLY <1>1, <1>2, <1>6, <2>3
  <2>5. k <= es[i].k /\ (i < j => es[i].k < es[j].k) /\ es[i].k \in Nat
    BY ONLY <1>4, <1>5, <1>6, <2>2, <2>4
  <2>6. QED
    BY ONLY <1>6, <2>1, <2>4, <2>5
<1>7. QED
  BY ONLY <1>2, <1>3, <1>6

\* The leaf with a record more.
LEMMA LandingHeld ==
  ASSUME NEW T, NEW R, NEW lv, NEW lo, NEW hi, NEW cont, NEW key, NEW k, NEW p, NEW i,
         Landing(T, R, lv, lo, hi, cont, key, k, p, i), ~Exact(T.page[p], k),
         NEW d \in Data, NEW e, e = [k |-> k, v |-> d], NEW es, es = InsertAt(T.page[p].ents, i, e),
         NEW V, V = WithEnts(T.page, p, es)
  PROVE  TreeOK(V, R, lv, lo, hi, p) /\ Held(V, R, lv, [cont EXCEPT ![k] = d])
<1>0. /\ cont \in [Key -> Data \cup {None}] /\ k \in Key /\ lo[p] <= k /\ k < hi[p] /\ IsPlace(T.page[p].ents, k, i)
  BY DEF Landing
<1>1. /\ TreeOK(T.page, R, lv, lo, hi, P_INVALID) /\ Held(T.page, R, lv, cont)
      /\ T.page \in [PageNo -> Page] /\ p \in PageNo /\ R \in SUBSET PageNo /\ p \in R /\ lv[p] = 0
      /\ T.page[p].leaf /\ Len(T.page[p].ents) \in Nat
      /\ i \in 1 .. Len(T.page[p].ents) + 1
  BY LandingIs
<1>2. \A j \in 1 .. Len(T.page[p].ents) : T.page[p].ents[j].k # k
  BY ExactIs
<1>3. e = [k |-> k, v |-> d]
  OBVIOUS
<1>4. es = InsertAt(T.page[p].ents, i, e)
  OBVIOUS
<1>6. PICK page : page = T.page
  OBVIOUS
<1>7. V = WithEnts(page, p, es)
  BY <1>6
<1>8. TreeOK(V, R, lv, lo, hi, p)
  <2>1. /\ TreeOK(page, R, lv, lo, hi, P_INVALID) /\ IsPlace(page[p].ents, k, i)
        /\ \A j \in 1 .. Len(page[p].ents) : page[p].ents[j].k # k
    BY ONLY <1>0, <1>1, <1>2, <1>6
  <2>2. TreeOK(WithEnts(page, p, InsertAt(page[p].ents, i, [k |-> k, v |-> d])), R, lv, lo, hi, p)
    BY ONLY <1>0, <1>1, <2>1, d \in Data, LeafInsert
  <2>3. QED
    BY ONLY <1>3, <1>4, <1>6, <1>7, <2>2
<1>5. IsInserted(es, page[p].ents, i, e)
  <2>1. page \in [PageNo -> Page] /\ page[p].leaf /\ i \in 1 .. Len(page[p].ents) + 1 /\ es = InsertAt(page[p].ents, i, e)
    BY ONLY <1>1, <1>4, <1>6
  <2>2. QED
    BY ONLY <1>0, <1>1, <1>3, <2>1, d \in Data, MoreEnts
<1>9. /\ Len(es) = Len(page[p].ents) + 1
      /\ \A j \in 1 .. Len(page[p].ents) + 1 :
           es[j] = IF j < i THEN page[p].ents[j] ELSE IF j = i THEN e ELSE page[p].ents[j - 1]
  BY ONLY <1>5 DEF IsInserted
<1>12. Held(V, R, lv, [cont EXCEPT ![k] = d])
  <2>1. e.k = k /\ e.v = d
    BY ONLY <1>3
  <2>2. PICK old : old = page[p].ents
    OBVIOUS
  <2>3. /\ Len(old) \in Nat /\ i \in 1 .. Len(old) + 1 /\ Len(es) = Len(old) + 1
        /\ \A j \in 1 .. Len(old) + 1 : es[j] = IF j < i THEN old[j] ELSE IF j = i THEN e ELSE old[j - 1]
        /\ \A j \in 1 .. Len(old) : old[j].k # k
    BY ONLY <1>1, <1>2, <1>6, <1>9, <2>2
  <2>4. ASSUME NEW j \in 1 .. Len(es)
        PROVE  \/ es[j].k = k /\ es[j].v = d
               \/ es[j].k # k /\ \E m \in 1 .. Len(old) : es[j] = old[m]
    <3>1. j \in 1 .. Len(old) + 1
      BY ONLY <2>3, <2>4
    <3>2. es[j] = IF j < i THEN old[j] ELSE IF j = i THEN e ELSE old[j - 1]
      BY ONLY <2>3, <3>1
    <3>3. (j < i => j \in 1 .. Len(old)) /\ (~(j < i) /\ j # i => j - 1 \in 1 .. Len(old))
      BY ONLY <2>3, <3>1
    <3>4. QED
      BY ONLY <2>1, <2>3, <3>2, <3>3
  <2>5. ASSUME NEW m \in 1 .. Len(old) PROVE \E j \in 1 .. Len(es) : es[j] = old[m]
    <3>1. CASE m < i
      <4>1. m \in 1 .. Len(old) + 1 /\ m \in 1 .. Len(es)
        BY ONLY <2>3, <2>5
      <4>2. es[m] = old[m]
        BY ONLY <2>3, <3>1, <4>1
      <4>3. QED
        BY ONLY <4>1, <4>2
    <3>2. CASE ~(m < i)
      <4>1. m + 1 \in 1 .. Len(old) + 1 /\ m + 1 \in 1 .. Len(es) /\ ~(m + 1 < i) /\ m + 1 # i /\ (m + 1) - 1 = m
        BY ONLY <2>3, <2>5, <3>2
      <4>2. es[m + 1] = old[m]
        BY ONLY <2>3, <4>1
      <4>3. QED
        BY ONLY <4>1, <4>2
    <3>3. QED
      BY ONLY <3>1, <3>2
  <2>6. \E j \in 1 .. Len(es) : es[j].k = k
    <3>1. i \in 1 .. Len(es) /\ i \in 1 .. Len(old) + 1 /\ ~(i < i)
      BY ONLY <2>3
    <3>2. es[i] = e
      BY ONLY <2>3, <3>1
    <3>3. QED
      BY ONLY <2>1, <3>1, <3>2
  <2>7. Revised(page, R, lv, lo, hi, cont, p, k, d, es)
    <3>1. TreeOK(page, R, lv, lo, hi, P_INVALID) /\ Held(page, R, lv, cont)
      BY ONLY <1>1, <1>6
    <3>2. \A j \in 1 .. Len(es) :
            \/ es[j].k = k /\ es[j].v = d
            \/ es[j].k # k /\ \E m \in 1 .. Len(page[p].ents) : es[j] = page[p].ents[m]
      BY ONLY <2>2, <2>4
    <3>3. \A m \in 1 .. Len(page[p].ents) :
            page[p].ents[m].k # k => \E j \in 1 .. Len(es) : es[j] = page[p].ents[m]
      BY ONLY <2>2, <2>5
    <3>4. p \in R /\ lv[p] = 0
      BY ONLY <1>1
    <3>5. QED
      BY ONLY <1>0, <2>6, <3>1, <3>2, <3>3, <3>4 DEF Revised
  <2>8. QED
    BY ONLY <1>7, <2>7, HeldRevised
<1>13. QED
  BY ONLY <1>8, <1>12

\* A record more on a leaf that has room for it.
LEMMA StoreRoom ==
  ASSUME NEW T, NEW R, NEW lv, NEW lo, NEW hi, NEW cont, NEW key, NEW k, NEW p, NEW i,
         Landing(T, R, lv, lo, hi, cont, key, k, p, i), ~Exact(T.page[p], k), HasRoom(T.page[p]),
         NEW d \in Data, NEW W, W = Insert(T, p, i, [k |-> k, v |-> d])
  PROVE  Fine(W, [cont EXCEPT ![k] = d], key) /\ Same(T, W) /\ SameMark(T.cursor, W.cursor)
<1>0. /\ cont \in [Key -> Data \cup {None}] /\ k \in Key /\ lo[p] <= k /\ k < hi[p] /\ IsPlace(T.page[p].ents, k, i)
  BY DEF Landing
<1>1. /\ TreeOK(T.page, R, lv, lo, hi, P_INVALID) /\ Held(T.page, R, lv, cont)
      /\ (\E fl, n : FreeOK(T.page, T.free, T.npages, R, fl, n))
      /\ T.page \in [PageNo -> Page] /\ p \in PageNo /\ R \in SUBSET PageNo /\ p \in R /\ lv[p] = 0
      /\ T.page[p].leaf /\ Len(T.page[p].ents) \in Nat
      /\ i \in 1 .. Len(T.page[p].ents) + 1 /\ LeafHere(T, p, R, lv, key)
  BY LandingIs
<1>2. \A j \in 1 .. Len(T.page[p].ents) : T.page[p].ents[j].k # k
  BY ExactIs
<1>3. PICK e : e = [k |-> k, v |-> d]
  OBVIOUS
<1>4. PICK es : es = InsertAt(T.page[p].ents, i, e)
  OBVIOUS
<1>5. LeafChanged(T, p, es, R, lv, key, W) /\ IsInserted(es, T.page[p].ents, i, e) /\ SameMark(T.cursor, W.cursor)
  <2>1. W = Insert(T, p, i, e)
    BY ONLY <1>3, W = Insert(T, p, i, [k |-> k, v |-> d])
  <2>2. QED
    BY ONLY <1>0, <1>1, <1>3, <1>4, <2>1, d \in Data, InsertIs
<1>6. PICK page : page = T.page
  OBVIOUS
<1>7. PICK V : V = WithEnts(page, p, es)
  OBVIOUS
<1>8. TreeOK(V, R, lv, lo, hi, p) /\ Held(V, R, lv, [cont EXCEPT ![k] = d])
  <2>1. V = WithEnts(T.page, p, es)
    BY ONLY <1>6, <1>7
  <2>2. QED
    BY ONLY <1>3, <1>4, <2>1, d \in Data, ~Exact(T.page[p], k), Landing(T, R, lv, lo, hi, cont, key, k, p, i), LandingHeld
<1>9. /\ Len(es) = Len(page[p].ents) + 1
      /\ \A j \in 1 .. Len(page[p].ents) + 1 :
           es[j] = IF j < i THEN page[p].ents[j] ELSE IF j = i THEN e ELSE page[p].ents[j - 1]
  BY ONLY <1>5, <1>6 DEF IsInserted
<1>10. V[p].ents = es /\ (\A y \in PageNo : V[y].next = page[y].next /\ V[y].leaf = page[y].leaf)
  BY ONLY <1>1, <1>6, <1>7, WithEntsIs
<1>11. TreeOK(V, R, lv, lo, hi, P_INVALID)
  <2>1. Fits(Sizes(page[p].leaf, Len(page[p].ents) + 1))
    BY ONLY <1>6, HasRoom(T.page[p]) DEF HasRoom
  <2>2. Fits(Sizes(V[p].leaf, Len(V[p].ents)))
    BY ONLY <1>1, <1>9, <1>10, <2>1
  <2>3. QED
    BY ONLY <1>8, <2>2, AllFit
<1>13. /\ W \in TreeM /\ W.page = V /\ W.npages = T.npages /\ W.free = T.free /\ W.memory = T.memory
       /\ CursorOK(W.cursor, V, R, lv, key) /\ (HintOK(T.last, T.page) => HintOK(W.last, W.page))
  BY ONLY <1>5, <1>6, <1>7 DEF LeafChanged
<1>14. \E fl, n : FreeOK(V, W.free, W.npages, R, fl, n)
  <2>1. PICK fl, n : FreeOK(page, W.free, W.npages, R, fl, n)
    BY ONLY <1>1, <1>6, <1>13
  <2>2. page \in [PageNo -> Page]
    BY ONLY <1>1, <1>6
  <2>3. FreeOK(V, W.free, W.npages, R, fl, n)
    BY ONLY <1>10, <2>1, <2>2, FreeSame
  <2>4. QED
    BY ONLY <2>3
<1>15. Mid(W, R, lv, key)
  BY ONLY <1>13, <1>14 DEF Mid
<1>16. Sound(W, R, lv, lo, hi, [cont EXCEPT ![k] = d])
  BY ONLY <1>8, <1>11, <1>13 DEF Sound
<1>17. QED
  BY ONLY <1>5, <1>13, <1>15, <1>16 DEF Fine, Same

\* Record i is replaced: __bt_dleaf and the insertion at the same place.
LEMMA StoreReplace ==
  ASSUME NEW T, NEW R, NEW lv, NEW lo, NEW hi, NEW cont, NEW key, NEW k, NEW p, NEW i,
         Mid(T, R, lv, key), Sound(T, R, lv, lo, hi, cont), cont \in [Key -> Data \cup {None}],
         p \in R, lv[p] = 0, i \in 1 .. Len(T.page[p].ents), T.page[p].ents[i].k = k,
         NEW d \in Data, NEW D0, D0 = Dleaf(T, p, i), NEW W, W = Insert(D0, p, i, [k |-> k, v |-> d])
  PROVE  /\ HasRoom(D0.page[p]) /\ Fine(W, [cont EXCEPT ![k] = d], key) /\ Same(T, W)
         /\ LostMark(T.cursor, W.cursor, p, i, k)
<1>1. /\ TreeOK(T.page, R, lv, lo, hi, P_INVALID) /\ Held(T.page, R, lv, cont)
  BY DEF Sound
<1>2. /\ T \in TreeM /\ CursorOK(T.cursor, T.page, R, lv, key) /\ \E fl, n : FreeOK(T.page, T.free, T.npages, R, fl, n)
  BY DEF Mid
<1>3. R \in SUBSET PageNo /\ p \in PageNo
  <2>1. R \in SUBSET PageNo
    BY ONLY <1>1, RootAlone
  <2>2. QED
    BY <2>1
<1>4. PICK page : page = T.page
  OBVIOUS
<1>5. PICK old : old = page[p].ents
  OBVIOUS
<1>6. /\ TreeOK(page, R, lv, lo, hi, P_INVALID) /\ Held(page, R, lv, cont)
      /\ i \in 1 .. Len(old) /\ old[i].k = k
  BY <1>1, <1>4, <1>5
<1>7. /\ page[p].leaf /\ page[p].leaf \in BOOLEAN /\ old \in Seq(Ent) /\ Len(old) \in Nat /\ k \in Key
      /\ \A j \in 1 .. Len(old) : old[j].k \in Nat
  BY ONLY <1>5, <1>6, p \in R, lv[p] = 0, InTree
<1>8. page \in [PageNo -> Page]
  BY ONLY <1>2, <1>4, TreeRecord
<1>9. LeafHere(T, p, R, lv, key)
  BY ONLY <1>2, <1>3, <1>4, <1>7, p \in R, lv[p] = 0 DEF LeafHere
<1>10. PICK es : es = RemoveAt(old, i)
  OBVIOUS
<1>11. LeafChanged(T, p, es, R, lv, key, D0) /\ IsRemoved(es, old, i) /\ LostMark(T.cursor, D0.cursor, p, i, old[i].k)
  <2>1. es = RemoveAt(T.page[p].ents, i) /\ i \in 1 .. Len(T.page[p].ents)
    BY ONLY <1>4, <1>5, <1>6, <1>10
  <2>2. /\ LeafChanged(T, p, es, R, lv, key, D0) /\ IsRemoved(es, T.page[p].ents, i)
        /\ LostMark(T.cursor, D0.cursor, p, i, T.page[p].ents[i].k)
    BY ONLY <1>9, <2>1, D0 = Dleaf(T, p, i), DleafIs
  <2>3. QED
    BY ONLY <1>4, <1>5, <2>2
<1>12. /\ D0 \in TreeM /\ D0.page = WithEnts(page, p, es)
       /\ D0.npages = T.npages /\ D0.free = T.free /\ D0.memory = T.memory
       /\ CursorOK(D0.cursor, D0.page, R, lv, key)
       /\ HintOK(T.last, T.page) => HintOK(D0.last, D0.page)
  BY ONLY <1>4, <1>11 DEF LeafChanged
<1>13. es \in Seq(Ent) /\ Len(es) = Len(old) - 1
  BY ONLY <1>11 DEF IsRemoved
<1>14. D0.page[p].ents = es /\ D0.page[p].leaf = page[p].leaf
  BY ONLY <1>3, <1>8, <1>12, WithEntsIs
<1>15. LeafHere(D0, p, R, lv, key)
  BY ONLY <1>3, <1>7, <1>12, <1>14, p \in R, lv[p] = 0 DEF LeafHere
<1>16. HasRoom(D0.page[p])
  <2>1. Fits(Sizes(page[p].leaf, Len(old)))
    <3>1. Fitting(page, R, P_INVALID)
      BY ONLY <1>6 DEF TreeOK
    <3>2. p # P_INVALID
      BY ONLY <1>6, p \in R, InTree
    <3>3. QED
      BY ONLY <1>5, <3>1, <3>2, p \in R DEF Fitting
  <2>2. (Len(old) - 1) + 1 = Len(old)
    BY ONLY <1>7
  <2>3. QED
    BY ONLY <1>13, <1>14, <2>1, <2>2 DEF HasRoom
<1>17. PICK e : e = [k |-> k, v |-> d]
  OBVIOUS
<1>18. PICK new : new = InsertAt(es, i, e)
  OBVIOUS
<1>19. LeafChanged(D0, p, new, R, lv, key, W) /\ SameMark(D0.cursor, W.cursor)
  <2>1. new = InsertAt(D0.page[p].ents, i, e)
    BY ONLY <1>14, <1>18
  <2>2. i \in 1 .. Len(es) + 1
    BY ONLY <1>6, <1>7, <1>13
  <2>3. i \in 1 .. Len(D0.page[p].ents) + 1
    BY ONLY <1>14, <2>2
  <2>4. W = Insert(D0, p, i, e)
    BY ONLY <1>17, W = Insert(D0, p, i, [k |-> k, v |-> d])
  <2>5. QED
    BY ONLY <1>7, <1>15, <1>17, <2>1, <2>3, <2>4, d \in Data, InsertIs
<1>20. PICK V : V = WithEnts(page, p, new)
  OBVIOUS
<1>21. W.page = V
  <2>1. W.page = WithEnts(D0.page, p, new)
    BY ONLY <1>19 DEF LeafChanged
  <2>2. D0.page = [page EXCEPT ![p] = Sibling(page[p], page[p].prev, page[p].next, es)]
    BY ONLY <1>12 DEF WithEnts
  <2>3. /\ D0.page[p].prev = page[p].prev /\ D0.page[p].next = page[p].next
    BY ONLY <1>3, <1>8, <1>12, WithEntsIs
  <2>4. Sibling(D0.page[p], D0.page[p].prev, D0.page[p].next, new) = Sibling(page[p], page[p].prev, page[p].next, new)
    BY ONLY <1>14, <2>3 DEF Sibling
  <2>5. PICK a, b : a = Sibling(page[p], page[p].prev, page[p].next, es) /\ b = Sibling(page[p], page[p].prev, page[p].next, new)
    OBVIOUS
  <2>6. WithEnts(D0.page, p, new) = [[page EXCEPT ![p] = a] EXCEPT ![p] = b]
    BY ONLY <2>2, <2>4, <2>5 DEF WithEnts
  <2>7. V = [page EXCEPT ![p] = b]
    BY ONLY <1>20, <2>5 DEF WithEnts
  <2>8. QED
    BY ONLY <1>3, <1>8, <2>1, <2>6, <2>7
<1>22. TreeOK(V, R, lv, lo, hi, P_INVALID)
  <2>1. e = [k |-> page[p].ents[i].k, v |-> d] /\ i \in 1 .. Len(page[p].ents)
    BY ONLY <1>5, <1>6, <1>17
  <2>2. TreeOK(WithEnts(page, p, InsertAt(RemoveAt(page[p].ents, i), i, e)), R, lv, lo, hi, P_INVALID)
    BY ONLY <1>6, <2>1, p \in R, lv[p] = 0, d \in Data, LeafReplace
  <2>3. QED
    BY ONLY <1>5, <1>10, <1>18, <1>20, <2>2
<1>23. Len(new) = Len(old) /\ \A j \in 1 .. Len(old) : new[j] = IF j = i THEN e ELSE old[j]
  <2>1. e \in Ent
    BY <1>7, <1>17, Numbers DEF Ent
  <2>2. /\ Len(InsertAt(RemoveAt(old, i), i, e)) = Len(old)
        /\ \A j \in 1 .. Len(old) : InsertAt(RemoveAt(old, i), i, e)[j] = IF j = i THEN e ELSE old[j]
    <3>1. old \in Seq(Ent) /\ i \in 1 .. Len(old)
      BY ONLY <1>6, <1>7
    <3>2. QED
      BY ONLY <2>1, <3>1, Replaced
  <2>3. QED
    BY ONLY <1>10, <1>18, <2>2
<1>24. \A a, b \in 1 .. Len(old) : a < b => old[a].k < old[b].k
  <2>1. Ordered(page, R, lv)
    BY ONLY <1>6 DEF TreeOK
  <2>2. QED
    BY ONLY <1>5, <2>1, p \in R, lv[p] = 0 DEF Ordered
<1>25. ASSUME NEW a \in 1 .. Len(old), a # i PROVE old[a].k # k
  <2>1. old[a].k \in Nat /\ old[i].k \in Nat
    BY ONLY <1>6, <1>7, <1>25
  <2>2. a < i \/ i < a
    BY ONLY <1>6, <1>25
  <2>3. old[a].k < old[i].k \/ old[i].k < old[a].k
    BY ONLY <1>6, <1>24, <1>25, <2>2
  <2>4. QED
    BY ONLY <1>6, <2>1, <2>3
<1>26. Held(V, R, lv, [cont EXCEPT ![k] = d])
  <2>1. e.k = k /\ e.v = d
    BY ONLY <1>17
  <2>2. \A j \in 1 .. Len(new) :
            \/ new[j].k = k /\ new[j].v = d
            \/ new[j].k # k /\ \E m \in 1 .. Len(page[p].ents) : new[j] = page[p].ents[m]
    BY ONLY <1>5, <1>23, <1>25, <2>1
  <2>3. \A m \in 1 .. Len(page[p].ents) :
            page[p].ents[m].k # k => \E j \in 1 .. Len(new) : new[j] = page[p].ents[m]
    BY ONLY <1>5, <1>6, <1>23
  <2>4. \E j \in 1 .. Len(new) : new[j].k = k
    BY ONLY <1>6, <1>23, <2>1
  <2>5. lo[p] <= k /\ k < hi[p]
    <3>1. Within(page, R, lv, lo, hi)
      BY ONLY <1>6 DEF TreeOK
    <3>2. QED
      BY ONLY <1>5, <1>6, <3>1, p \in R, lv[p] = 0 DEF Within
  <2>6. Revised(page, R, lv, lo, hi, cont, p, k, d, new)
    BY ONLY <1>6, <1>7, <2>2, <2>3, <2>4, <2>5, p \in R, lv[p] = 0, cont \in [Key -> Data \cup {None}] DEF Revised
  <2>7. QED
    BY ONLY <1>20, <2>6, HeldRevised
<1>27. /\ W \in TreeM /\ W.npages = D0.npages /\ W.free = D0.free /\ W.memory = D0.memory
       /\ CursorOK(W.cursor, W.page, R, lv, key)
       /\ HintOK(D0.last, D0.page) => HintOK(W.last, W.page)
  BY ONLY <1>19 DEF LeafChanged
<1>28. \E fl, n : FreeOK(V, W.free, W.npages, R, fl, n)
  <2>1. PICK fl, n : FreeOK(page, W.free, W.npages, R, fl, n)
    BY ONLY <1>2, <1>4, <1>12, <1>27
  <2>2. \A y \in PageNo : V[y].next = page[y].next
    BY ONLY <1>3, <1>8, <1>20, WithEntsIs
  <2>3. FreeOK(V, W.free, W.npages, R, fl, n)
    BY ONLY <1>8, <2>1, <2>2, FreeSame
  <2>4. QED
    BY ONLY <2>3
<1>29. Mid(W, R, lv, key)
  BY ONLY <1>21, <1>27, <1>28 DEF Mid
<1>30. Sound(W, R, lv, lo, hi, [cont EXCEPT ![k] = d])
  BY ONLY <1>21, <1>22, <1>26 DEF Sound
<1>31. LostMark(T.cursor, W.cursor, p, i, k)
  <2>1. LostMark(T.cursor, D0.cursor, p, i, k)
    BY ONLY <1>6, <1>11
  <2>2. QED
    BY ONLY <1>19, <2>1 DEF LostMark, SameMark
<1>32. QED
  BY ONLY <1>12, <1>16, <1>27, <1>29, <1>30, <1>31 DEF Fine, Same

\* How many pages the pool has memory for concerns nobody else.
LEMMA MemorySet ==
  ASSUME NEW T, NEW R, NEW lv, NEW key, Mid(T, R, lv, key), NEW m \in Nat, NEW M, M = [T EXCEPT !.memory = m]
  PROVE  /\ M.page = T.page /\ M.cursor = T.cursor /\ M.last = T.last /\ M.npages = T.npages /\ M.memory = m
         /\ Mid(M, R, lv, key)
         /\ T.npages \in Nat /\ M.npages \in Nat
<1>1. T \in TreeM /\ (\E fl, n : FreeOK(T.page, T.free, T.npages, R, fl, n)) /\ CursorOK(T.cursor, T.page, R, lv, key)
  BY DEF Mid
<1>2. /\ T = [page |-> T.page, npages |-> T.npages, free |-> T.free, memory |-> T.memory,
              cursor |-> T.cursor, last |-> T.last]
      /\ T.page \in [PageNo -> Page] /\ T.npages \in 2 .. MaxPages /\ T.free \in 0 .. MaxPages - 1
      /\ T.cursor \in Cursor /\ T.last \in Hint
  BY ONLY <1>1, TreeRecord
<1>3. M = [page |-> T.page, npages |-> T.npages, free |-> T.free, memory |-> m,
              cursor |-> T.cursor, last |-> T.last]
  BY ONLY <1>2, M = [T EXCEPT !.memory = m]
<1>4. [page |-> T.page, npages |-> T.npages, free |-> T.free, memory |-> m,
              cursor |-> T.cursor, last |-> T.last] \in TreeM
  BY ONLY <1>2, m \in Nat DEF TreeM
<1>5. /\ M.page = T.page /\ M.cursor = T.cursor /\ M.last = T.last /\ M.npages = T.npages /\ M.free = T.free /\ M.memory = m
  BY ONLY <1>3
<1>6. Mid(M, R, lv, key)
  BY ONLY <1>1, <1>3, <1>4, <1>5 DEF Mid
<1>7. T.npages \in Nat
  BY ONLY <1>2
<1>8. QED
  BY ONLY <1>5, <1>6, <1>7

\* A tree of which only memory is not as it is between operations.
LEMMA FineSet ==
  ASSUME NEW T, NEW U, Grown(T, U), NEW R, NEW lv, NEW lo, NEW hi, NEW cont, NEW key,
         Mid(U, R, lv, key), Sound(U, R, lv, lo, hi, cont), NEW W, W = [U EXCEPT !.memory = 0]
  PROVE  Fine(W, cont, key) /\ Grown(T, W) /\ W.memory = 0
<1>1. 0 \in Nat
  OBVIOUS
<1>2. /\ W.page = U.page /\ W.last = U.last /\ W.npages = U.npages /\ W.memory = 0 /\ W.cursor = U.cursor
      /\ Mid(W, R, lv, key)
  BY ONLY <1>1, Mid(U, R, lv, key), W = [U EXCEPT !.memory = 0], MemorySet
<1>3. Sound(W, R, lv, lo, hi, cont)
  BY ONLY <1>2, Sound(U, R, lv, lo, hi, cont) DEF Sound
<1>4. Grown(T, W)
  BY ONLY <1>2, Grown(T, U) DEF Grown
<1>5. QED
  BY ONLY <1>2, <1>3, <1>4 DEF Fine

SplitNow(T, R, lv, lo, hi, cont, key, k, p, i, path, d, m, M, e, short, s, u, W) ==
  /\ Landing(T, R, lv, lo, hi, cont, key, k, p, i) /\ ~Exact(T.page[p], k) /\ ~HasRoom(T.page[p]) /\ d \in Data
  /\ IsPath(T.page, R, lv, lo, hi, P_ROOT, k, path) /\ p = path[Len(path)].pgno /\ i = path[Len(path)].index
  /\ m \in Nat /\ M = [T EXCEPT !.memory = m] /\ e = [k |-> k, v |-> d]
  /\ s = Split(M, path, e, short) /\ u = SplitPage(M, p, i, e) /\ W = [s.t EXCEPT !.memory = 0]

\* A record more on a leaf that has no room for it.
LEMMA StoreSplit ==
  ASSUME NEW T, NEW R, NEW lv, NEW lo, NEW hi, NEW cont, NEW key, NEW k, NEW p, NEW i, NEW path, NEW d, NEW m,
         NEW M, NEW e, NEW short, NEW s, NEW u, NEW W,
         SplitNow(T, R, lv, lo, hi, cont, key, k, p, i, path, d, m, M, e, short, s, u, W)
  PROVE  /\ u.r = P_INVALID => s.r = P_INVALID /\ Fine(W, cont, key) /\ Grown(T, W) /\ W.memory = 0
         /\ u.r # P_INVALID /\ s.r # P_INVALID /\ ~CursorSlips(T, p, i) =>
              Fine(W, [cont EXCEPT ![k] = d], key) /\ Grown(T, W) /\ W.memory = 0
<1>0. /\ Landing(T, R, lv, lo, hi, cont, key, k, p, i) /\ ~Exact(T.page[p], k) /\ ~HasRoom(T.page[p]) /\ d \in Data
      /\ IsPath(T.page, R, lv, lo, hi, P_ROOT, k, path) /\ p = path[Len(path)].pgno /\ i = path[Len(path)].index
      /\ m \in Nat /\ M = [T EXCEPT !.memory = m] /\ e = [k |-> k, v |-> d]
      /\ s = Split(M, path, e, short) /\ u = SplitPage(M, p, i, e) /\ W = [s.t EXCEPT !.memory = 0]
  BY DEF SplitNow
<1>1. /\ TreeOK(T.page, R, lv, lo, hi, P_INVALID) /\ R \in SUBSET PageNo /\ p \in R /\ p \in PageNo /\ lv[p] = 0
      /\ T.page \in [PageNo -> Page] /\ T.page[p].leaf
      /\ i \in 1 .. Len(T.page[p].ents) + 1
  BY ONLY <1>0, LandingIs
<1>2. Mid(T, R, lv, key) /\ Sound(T, R, lv, lo, hi, cont) /\ k \in Key
  BY ONLY <1>0 DEF Landing
<1>3. /\ M.page = T.page /\ M.cursor = T.cursor /\ M.last = T.last /\ M.npages = T.npages
      /\ Mid(M, R, lv, key) /\ T.npages \in Nat
  BY ONLY <1>0, <1>2, MemorySet
<1>4. Grown(T, M)
  BY ONLY <1>3 DEF Grown, SameMark
<1>5. P_ROOT \in R /\ lv[P_ROOT] \in Nat /\ lv \in [PageNo -> Nat]
  <2>1. P_ROOT \in R /\ lv[P_ROOT] \in Nat
    BY ONLY <1>1, RootAlone
  <2>2. Typed(T.page, R, lv, lo, hi)
    BY ONLY <1>1 DEF TreeOK
  <2>3. QED
    BY ONLY <2>1, <2>2 DEF Typed
<1>6. Len(path) \in Nat /\ Len(path) # 0
  <2>1. Len(path) = lv[P_ROOT] + 1
    BY ONLY <1>0 DEF IsPath
  <2>2. QED
    BY ONLY <1>5, <2>1, SMTT(30)
<1>7. u = SplitPage(M, path[Len(path)].pgno, path[Len(path)].index, e)
  BY ONLY <1>0
<1>8. ASSUME u.r = P_INVALID
      PROVE  s.r = P_INVALID /\ Fine(W, cont, key) /\ Grown(T, W) /\ W.memory = 0
  <2>1. ~u.up /\ Grown(M, u.t) /\ u.t.page = M.page /\ Mid(u.t, R, lv, key)
    BY ONLY <1>1, <1>3, <1>7, <1>8, SplitFails
  <2>2. s = u
    BY ONLY <1>0, <1>6, <1>7, <2>1, SplitNot
  <2>3. PICK U : U = u.t
    OBVIOUS
  <2>4. Mid(U, R, lv, key) /\ Sound(U, R, lv, lo, hi, cont) /\ Grown(M, U)
    BY ONLY <1>2, <1>3, <2>1, <2>3 DEF Sound
  <2>5. Grown(T, U)
    BY ONLY <1>4, <2>4, GrownTwice
  <2>6. W = [U EXCEPT !.memory = 0]
    BY ONLY <1>0, <2>2, <2>3
  <2>7. Fine(W, cont, key) /\ Grown(T, W) /\ W.memory = 0
    BY ONLY <2>4, <2>5, <2>6, FineSet
  <2>8. QED
    BY ONLY <1>8, <2>2, <2>7
<1>9. ASSUME s.r # P_INVALID, ~CursorSlips(T, p, i)
      PROVE  Fine(W, [cont EXCEPT ![k] = d], key) /\ Grown(T, W) /\ W.memory = 0
  <2>1. PICK es : es = InsertAt(T.page[p].ents, i, e)
    OBVIOUS
  <2>2. PICK V : V = WithEnts(T.page, p, es)
    OBVIOUS
  <2>3. PICK c2 : c2 = [cont EXCEPT ![k] = d]
    OBVIOUS
  <2>4. TreeOK(V, R, lv, lo, hi, p) /\ Held(V, R, lv, [cont EXCEPT ![k] = d])
    BY ONLY <1>0, <2>1, <2>2, LandingHeld
  <2>5. e \in Ent
    BY ONLY <1>0, <1>1, <1>2, <2>1, MoreEnts
  <2>6. Fits(Sizes(T.page[p].leaf, Len(T.page[p].ents)))
    <3>1. Fitting(T.page, R, P_INVALID)
      BY ONLY <1>1 DEF TreeOK
    <3>2. p # P_INVALID
      BY ONLY <1>1, InTree
    <3>3. QED
      BY ONLY <1>1, <3>1, <3>2 DEF Fitting
  <2>7. Over(M, p, i, e, R, lv, lo, hi, c2)
    BY ONLY <1>1, <1>3, <2>1, <2>2, <2>3, <2>4, <2>5, <2>6 DEF Over
  <2>8. ~CursorSlips(M, p, i)
    BY ONLY <1>3, <1>9 DEF CursorSlips
  <2>9. ~HasRoom(M.page[p]) /\ IsPath(M.page, R, lv, lo, hi, P_ROOT, k, path)
    BY ONLY <1>0, <1>3
  <2>10. SplitStart(M, R, lv, lo, hi, c2, key, k, path, e)
    BY ONLY <1>0, <1>1, <1>3, <1>5, <2>7, <2>8, <2>9 DEF SplitStart
  <2>11. TurnDone(M, c2, key, s)
    BY ONLY <1>0, <1>9, <2>10, SplitIs
  <2>12. PICK U : U = s.t
    OBVIOUS
  <2>13. Grown(M, U) /\ \E S, lv2, lo2, hi2 : Mid(U, S, lv2, key) /\ Sound(U, S, lv2, lo2, hi2, c2)
    BY ONLY <2>11, <2>12 DEF TurnDone
  <2>14. PICK S, lv2, lo2, hi2 : Mid(U, S, lv2, key) /\ Sound(U, S, lv2, lo2, hi2, c2)
    BY ONLY <2>13
  <2>15. Grown(T, U)
    BY ONLY <1>4, <2>13, GrownTwice
  <2>16. W = [U EXCEPT !.memory = 0]
    BY ONLY <1>0, <2>12
  <2>17. Fine(W, c2, key) /\ Grown(T, W) /\ W.memory = 0
    BY ONLY <2>14, <2>15, <2>16, FineSet
  <2>18. QED
    BY ONLY <2>3, <2>17
<1>10. QED
  BY ONLY <1>8, <1>9

\* A leaf at the end of the tree has all keys from its last one on, one at the
\* beginning all keys up to its first one.
LEMMA EndLanding ==
  ASSUME NEW page, NEW R, NEW lv, NEW lo, NEW hi, TreeOK(page, R, lv, lo, hi, P_INVALID), NEW p \in R, page[p].leaf,
         NEW k \in Key, page[p].next = P_INVALID, Len(page[p].ents) # 0, k >= page[p].ents[Len(page[p].ents)].k,
         NEW i, i = IF k = page[p].ents[Len(page[p].ents)].k THEN Len(page[p].ents) ELSE Len(page[p].ents) + 1
  PROVE  lv[p] = 0 /\ lo[p] <= k /\ k < hi[p] /\ IsPlace(page[p].ents, k, i)
<1>1. PICK es : es = page[p].ents
  OBVIOUS
<1>2. lv[p] = 0 /\ lo[p] \in Nat /\ Len(es) \in Nat /\ \A j \in 1 .. Len(es) : es[j].k \in Nat
  BY <1>1, InTree
<1>3. PICK n : n = Len(es)
  OBVIOUS
<1>4. n \in Nat /\ n # 0 /\ n \in 1 .. n /\ k \in Nat /\ MaxKey \in Nat /\ k <= MaxKey
  BY <1>1, <1>2, <1>3, Numbers DEF Key
<1>5. Linked(page, R, lv, lo, hi) /\ Ordered(page, R, lv) /\ Within(page, R, lv, lo, hi)
  BY ONLY TreeOK(page, R, lv, lo, hi, P_INVALID) DEF TreeOK
<1>6. hi[p] = MaxKey + 1
  <2>1. P_INVALID \notin R
    BY ONLY TreeOK(page, R, lv, lo, hi, P_INVALID), InTree
  <2>2. QED
    BY ONLY <1>5, <2>1, p \in R, page[p].next = P_INVALID DEF Linked
<1>7. lo[p] <= es[n].k
  BY ONLY <1>1, <1>2, <1>3, <1>4, <1>5, p \in R DEF Within
<1>8. es[n].k <= k /\ es[n].k \in Nat
  <2>1. es[n].k \in Nat
    BY ONLY <1>2, <1>3, <1>4
  <2>2. k >= es[n].k
    BY ONLY <1>1, <1>3, k >= page[p].ents[Len(page[p].ents)].k
  <2>3. QED
    BY ONLY <1>4, <2>1, <2>2
<1>9. lo[p] <= k /\ k < hi[p]
  BY ONLY <1>2, <1>4, <1>6, <1>7, <1>8
<1>10. \A j \in 1 .. n : j < n => es[j].k < es[n].k
  BY ONLY <1>1, <1>2, <1>3, <1>4, <1>5, p \in R DEF Ordered
<1>11. i = IF k = es[n].k THEN n ELSE n + 1
  BY ONLY <1>1, <1>3, i = IF k = page[p].ents[Len(page[p].ents)].k THEN Len(page[p].ents) ELSE Len(page[p].ents) + 1
<1>12. ASSUME NEW j \in 1 .. n PROVE (j < i => es[j].k < k) /\ (j >= i => k <= es[j].k)
  <2>1. es[j].k \in Nat
    BY ONLY <1>2, <1>3, <1>12
  <2>2. CASE k = es[n].k
    <3>1. i = n
      BY ONLY <1>11, <2>2
    <3>2. (j < n \/ j = n) /\ ~(j > n)
      BY ONLY <1>4, <1>12
    <3>3. QED
      BY ONLY <1>4, <1>8, <1>10, <1>12, <2>1, <2>2, <3>1, <3>2
  <2>3. CASE k # es[n].k
    <3>1. i = n + 1 /\ j < i /\ ~(j >= i) /\ (j < n \/ j = n)
      BY ONLY <1>4, <1>11, <1>12, <2>3
    <3>2. es[j].k <= es[n].k
      BY ONLY <1>8, <1>10, <1>12, <2>1, <3>1
    <3>3. QED
      BY ONLY <1>4, <1>8, <2>1, <2>3, <3>1, <3>2
  <2>4. QED
    BY ONLY <2>2, <2>3
<1>13. i \in 1 .. n + 1
  BY ONLY <1>4, <1>11
<1>14. IsPlace(es, k, i)
  BY ONLY <1>3, <1>12, <1>13 DEF IsPlace
<1>15. QED
  BY ONLY <1>1, <1>2, <1>9, <1>14

\* The first place of the first leaf is right for a key below all on it.
LEMMA StartLanding ==
  ASSUME NEW page, NEW R, NEW lv, NEW lo, NEW hi, TreeOK(page, R, lv, lo, hi, P_INVALID), NEW p \in R, page[p].leaf,
         NEW k \in Key, page[p].prev = P_INVALID, Len(page[p].ents) # 0 => k <= page[p].ents[1].k
  PROVE  lv[p] = 0 /\ lo[p] <= k /\ k < hi[p] /\ IsPlace(page[p].ents, k, 1)
<1>1. PICK es : es = page[p].ents
  OBVIOUS
<1>2. lv[p] = 0 /\ lo[p] \in Nat /\ hi[p] \in Nat /\ Len(es) \in Nat /\ \A j \in 1 .. Len(es) : es[j].k \in Nat
  BY <1>1, InTree
<1>3. PICK n : n = Len(es)
  OBVIOUS
<1>4. n \in Nat /\ (n # 0 => 1 \in 1 .. n) /\ k \in Nat /\ MaxKey \in Nat /\ k <= MaxKey
  BY <1>1, <1>2, <1>3, Numbers DEF Key
<1>5. /\ Linked(page, R, lv, lo, hi) /\ Ordered(page, R, lv) /\ Within(page, R, lv, lo, hi) /\ Filled(page, R, lv)
      /\ Spans(R, lv, lo, hi)
  BY ONLY TreeOK(page, R, lv, lo, hi, P_INVALID) DEF TreeOK
<1>6. lo[p] = 0
  <2>1. P_INVALID \notin R
    BY ONLY TreeOK(page, R, lv, lo, hi, P_INVALID), InTree
  <2>2. QED
    BY ONLY <1>5, <2>1, p \in R, page[p].prev = P_INVALID DEF Linked
<1>7. n # 0 => k <= es[1].k /\ es[1].k < hi[p] /\ es[1].k \in Nat
  <2>1. n # 0 => k <= es[1].k
    BY ONLY <1>1, <1>3, Len(page[p].ents) # 0 => k <= page[p].ents[1].k
  <2>2. n # 0 => es[1].k < hi[p] /\ es[1].k \in Nat
    BY ONLY <1>1, <1>2, <1>3, <1>4, <1>5, p \in R DEF Within
  <2>3. QED
    BY ONLY <2>1, <2>2
<1>8. n = 0 => hi[p] = MaxKey + 1
  BY ONLY <1>1, <1>3, <1>5, p \in R DEF Filled, Spans
<1>9. lo[p] <= k /\ k < hi[p]
  <2>1. CASE n = 0
    BY ONLY <1>4, <1>6, <1>8, <2>1
  <2>2. CASE n # 0
    BY ONLY <1>2, <1>4, <1>6, <1>7, <2>2
  <2>3. QED
    BY ONLY <2>1, <2>2
<1>10. ASSUME NEW j \in 1 .. n PROVE ~(j < 1) /\ k <= es[j].k
  <2>1. n # 0 /\ 1 \in 1 .. n /\ (j = 1 \/ 1 < j) /\ ~(j < 1)
    BY ONLY <1>4, <1>10
  <2>2. 1 < j => es[1].k < es[j].k
    BY ONLY <1>1, <1>2, <1>3, <1>5, <1>10, <2>1, p \in R DEF Ordered
  <2>3. es[j].k \in Nat
    BY ONLY <1>2, <1>3, <1>10
  <2>4. QED
    BY ONLY <1>4, <1>7, <2>1, <2>2, <2>3
<1>11. 1 \in 1 .. n + 1
  BY ONLY <1>4
<1>12. IsPlace(es, k, 1)
  BY ONLY <1>3, <1>10, <1>11 DEF IsPlace
<1>13. QED
  BY ONLY <1>1, <1>2, <1>9, <1>12

\* A tree with another hint.
LEMMA HintSet ==
  ASSUME NEW T, NEW R, NEW lv, NEW lo, NEW hi, NEW cont, NEW key, Mid(T, R, lv, key), Sound(T, R, lv, lo, hi, cont),
         NEW h \in Hint, NEW H, H = [T EXCEPT !.last = h]
  PROVE  /\ H.page = T.page /\ H.cursor = T.cursor /\ H.npages = T.npages /\ H.memory = T.memory /\ H.last = h
         /\ Mid(H, R, lv, key) /\ Sound(H, R, lv, lo, hi, cont)
<1>1. T \in TreeM /\ (\E fl, n : FreeOK(T.page, T.free, T.npages, R, fl, n)) /\ CursorOK(T.cursor, T.page, R, lv, key)
  BY DEF Mid
<1>2. /\ T = [page |-> T.page, npages |-> T.npages, free |-> T.free, memory |-> T.memory,
              cursor |-> T.cursor, last |-> T.last]
      /\ T.page \in [PageNo -> Page] /\ T.npages \in 2 .. MaxPages /\ T.free \in 0 .. MaxPages - 1
      /\ T.cursor \in Cursor /\ T.memory \in Nat
  BY ONLY <1>1, TreeRecord
<1>3. H = [page |-> T.page, npages |-> T.npages, free |-> T.free, memory |-> T.memory,
              cursor |-> T.cursor, last |-> h]
  BY ONLY <1>2, H = [T EXCEPT !.last = h]
<1>4. [page |-> T.page, npages |-> T.npages, free |-> T.free, memory |-> T.memory,
              cursor |-> T.cursor, last |-> h] \in TreeM
  BY ONLY <1>2, h \in Hint DEF TreeM
<1>5. /\ H.page = T.page /\ H.cursor = T.cursor /\ H.last = h /\ H.npages = T.npages /\ H.free = T.free
      /\ H.memory = T.memory
  BY ONLY <1>3
<1>6. Mid(H, R, lv, key)
  BY ONLY <1>1, <1>3, <1>4, <1>5 DEF Mid
<1>7. Sound(H, R, lv, lo, hi, cont)
  BY ONLY <1>5, Sound(T, R, lv, lo, hi, cont) DEF Sound
<1>8. QED
  BY ONLY <1>5, <1>6, <1>7

\* Where put finds itself, by a search or by the hint.
TargetAt(T, R, lv, lo, hi, cont, key, k, path, p, i, H) ==
  /\ Mid(T, R, lv, key) /\ Sound(T, R, lv, lo, hi, cont) /\ cont \in [Key -> Data \cup {None}] /\ HintOK(T.last, T.page)
  /\ k \in Key /\ path = Target(T, k) /\ p = Last(path).pgno /\ i = Last(path).index /\ p \in R /\ H = Hinted(T, k)

\* The search finds the place of a key, ...
LEMMA TargetSearched ==
  ASSUME NEW T, NEW R, NEW lv, NEW lo, NEW hi, NEW cont, NEW key, NEW k, NEW path, NEW p, NEW i, NEW H,
         TargetAt(T, R, lv, lo, hi, cont, key, k, path, p, i, H), ~Fast(T, k)
  PROVE  /\ Landing(H, R, lv, lo, hi, cont, key, k, p, i) /\ HintOK(H.last, H.page)
         /\ H.page = T.page /\ H.cursor = T.cursor /\ H.npages = T.npages /\ H.memory = T.memory
         /\ H.last = NoHint /\ IsPath(H.page, R, lv, lo, hi, P_ROOT, k, path)
         /\ p = path[Len(path)].pgno /\ i = path[Len(path)].index
<1>0. /\ Mid(T, R, lv, key) /\ Sound(T, R, lv, lo, hi, cont) /\ cont \in [Key -> Data \cup {None}]
      /\ k \in Key /\ path = Target(T, k) /\ p = Last(path).pgno /\ i = Last(path).index /\ p \in R /\ H = Hinted(T, k)
  BY DEF TargetAt
<1>1. path = Path(T, k) /\ H = [T EXCEPT !.last = NoHint]
  BY ONLY <1>0, ~Fast(T, k) DEF Fast, Target, Hinted
<1>2. NoHint \in Hint
  BY Numbers DEF Hint, NoHint
<1>3. /\ H.page = T.page /\ H.cursor = T.cursor /\ H.npages = T.npages /\ H.memory = T.memory /\ H.last = NoHint
      /\ Mid(H, R, lv, key) /\ Sound(H, R, lv, lo, hi, cont)
  BY ONLY <1>0, <1>1, <1>2, HintSet
<1>4. TreeOK(T.page, R, lv, lo, hi, P_INVALID)
  BY ONLY <1>0 DEF Sound
<1>5. IsPath(T.page, R, lv, lo, hi, P_ROOT, k, path)
  <2>1. IsPath(T.page, R, lv, lo, hi, P_ROOT, k, Path(T, k))
    BY ONLY <1>0, <1>4, PathIs
  <2>2. QED
    BY ONLY <1>1, <2>1
<1>6. p = path[Len(path)].pgno /\ i = path[Len(path)].index
  BY ONLY <1>0 DEF Last
<1>7. p \in R /\ lv[p] = 0 /\ lo[p] <= k /\ k < hi[p] /\ i = Place(T.page[p], k)
  <2>1. lv[P_ROOT] \in Nat
    BY ONLY <1>4, RootAlone
  <2>2. Len(path) = lv[P_ROOT] + 1
    BY ONLY <1>5 DEF IsPath
  <2>3. Len(path) \in 1 .. Len(path) /\ Len(path) - Len(path) = 0
    BY ONLY <2>1, <2>2
  <2>4. QED
    BY ONLY <1>5, <1>6, <2>3 DEF IsPath
<1>8. IsPlace(T.page[p].ents, k, i)
  <2>1. k \in Nat
    BY <1>0, Numbers DEF Key
  <2>2. PICK page : page = T.page
    OBVIOUS
  <2>3. IsPlace(page[p].ents, k, Place(page[p], k))
    BY ONLY <1>4, <1>7, <2>1, <2>2, PlaceIs
  <2>4. QED
    BY ONLY <1>7, <2>2, <2>3
<1>9. HintOK(H.last, H.page)
  BY ONLY <1>3 DEF HintOK, NoHint
<1>10. Landing(H, R, lv, lo, hi, cont, key, k, p, i)
  BY ONLY <1>0, <1>3, <1>7, <1>8 DEF Landing
<1>11. QED
  BY ONLY <1>3, <1>5, <1>6, <1>9, <1>10

\* ... and so does the hint when bt_fast takes it and the page was not
\* freed.
LEMMA TargetFast ==
  ASSUME NEW T, NEW R, NEW lv, NEW lo, NEW hi, NEW cont, NEW key, NEW k, NEW path, NEW p, NEW i, NEW H,
         TargetAt(T, R, lv, lo, hi, cont, key, k, path, p, i, H), Fast(T, k)
  PROVE  /\ Landing(H, R, lv, lo, hi, cont, key, k, p, i) /\ HintOK(H.last, H.page) /\ HasRoom(H.page[p])
         /\ H.page = T.page /\ H.cursor = T.cursor /\ H.npages = T.npages /\ H.memory = T.memory
<1>0. /\ Mid(T, R, lv, key) /\ Sound(T, R, lv, lo, hi, cont) /\ cont \in [Key -> Data \cup {None}] /\ HintOK(T.last, T.page)
      /\ k \in Key /\ path = Target(T, k) /\ p = Last(path).pgno /\ i = Last(path).index /\ p \in R /\ H = Hinted(T, k)
  BY DEF TargetAt
<1>1. TreeOK(T.page, R, lv, lo, hi, P_INVALID)
  BY ONLY <1>0 DEF Sound
<1>2. T \in TreeM
  BY ONLY <1>0 DEF Mid
<1>3. T.last \in Hint /\ T.page \in [PageNo -> Page]
  BY ONLY <1>2, TreeRecord
<1>4. PICK j : j = IF FastForward(T, k)
                   THEN IF k = Last(FastPage(T).ents).k THEN T.last.index ELSE T.last.index + 1
                   ELSE 1
  OBVIOUS
<1>5. path = <<[pgno |-> T.last.pgno, index |-> j]>>
  BY ONLY <1>0, <1>4, Fast(T, k) DEF Fast, Target
<1>6. p = T.last.pgno /\ i = j /\ path[1].index = j
  BY ONLY <1>0, <1>5 DEF Last
<1>7. T.last.index \in Nat
  BY ONLY <1>3 DEF Hint
<1>8. j \in Nat
  BY ONLY <1>4, <1>7
<1>9. PICK h : h = [T.last EXCEPT !.index = j]
  OBVIOUS
<1>10. h \in Hint /\ h.order = T.last.order /\ h.pgno = T.last.pgno
  BY ONLY <1>3, <1>8, <1>9 DEF Hint
<1>11. H = [T EXCEPT !.last = h]
  <2>1. H = [T EXCEPT !.last.index = j]
    BY ONLY <1>0, <1>6, Fast(T, k) DEF Hinted
  <2>2. T = [page |-> T.page, npages |-> T.npages, free |-> T.free, memory |-> T.memory,
              cursor |-> T.cursor, last |-> T.last]
    BY ONLY <1>2, TreeRecord
  <2>3. QED
    BY ONLY <1>9, <2>1, <2>2
<1>12. /\ H.page = T.page /\ H.cursor = T.cursor /\ H.npages = T.npages /\ H.memory = T.memory /\ H.last = h
       /\ Mid(H, R, lv, key) /\ Sound(H, R, lv, lo, hi, cont)
  BY ONLY <1>0, <1>10, <1>11, HintSet
<1>13. HintOK(H.last, H.page)
  BY ONLY <1>0, <1>10, <1>12 DEF HintOK
<1>14. PICK page : page = T.page
  OBVIOUS
<1>15. page[p].leaf /\ FastPage(T) = page[p]
  <2>1. T.last.order # "not"
    BY ONLY Fast(T, k) DEF Fast, FastForward, FastBack
  <2>2. QED
    BY ONLY <1>0, <1>6, <1>14, <2>1 DEF HintOK, FastPage
<1>16. TreeOK(page, R, lv, lo, hi, P_INVALID)
  BY ONLY <1>1, <1>14
<1>17. page[p].ents \in Seq(Ent) /\ Len(page[p].ents) \in Nat
  BY ONLY <1>0, <1>16, InTree
<1>18. page[p].ents = <<>> <=> Len(page[p].ents) = 0
  <2>1. ASSUME Len(page[p].ents) = 0 PROVE page[p].ents = <<>>
    <3>1. page[p].ents \in Seq(Ent)
      BY ONLY <1>17
    <3>2. QED
      BY ONLY <2>1, <3>1
  <2>2. QED
    BY ONLY <2>1
<1>19. CASE FastForward(T, k)
  <2>1. /\ HasRoom(page[p]) /\ page[p].next = P_INVALID /\ page[p].ents # <<>>
        /\ T.last.index = Len(page[p].ents) /\ k >= Last(page[p].ents).k
    BY ONLY <1>15, <1>19 DEF FastForward
  <2>2. Last(page[p].ents) = page[p].ents[Len(page[p].ents)]
    BY DEF Last
  <2>3. i = IF k = page[p].ents[Len(page[p].ents)].k THEN Len(page[p].ents) ELSE Len(page[p].ents) + 1
    BY ONLY <1>4, <1>6, <1>15, <1>19, <2>1, <2>2
  <2>4. k >= page[p].ents[Len(page[p].ents)].k
    BY ONLY <2>1, <2>2
  <2>5. lv[p] = 0 /\ lo[p] <= k /\ k < hi[p] /\ IsPlace(page[p].ents, k, i)
    BY ONLY <1>0, <1>15, <1>16, <1>18, <2>1, <2>3, <2>4, EndLanding
  <2>6. Landing(H, R, lv, lo, hi, cont, key, k, p, i)
    BY ONLY <1>0, <1>12, <1>14, <2>5 DEF Landing
  <2>7. QED
    BY ONLY <1>12, <1>13, <1>14, <2>1, <2>6
<1>20. CASE ~FastForward(T, k)
  <2>1. FastBack(T, k)
    BY ONLY <1>20, Fast(T, k) DEF Fast
  <2>2. HasRoom(page[p]) /\ page[p].prev = P_INVALID /\ k <= FastKey(T) /\ i = 1
    BY ONLY <1>4, <1>6, <1>15, <1>20, <2>1 DEF FastBack
  <2>3. Len(page[p].ents) # 0 => k <= page[p].ents[1].k
    BY ONLY <1>15, <1>18, <2>2 DEF FastKey
  <2>4. lv[p] = 0 /\ lo[p] <= k /\ k < hi[p] /\ IsPlace(page[p].ents, k, 1)
    BY ONLY <1>0, <1>15, <1>16, <2>2, <2>3, StartLanding
  <2>5. Landing(H, R, lv, lo, hi, cont, key, k, p, i)
    BY ONLY <1>0, <1>12, <1>14, <2>2, <2>4 DEF Landing
  <2>6. QED
    BY ONLY <1>12, <1>13, <1>14, <2>2, <2>5
<1>21. QED
  BY ONLY <1>19, <1>20

-----------------------------------------------------------------------------
(* The operations *)

Running == Intact /\ TypeOK /\ Fine(t, contents, at) /\ HintOK(t.last, t.page) /\ FileOK(t, contents)

\* IInv in the form the steps use.
LEMMA RunningInv == Intact /\ IInv => Running
<1>1. SUFFICES ASSUME Intact, IInv PROVE Running
  OBVIOUS
<1>2. TypeOK /\ Good /\ HintOK(t.last, t.page) /\ FileOK(t, contents)
  BY <1>1 DEF IInv
<1>3. PICK R, lv, lo, hi, fl, n :
        /\ TreeOK(t.page, R, lv, lo, hi, P_INVALID)
        /\ FreeOK(t.page, t.free, t.npages, R, fl, n)
        /\ Held(t.page, R, lv, contents)
        /\ CursorOK(t.cursor, t.page, R, lv, at)
  BY ONLY <1>2 DEF Good
<1>4. t \in TreeM
  <2>1. t \in Tree
    BY ONLY <1>2 DEF TypeOK
  <2>2. QED
    BY ONLY <2>1 DEF Tree, TreeM
<1>5. Mid(t, R, lv, at) /\ Sound(t, R, lv, lo, hi, contents)
  BY ONLY <1>3, <1>4 DEF Mid, Sound
<1>6. Fine(t, contents, at)
  BY ONLY <1>5 DEF Fine
<1>7. QED
  BY ONLY <1>1, <1>2, <1>6 DEF Running

LEMMA FineIs ==
  ASSUME NEW W, NEW cont, NEW key, Fine(W, cont, key)
  PROVE  /\ W \in TreeM
         /\ \E R, lv, lo, hi, fl, n : /\ TreeOK(W.page, R, lv, lo, hi, P_INVALID)
                                      /\ FreeOK(W.page, W.free, W.npages, R, fl, n)
                                      /\ Held(W.page, R, lv, cont)
                                      /\ CursorOK(W.cursor, W.page, R, lv, key)
<1>1. PICK R, lv, lo, hi : Mid(W, R, lv, key) /\ Sound(W, R, lv, lo, hi, cont)
  BY DEF Fine
<1>2. W \in TreeM /\ (\E fl, n : FreeOK(W.page, W.free, W.npages, R, fl, n)) /\ CursorOK(W.cursor, W.page, R, lv, key)
  BY ONLY <1>1 DEF Mid
<1>3. TreeOK(W.page, R, lv, lo, hi, P_INVALID) /\ Held(W.page, R, lv, cont)
  BY ONLY <1>1 DEF Sound
<1>4. QED
  BY ONLY <1>2, <1>3

\* The types of what is not the tree.
Rest == /\ meta \in 0 .. MaxPages - 1 \cup {None}
        /\ metadirty \in BOOLEAN /\ modified \in BOOLEAN /\ panic \in BOOLEAN
        /\ contents \in [Key -> Data \cup {None}]
        /\ at \in Key \cup {None}
        /\ flaw \in {"none", "astray", "freelist", "cursor"}

LEMMA TreeIs ==
  ASSUME NEW W \in TreeM, W.memory = 0
  PROVE  W \in Tree
<1>1. /\ W = [page |-> W.page, npages |-> W.npages, free |-> W.free, memory |-> W.memory,
              cursor |-> W.cursor, last |-> W.last]
      /\ W.page \in [PageNo -> Page] /\ W.npages \in 2 .. MaxPages /\ W.free \in 0 .. MaxPages - 1
      /\ W.memory \in {0} /\ W.cursor \in Cursor /\ W.last \in Hint
  BY TreeRecord
<1>2. [page |-> W.page, npages |-> W.npages, free |-> W.free, memory |-> W.memory,
              cursor |-> W.cursor, last |-> W.last] \in Tree
  BY ONLY <1>1 DEF Tree
<1>3. QED
  BY ONLY <1>1, <1>2

\* What a step has to show.
LEMMA InvAgain ==
  ASSUME Fine(t', contents', at'), t'.memory = 0, HintOK(t'.last, t'.page), Rest', FileOK(t, contents)'
  PROVE  IInv'
<1>1. /\ t' \in TreeM
      /\ \E R, lv, lo, hi, fl, n : /\ TreeOK(t'.page, R, lv, lo, hi, P_INVALID)
                                   /\ FreeOK(t'.page, t'.free, t'.npages, R, fl, n)
                                   /\ Held(t'.page, R, lv, contents')
                                   /\ CursorOK(t'.cursor, t'.page, R, lv, at')
  BY FineIs
<1>2. t' \in Tree
  BY <1>1, TreeIs
<1>3. TypeOK'
  BY ONLY <1>2, Rest' DEF TypeOK, Rest
<1>4. Good'
  BY ONLY <1>1 DEF Good
<1>5. QED
  BY ONLY <1>3, <1>4, HintOK(t'.last, t'.page), FileOK(t, contents)' DEF IInv

\* A step of put, del or seq.
LEMMA DataStep ==
  ASSUME Running, Fine(t', contents', at'), t'.memory = 0, HintOK(t'.last, t'.page), t.npages <= t'.npages,
         meta' = meta, metadirty' = metadirty, modified' \in BOOLEAN, panic' \in BOOLEAN,
         contents' \in [Key -> Data \cup {None}], at' \in Key \cup {None}, flaw' \in {"none", "astray", "freelist", "cursor"},
         modified' \/ (modified' = modified /\ contents' = contents)
  PROVE  IInv'
<1>1. TypeOK /\ FileOK(t, contents)
  BY DEF Running
<1>2. Rest'
  BY <1>1 DEF Rest, TypeOK
<1>3. FileOK(t, contents)'
  <2>1. meta # None => meta' < t'.npages
    <3>1. t' \in TreeM
      BY FineIs
    <3>2. t'.npages \in Nat /\ t.npages \in Nat
      BY <1>1, <3>1 DEF TypeOK, Tree, TreeM
    <3>3. meta # None => meta < t.npages /\ meta \in Nat
      BY ONLY <1>1 DEF FileOK, TypeOK
    <3>4. QED
      BY <3>2, <3>3
  <2>2. meta = None => metadirty
    BY ONLY <1>1 DEF FileOK
  <2>3. meta = None /\ ~modified' => \A k \in Key : contents'[k] = None
    <3>1. SUFFICES ASSUME meta = None, ~modified' PROVE \A k \in Key : contents'[k] = None
      OBVIOUS
    <3>2. ~modified /\ contents' = contents
      BY <3>1
    <3>3. QED
      BY ONLY <1>1, <3>1, <3>2 DEF FileOK
  <2>4. QED
    BY <2>1, <2>2, <2>3 DEF FileOK
<1>4. QED
  BY <1>2, <1>3, InvAgain

\* A damaged tree stays damaged.
LEMMA Damaged ==
  ASSUME ~Intact, Next
  PROVE  ~Intact'
<1>1. flaw # "none"
  BY DEF Intact, Next
<1>2. ASSUME NEW T, NEW path, NEW k, NEW d, Store(T, path, k, d) PROVE flaw' # "none"
  BY ONLY <1>1, <1>2 DEF Store
<1>3. ASSUME NEW path, NEW i, Erase(path, i) PROVE flaw' # "none"
  BY ONLY <1>1, <1>3 DEF Erase
<1>4. ASSUME NEW e, SeqTo(e) PROVE flaw' # "none"
  BY ONLY <1>1, <1>4 DEF SeqTo
<1>5. ASSUME NEW k \in Key, NEW d \in Data, Put(k, d) PROVE flaw' # "none"
  BY ONLY <1>1, <1>2, <1>5 DEF Put, PutAstray
<1>6. ASSUME NEW d \in Data, PutCursor(d) PROVE flaw' # "none"
  BY ONLY <1>2, <1>6 DEF PutCursor
<1>7. ASSUME Sync \/ Reopen PROVE flaw' # "none"
  BY ONLY <1>1, <1>7 DEF Sync, Reopen
<1>8. ASSUME SeqFirst \/ SeqLast \/ SeqNext \/ SeqPrev \/ \E k \in Key : SeqCursor(k) PROVE flaw' # "none"
  BY ONLY <1>4, <1>8 DEF SeqFirst, SeqLast, SeqNext, SeqPrev, SeqCursor
<1>9. ASSUME DelCursor \/ \E k \in Key : Del(k) PROVE flaw' # "none"
  BY ONLY <1>3, <1>9 DEF DelCursor, Del
<1>10. flaw' # "none"
  BY ONLY <1>5, <1>6, <1>7, <1>8, <1>9, Next DEF Next
<1>11. QED
  BY ONLY <1>10 DEF Intact

LEMMA NowIs ==
  ASSUME Running
  PROVE  /\ \E R, lv, lo, hi : Mid(t, R, lv, at) /\ Sound(t, R, lv, lo, hi, contents)
         /\ contents \in [Key -> Data \cup {None}] /\ HintOK(t.last, t.page) /\ t.memory = 0 /\ t.npages \in Nat
         /\ at \in Key \cup {None} /\ modified \in BOOLEAN /\ flaw = "none" /\ ~panic /\ panic \in BOOLEAN
<1>1. Intact /\ TypeOK /\ Fine(t, contents, at) /\ HintOK(t.last, t.page)
  BY DEF Running
<1>2. \E R, lv, lo, hi : Mid(t, R, lv, at) /\ Sound(t, R, lv, lo, hi, contents)
  BY ONLY <1>1 DEF Fine
<1>3. /\ contents \in [Key -> Data \cup {None}] /\ at \in Key \cup {None} /\ modified \in BOOLEAN /\ panic \in BOOLEAN /\ t \in Tree
  BY ONLY <1>1 DEF TypeOK
<1>4. t.memory = 0 /\ t.npages \in 2 .. MaxPages
  BY ONLY <1>3 DEF Tree
<1>5. t.npages \in Nat
  BY <1>4
<1>6. flaw = "none" /\ ~panic
  BY ONLY <1>1 DEF Intact
<1>7. QED
  BY ONLY <1>1, <1>2, <1>3, <1>4, <1>5, <1>6

LEMMA NewContents ==
  ASSUME NEW cont \in [Key -> Data \cup {None}], NEW k, NEW x \in Data \cup {None}
  PROVE  [cont EXCEPT ![k] = x] \in [Key -> Data \cup {None}]
  OBVIOUS

\* A record for a key that the leaf does not have.
StoreAt(H, R, lv, lo, hi, k, path, p, i) ==
  /\ Landing(H, R, lv, lo, hi, contents, at, k, p, i) /\ ~Exact(H.page[p], k)
  /\ HintOK(H.last, H.page) /\ H.npages = t.npages /\ H.memory = 0
  /\ p = Last(path).pgno /\ i = Last(path).index
  /\ HasRoom(H.page[p]) \/ (H.last = NoHint /\ IsPath(H.page, R, lv, lo, hi, P_ROOT, k, path))

\* The user's view of it: the record is there, or nothing has changed.
PutNew(c, k, d) ==
  Intact' => /\ at' = at /\ SameMark(c, t'.cursor)
             /\ contents' = contents \/ contents' = [contents EXCEPT ![k] = d]

\* A put of a new key, with or without splits.
LEMMA StoreNew ==
  ASSUME Running, NEW H, NEW R, NEW lv, NEW lo, NEW hi, NEW k, NEW path, NEW p, NEW i,
         StoreAt(H, R, lv, lo, hi, k, path, p, i), NEW d \in Data, Store(H, path, k, d)
  PROVE  IInv' /\ PutNew(H.cursor, k, d)
<1>0. /\ Landing(H, R, lv, lo, hi, contents, at, k, p, i) /\ ~Exact(H.page[p], k)
      /\ HintOK(H.last, H.page) /\ H.npages = t.npages /\ H.memory = 0
      /\ p = Last(path).pgno /\ i = Last(path).index
      /\ HasRoom(H.page[p]) \/ (H.last = NoHint /\ IsPath(H.page, R, lv, lo, hi, P_ROOT, k, path))
  BY DEF StoreAt
<1>1. /\ contents \in [Key -> Data \cup {None}] /\ t.npages \in Nat
      /\ at \in Key \cup {None} /\ modified \in BOOLEAN /\ flaw = "none" /\ ~panic /\ panic \in BOOLEAN
  BY NowIs
<1>2. k \in Key
  BY ONLY <1>0 DEF Landing
<1>3. PICK c2 : c2 = [contents EXCEPT ![k] = d]
  OBVIOUS
<1>4. c2 \in [Key -> Data \cup {None}]
  BY <1>1, <1>3, NewContents
<1>5. PICK e : e = [k |-> k, v |-> d]
  OBVIOUS
<1>6. meta' = meta /\ metadirty' = metadirty /\ at' = at
  BY ONLY Store(H, path, k, d) DEF Store
<1>7. CASE HasRoom(H.page[p])
  <2>1. t' = Insert(H, p, i, e) /\ contents' = c2 /\ modified' = TRUE /\ panic' = panic /\ flaw' = flaw
    BY ONLY <1>0, <1>3, <1>5, <1>7, Store(H, path, k, d) DEF Store
  <2>2. PICK W : W = t'
    OBVIOUS
  <2>3. W = Insert(H, p, i, [k |-> k, v |-> d])
    BY ONLY <1>5, <2>1, <2>2
  <2>4. Fine(W, [contents EXCEPT ![k] = d], at) /\ Same(H, W) /\ SameMark(H.cursor, W.cursor)
    BY ONLY <1>0, <1>7, <2>3, d \in Data, StoreRoom
  <2>5. W.npages = H.npages /\ W.memory = H.memory /\ HintOK(W.last, W.page)
    BY ONLY <1>0, <2>4 DEF Same
  <2>6. Fine(t', contents', at') /\ t'.memory = 0 /\ HintOK(t'.last, t'.page) /\ t'.npages = t.npages
    BY ONLY <1>0, <1>3, <1>6, <2>1, <2>2, <2>4, <2>5
  <2>7. t.npages <= t'.npages
    BY ONLY <1>1, <2>6
  <2>8. /\ modified' \in BOOLEAN /\ panic' \in BOOLEAN /\ contents' \in [Key -> Data \cup {None}]
        /\ at' \in Key \cup {None} /\ flaw' \in {"none", "astray", "freelist", "cursor"} /\ modified'
    <3>1. modified' \in BOOLEAN /\ panic' \in BOOLEAN
      BY ONLY <1>1, <2>1, Zenon
    <3>2. modified'
      BY ONLY <2>1, Zenon
    <3>3. contents' \in [Key -> Data \cup {None}] /\ at' \in Key \cup {None}
      BY ONLY <1>1, <1>4, <1>6, <2>1, Zenon
    <3>4. flaw' \in {"none", "astray", "freelist", "cursor"}
      BY ONLY <1>1, <2>1, Zenon
    <3>5. QED
      BY ONLY <3>1, <3>2, <3>3, <3>4, Zenon
  <2>9. IInv'
    BY ONLY <1>6, <2>6, <2>7, <2>8, Running, DataStep
  <2>10. PutNew(H.cursor, k, d)
    BY ONLY <1>3, <1>6, <2>1, <2>2, <2>4 DEF PutNew
  <2>11. QED
    BY ONLY <2>9, <2>10
<1>8. CASE ~HasRoom(H.page[p])
  <2>1. PICK m \in Memory, short \in BOOLEAN :
             LET M == [H EXCEPT !.memory = m]
                 s == Split(M, path, e, short)
                 done == s.r # P_INVALID
                 begun == SplitPage(M, p, i, e).r # P_INVALID IN
             /\ t' = [s.t EXCEPT !.memory = 0]
             /\ contents' = IF done THEN c2 ELSE contents
             /\ modified' = (modified \/ done)
             /\ panic' = (begun /\ ~done)
             /\ flaw' = IF begun /\ CursorSlips(H, p, i) THEN "cursor" ELSE flaw
    BY ONLY <1>0, <1>3, <1>5, <1>8, Store(H, path, k, d), SMTT(30) DEF Store
  <2>2. PICK M : M = [H EXCEPT !.memory = m]
    OBVIOUS
  <2>3. PICK s : s = Split(M, path, e, short)
    OBVIOUS
  <2>4. PICK u : u = SplitPage(M, p, i, e)
    OBVIOUS
  <2>5. PICK W : W = [s.t EXCEPT !.memory = 0]
    OBVIOUS
  <2>6. /\ t' = W
        /\ contents' = IF s.r # P_INVALID THEN c2 ELSE contents
        /\ modified' = (modified \/ s.r # P_INVALID)
        /\ panic' = (u.r # P_INVALID /\ ~(s.r # P_INVALID))
        /\ flaw' = IF u.r # P_INVALID /\ CursorSlips(H, p, i) THEN "cursor" ELSE flaw
    BY ONLY <2>1, <2>2, <2>3, <2>4, <2>5
  <2>7. p = path[Len(path)].pgno /\ i = path[Len(path)].index
    BY ONLY <1>0 DEF Last
  <2>8. m \in Nat
    BY Numbers
  <2>9. SplitNow(H, R, lv, lo, hi, contents, at, k, p, i, path, d, m, M, e, short, s, u, W)
    BY ONLY <1>0, <1>5, <1>8, <2>2, <2>3, <2>4, <2>5, <2>7, <2>8, d \in Data DEF SplitNow
  <2>10. /\ u.r = P_INVALID => s.r = P_INVALID /\ Fine(W, contents, at) /\ Grown(H, W) /\ W.memory = 0
         /\ u.r # P_INVALID /\ s.r # P_INVALID /\ ~CursorSlips(H, p, i) =>
              Fine(W, [contents EXCEPT ![k] = d], at) /\ Grown(H, W) /\ W.memory = 0
    BY ONLY <2>9, StoreSplit
  <2>11. CASE u.r = P_INVALID \/ (u.r # P_INVALID /\ s.r # P_INVALID /\ ~CursorSlips(H, p, i))
    <3>1. Fine(t', contents', at') /\ Grown(H, t') /\ t'.memory = 0
      BY ONLY <1>3, <1>6, <2>6, <2>10, <2>11
    <3>2. HintOK(t'.last, t'.page)
      BY ONLY <1>0, <1>8, <3>1 DEF Grown, HintOK, NoHint
    <3>3. t.npages <= t'.npages
      BY ONLY <1>0, <3>1 DEF Grown
    <3>4. modified' \in BOOLEAN /\ panic' \in BOOLEAN
      BY ONLY <1>1, <2>6
    <3>5. contents' \in [Key -> Data \cup {None}]
      BY ONLY <1>1, <1>4, <2>6
    <3>6. flaw' \in {"none", "astray", "freelist", "cursor"} /\ at' \in Key \cup {None}
      BY ONLY <1>1, <1>6, <2>6
    <3>7. modified' \/ (modified' = modified /\ contents' = contents)
      BY ONLY <1>1, <2>6
    <3>8. IInv'
      BY ONLY <1>6, <3>1, <3>2, <3>3, <3>4, <3>5, <3>6, <3>7, Running, DataStep
    <3>9. SameMark(H.cursor, t'.cursor)
      BY ONLY <3>1 DEF Grown
    <3>10. PutNew(H.cursor, k, d)
      BY ONLY <1>3, <1>6, <2>6, <3>9 DEF PutNew
    <3>11. QED
      BY ONLY <3>8, <3>10
  <2>12. CASE u.r # P_INVALID /\ (s.r = P_INVALID \/ CursorSlips(H, p, i))
    <3>1. panic' \/ flaw' # "none"
      BY ONLY <2>6, <2>12
    <3>2. QED
      BY ONLY <3>1 DEF IInv, PutNew, Intact
  <2>13. QED
    BY ONLY <2>11, <2>12
<1>9. QED
  BY ONLY <1>7, <1>8

\* The record of a key that the leaf has is replaced.
PutOld(c, p, i, k, d) ==
  at' = at /\ LostMark(c, t'.cursor, p, i, k) /\ contents' = [contents EXCEPT ![k] = d]

\* A put that replaces a record: its delete and insertion in one place.
LEMMA StoreOld ==
  ASSUME Running, NEW H, NEW R, NEW lv, NEW lo, NEW hi, NEW k, NEW path, NEW p, NEW i,
         Mid(H, R, lv, at), Sound(H, R, lv, lo, hi, contents), HintOK(H.last, H.page), H.npages = t.npages, H.memory = 0,
         p = Last(path).pgno, i = Last(path).index, p \in R, lv[p] = 0,
         i \in 1 .. Len(H.page[p].ents), H.page[p].ents[i].k = k, NEW d \in Data, Store(Dleaf(H, p, i), path, k, d)
  PROVE  IInv' /\ PutOld(H.cursor, p, i, k, d)
<1>1. /\ contents \in [Key -> Data \cup {None}] /\ t.npages \in Nat
      /\ at \in Key \cup {None} /\ modified \in BOOLEAN /\ flaw = "none" /\ ~panic /\ panic \in BOOLEAN
  BY NowIs
<1>2. PICK D0 : D0 = Dleaf(H, p, i)
  OBVIOUS
<1>3. PICK W : W = Insert(D0, p, i, [k |-> k, v |-> d])
  OBVIOUS
<1>4. /\ HasRoom(D0.page[p]) /\ Fine(W, [contents EXCEPT ![k] = d], at) /\ Same(H, W)
      /\ LostMark(H.cursor, W.cursor, p, i, k)
  BY ONLY <1>1, <1>2, <1>3, Mid(H, R, lv, at), Sound(H, R, lv, lo, hi, contents), p \in R, lv[p] = 0,
     i \in 1 .. Len(H.page[p].ents), H.page[p].ents[i].k = k, d \in Data, StoreReplace
<1>5. Store(D0, path, k, d)
  BY <1>2
<1>6. /\ t' = W /\ contents' = [contents EXCEPT ![k] = d] /\ modified' = TRUE /\ panic' = panic /\ flaw' = flaw
      /\ meta' = meta /\ metadirty' = metadirty /\ at' = at
  BY ONLY <1>3, <1>4, <1>5, p = Last(path).pgno, i = Last(path).index DEF Store
<1>7. W.npages = H.npages /\ W.memory = H.memory /\ HintOK(W.last, W.page)
  BY <1>4 DEF Same
<1>8. Fine(t', contents', at') /\ t'.memory = 0 /\ HintOK(t'.last, t'.page) /\ t'.npages = t.npages
  BY ONLY <1>4, <1>6, <1>7, H.npages = t.npages, H.memory = 0
<1>9. t.npages <= t'.npages
  BY ONLY <1>1, <1>8
<1>10. contents' \in [Key -> Data \cup {None}]
  <2>1. [contents EXCEPT ![k] = d] \in [Key -> Data \cup {None}]
    BY <1>1, NewContents
  <2>2. QED
    BY ONLY <1>6, <2>1
<1>11. /\ modified' \in BOOLEAN /\ panic' \in BOOLEAN
       /\ at' \in Key \cup {None} /\ flaw' \in {"none", "astray", "freelist", "cursor"} /\ modified'
  <2>1. modified' \in BOOLEAN /\ panic' \in BOOLEAN
    BY ONLY <1>1, <1>6, Zenon
  <2>2. modified'
    BY ONLY <1>6, Zenon
  <2>3. at' \in Key \cup {None}
    BY ONLY <1>1, <1>6, Zenon
  <2>4. flaw' \in {"none", "astray", "freelist", "cursor"}
    BY ONLY <1>1, <1>6, Zenon
  <2>5. QED
    BY ONLY <2>1, <2>2, <2>3, <2>4, Zenon
<1>12. IInv'
  BY ONLY <1>6, <1>8, <1>9, <1>10, <1>11, Running, DataStep
<1>13. PutOld(H.cursor, p, i, k, d)
  BY ONLY <1>4, <1>6 DEF PutOld
<1>14. QED
  BY ONLY <1>12, <1>13

\* A record that a leaf has.
Spot(k, p, i) ==
  \E R, lv, lo, hi : /\ Mid(t, R, lv, at) /\ Sound(t, R, lv, lo, hi, contents) /\ p \in R /\ lv[p] = 0
                     /\ i \in 1 .. Len(t.page[p].ents) /\ t.page[p].ents[i].k = k

\* What the user and the cursor see of a put.
PutAs(k, d) ==
  Intact' => \/ \E R, lv, lo, hi, p, i : /\ Landing(t, R, lv, lo, hi, contents, at, k, p, i) /\ ~Exact(t.page[p], k)
                                         /\ PutNew(t.cursor, k, d)
             \/ \E p, i : Spot(k, p, i) /\ PutOld(t.cursor, p, i, k, d)
             \/ at' = at /\ contents' = contents /\ SameMark(t.cursor, t'.cursor)

\* __bt_put
LEMMA PutStep ==
  ASSUME Running, NEW k \in Key, NEW d \in Data, Put(k, d)
  PROVE  IInv' /\ PutAs(k, d)
<1>1. /\ contents \in [Key -> Data \cup {None}] /\ HintOK(t.last, t.page) /\ t.memory = 0 /\ t.npages \in Nat
      /\ at \in Key \cup {None} /\ modified \in BOOLEAN /\ flaw = "none" /\ ~panic /\ panic \in BOOLEAN
  BY NowIs
<1>2. PICK R, lv, lo, hi : Mid(t, R, lv, at) /\ Sound(t, R, lv, lo, hi, contents)
  BY NowIs
<1>3. Reach(t) = R
  <2>1. TreeOK(t.page, R, lv, lo, hi, P_INVALID)
    BY ONLY <1>2 DEF Sound
  <2>2. QED
    BY ONLY <2>1, ReachIs
<1>4. PICK path : path = Target(t, k)
  OBVIOUS
<1>5. PICK p : p = Last(path).pgno
  OBVIOUS
<1>6. PICK i : i = Last(path).index
  OBVIOUS
<1>7. PICK H : H = Hinted(t, k)
  OBVIOUS
<1>8. IF p \notin R THEN PutAstray(H, p, k, d)
      ELSE IF ~Exact(t.page[p], k) THEN Store(H, path, k, d)
      ELSE \/ Store(Dleaf(H, p, i), path, k, d)
           \/ t' = H /\ UNCHANGED <<meta, metadirty, modified, panic, contents, at, flaw>>
  BY ONLY <1>3, <1>4, <1>5, <1>6, <1>7, Put(k, d) DEF Put
<1>9. CASE p \notin R
  <2>1. flaw' = "astray"
    BY ONLY <1>8, <1>9 DEF PutAstray
  <2>2. QED
    BY ONLY <2>1 DEF IInv, PutAs, Intact
<1>10. CASE p \in R
  <2>1. TargetAt(t, R, lv, lo, hi, contents, at, k, path, p, i, H)
    BY ONLY <1>1, <1>2, <1>4, <1>5, <1>6, <1>7, <1>10, k \in Key DEF TargetAt
  <2>2. /\ Landing(H, R, lv, lo, hi, contents, at, k, p, i) /\ HintOK(H.last, H.page)
        /\ H.page = t.page /\ H.cursor = t.cursor /\ H.npages = t.npages /\ H.memory = t.memory
        /\ HasRoom(H.page[p]) \/ (H.last = NoHint /\ IsPath(H.page, R, lv, lo, hi, P_ROOT, k, path))
    <3>1. CASE Fast(t, k)
      BY ONLY <2>1, <3>1, TargetFast
    <3>2. CASE ~Fast(t, k)
      BY ONLY <2>1, <3>2, TargetSearched
    <3>3. QED
      BY ONLY <3>1, <3>2
  <2>3. CASE ~Exact(t.page[p], k)
    <3>1. Store(H, path, k, d)
      BY ONLY <1>8, <1>10, <2>3
    <3>2. StoreAt(H, R, lv, lo, hi, k, path, p, i)
      BY ONLY <1>1, <1>5, <1>6, <2>2, <2>3 DEF StoreAt
    <3>3. IInv' /\ PutNew(H.cursor, k, d)
      BY ONLY <3>1, <3>2, Running, d \in Data, StoreNew
    <3>4. Landing(t, R, lv, lo, hi, contents, at, k, p, i)
      BY ONLY <1>2, <2>2 DEF Landing
    <3>5. PutNew(t.cursor, k, d)
      BY ONLY <2>2, <3>3
    <3>6. PutAs(k, d)
      BY ONLY <2>3, <3>4, <3>5 DEF PutAs
    <3>7. QED
      BY ONLY <3>3, <3>6
  <2>4. CASE Exact(t.page[p], k)
    <3>1. Mid(H, R, lv, at) /\ Sound(H, R, lv, lo, hi, contents) /\ lv[p] = 0
      BY ONLY <2>2 DEF Landing
    <3>2. i \in 1 .. Len(H.page[p].ents) /\ H.page[p].ents[i].k = k
      <4>1. Exact(H.page[p], k)
        BY ONLY <2>2, <2>4
      <4>2. QED
        BY ONLY <2>2, <4>1, ExactIs
    <3>3. CASE Store(Dleaf(H, p, i), path, k, d)
      <4>1. IInv' /\ PutOld(H.cursor, p, i, k, d)
        BY ONLY <1>1, <1>5, <1>6, <1>10, <2>2, <3>1, <3>2, <3>3, Running, d \in Data, StoreOld
      <4>2. Spot(k, p, i)
        BY ONLY <1>2, <1>10, <2>2, <3>1, <3>2 DEF Spot
      <4>3. PutOld(t.cursor, p, i, k, d)
        BY ONLY <2>2, <4>1
      <4>4. PutAs(k, d)
        BY ONLY <4>2, <4>3 DEF PutAs
      <4>5. QED
        BY ONLY <4>1, <4>4
    <3>4. CASE t' = H /\ UNCHANGED <<meta, metadirty, modified, panic, contents, at, flaw>>
      <4>1. /\ t' = H /\ meta' = meta /\ metadirty' = metadirty /\ modified' = modified /\ panic' = panic
            /\ contents' = contents /\ at' = at /\ flaw' = flaw
        BY ONLY <3>4
      <4>2. Fine(H, contents, at)
        BY ONLY <3>1 DEF Fine
      <4>3. Fine(t', contents', at') /\ t'.memory = 0 /\ HintOK(t'.last, t'.page) /\ t'.npages = t.npages
        BY ONLY <1>1, <2>2, <4>1, <4>2
      <4>4. t.npages <= t'.npages
        BY ONLY <1>1, <4>3
      <4>5. /\ modified' \in BOOLEAN /\ panic' \in BOOLEAN /\ contents' \in [Key -> Data \cup {None}]
            /\ at' \in Key \cup {None} /\ flaw' \in {"none", "astray", "freelist", "cursor"}
        BY ONLY <1>1, <4>1, Zenon
      <4>6. IInv'
        BY ONLY <4>1, <4>3, <4>4, <4>5, Running, DataStep
      <4>7. at' = at /\ contents' = contents /\ SameMark(t.cursor, t'.cursor)
        BY ONLY <2>2, <4>1 DEF SameMark
      <4>8. QED
        BY ONLY <4>6, <4>7 DEF PutAs
    <3>5. QED
      BY ONLY <1>8, <1>10, <2>4, <3>3, <3>4
  <2>5. QED
    BY ONLY <2>3, <2>4
<1>11. QED
  BY ONLY <1>9, <1>10

\* __bt_put with R_CURSOR
LEMMA PutCursorStep ==
  ASSUME Running, NEW d \in Data, PutCursor(d)
  PROVE  IInv' /\ at \in Key /\ \E p, i : Spot(at, p, i) /\ PutOld(t.cursor, p, i, at, d)
<1>1. HintOK(t.last, t.page) /\ t.memory = 0
  BY NowIs
<1>2. PICK R, lv, lo, hi : Mid(t, R, lv, at) /\ Sound(t, R, lv, lo, hi, contents)
  BY NowIs
<1>3. PICK p : p = t.cursor.pgno
  OBVIOUS
<1>4. PICK i : i = t.cursor.index
  OBVIOUS
<1>5. PICK path : path = <<[pgno |-> p, index |-> i]>>
  OBVIOUS
<1>6. t.cursor.init /\ ~t.cursor.acquire /\ Store(Dleaf(t, p, i), path, at, d)
  BY ONLY <1>3, <1>4, <1>5, PutCursor(d) DEF PutCursor
<1>7. CursorOK(t.cursor, t.page, R, lv, at)
  BY ONLY <1>2 DEF Mid
<1>8. p \in R /\ lv[p] = 0 /\ i \in 1 .. Len(t.page[p].ents) /\ t.page[p].ents[i].k = at
  BY ONLY <1>3, <1>4, <1>6, <1>7 DEF CursorOK
<1>9. Last(path).pgno = p /\ Last(path).index = i
  BY ONLY <1>5 DEF Last
<1>10. IInv' /\ PutOld(t.cursor, p, i, at, d)
  BY ONLY <1>1, <1>2, <1>6, <1>8, <1>9, Running, d \in Data, StoreOld
<1>11. Spot(at, p, i)
  BY ONLY <1>2, <1>8 DEF Spot
<1>12. at \in Key
  <2>1. TreeOK(t.page, R, lv, lo, hi, P_INVALID)
    BY ONLY <1>2 DEF Sound
  <2>2. QED
    BY ONLY <1>8, <2>1, InTree
<1>13. QED
  BY ONLY <1>10, <1>11, <1>12

\* __bt_delete, of the record at the end of the path
EraseAs(k) == \E p, i : /\ Spot(k, p, i) /\ at' = at /\ contents' = [contents EXCEPT ![k] = None]
                       /\ LostMark(t.cursor, t'.cursor, p, i, k)

\* A delete by key or by cursor.
LEMMA EraseStep ==
  ASSUME Running, NEW R, NEW lv, NEW lo, NEW hi, NEW k, NEW path, NEW p, NEW i,
         EraseHere(t, R, lv, lo, hi, contents, at, k, path, p, i), Erase(path, i)
  PROVE  IInv' /\ EraseAs(k)
<1>1. /\ contents \in [Key -> Data \cup {None}] /\ HintOK(t.last, t.page) /\ t.memory = 0 /\ t.npages \in Nat
      /\ at \in Key \cup {None} /\ modified \in BOOLEAN /\ flaw = "none" /\ ~panic /\ panic \in BOOLEAN
  BY NowIs
<1>2. p = path[Len(path)].pgno /\ t.page[p].ents[i].k = k
  BY DEF EraseHere
<1>3. p = Last(path).pgno
  BY ONLY <1>2 DEF Last
<1>4. PICK W : W = ErasedTree(t, path, p, i)
  OBVIOUS
<1>5. Fine(W, [contents EXCEPT ![k] = None], at) /\ Same(t, W) /\ LostMark(t.cursor, W.cursor, p, i, k)
  BY ONLY <1>4, EraseHere(t, R, lv, lo, hi, contents, at, k, path, p, i), EraseIs
<1>6. /\ t' = W /\ contents' = [contents EXCEPT ![k] = None] /\ modified' = TRUE /\ panic' = panic /\ flaw' = flaw
      /\ meta' = meta /\ metadirty' = metadirty /\ at' = at
  BY ONLY <1>2, <1>3, <1>4, Erase(path, i) DEF Erase, ErasedTree
<1>7. W.npages = t.npages /\ W.memory = t.memory /\ HintOK(W.last, W.page)
  BY ONLY <1>1, <1>5 DEF Same
<1>8. Fine(t', contents', at') /\ t'.memory = 0 /\ HintOK(t'.last, t'.page) /\ t'.npages = t.npages
  BY ONLY <1>1, <1>5, <1>6, <1>7
<1>9. t.npages <= t'.npages
  BY ONLY <1>1, <1>8
<1>10. contents' \in [Key -> Data \cup {None}]
  <2>1. [contents EXCEPT ![k] = None] \in [Key -> Data \cup {None}]
    BY <1>1, NewContents
  <2>2. QED
    BY ONLY <1>6, <2>1
<1>11. /\ modified' \in BOOLEAN /\ panic' \in BOOLEAN
       /\ at' \in Key \cup {None} /\ flaw' \in {"none", "astray", "freelist", "cursor"} /\ modified'
  BY ONLY <1>1, <1>6, Zenon
<1>12. IInv'
  BY ONLY <1>6, <1>8, <1>9, <1>10, <1>11, Running, DataStep
<1>13. Spot(k, p, i)
  <2>1. Mid(t, R, lv, at) /\ Sound(t, R, lv, lo, hi, contents) /\ i \in 1 .. Len(t.page[p].ents)
    BY DEF EraseHere
  <2>2. p \in R /\ lv[p] = 0
    BY HereIs
  <2>3. QED
    BY ONLY <1>2, <2>1, <2>2 DEF Spot
<1>14. EraseAs(k)
  BY ONLY <1>5, <1>6, <1>13 DEF EraseAs
<1>15. QED
  BY ONLY <1>12, <1>14

LEMMA DelStep ==
  ASSUME Running, NEW k \in Key, Del(k)
  PROVE  IInv' /\ EraseAs(k)
<1>1. contents \in [Key -> Data \cup {None}]
  BY NowIs
<1>2. PICK R, lv, lo, hi : Mid(t, R, lv, at) /\ Sound(t, R, lv, lo, hi, contents)
  BY NowIs
<1>3. PICK path : path = Path(t, k)
  OBVIOUS
<1>4. PICK p : p = Last(path).pgno
  OBVIOUS
<1>5. PICK i : i = Last(path).index
  OBVIOUS
<1>6. Exact(t.page[p], k) /\ Erase(path, i)
  BY ONLY <1>3, <1>4, <1>5, Del(k) DEF Del
<1>7. TreeOK(t.page, R, lv, lo, hi, P_INVALID)
  BY ONLY <1>2 DEF Sound
<1>8. IsPath(t.page, R, lv, lo, hi, P_ROOT, k, path)
  <2>1. IsPath(t.page, R, lv, lo, hi, P_ROOT, k, Path(t, k))
    BY ONLY <1>7, k \in Key, PathIs
  <2>2. QED
    BY ONLY <1>3, <2>1
<1>9. p = path[Len(path)].pgno /\ i = path[Len(path)].index
  BY ONLY <1>4, <1>5 DEF Last
<1>10. p \in R /\ lv[p] = 0 /\ lo[p] <= k /\ k < hi[p] /\ i = Place(t.page[p], k)
  <2>1. lv[P_ROOT] \in Nat
    BY ONLY <1>7, RootAlone
  <2>2. Len(path) = lv[P_ROOT] + 1
    BY ONLY <1>8 DEF IsPath
  <2>3. Len(path) \in 1 .. Len(path) /\ Len(path) - Len(path) = 0
    BY ONLY <2>1, <2>2
  <2>4. QED
    BY ONLY <1>8, <1>9, <2>3 DEF IsPath
<1>11. Landing(t, R, lv, lo, hi, contents, at, k, p, i)
  <2>1. k \in Nat
    BY Numbers DEF Key
  <2>2. PICK page : page = t.page
    OBVIOUS
  <2>3. IsPlace(page[p].ents, k, Place(page[p], k))
    BY ONLY <1>7, <1>10, <2>1, <2>2, PlaceIs
  <2>4. IsPlace(t.page[p].ents, k, i)
    BY ONLY <1>10, <2>2, <2>3
  <2>5. QED
    BY ONLY <1>1, <1>2, <1>10, <2>4, k \in Key DEF Landing
<1>12. i \in 1 .. Len(t.page[p].ents) /\ t.page[p].ents[i].k = k
  BY ONLY <1>6, <1>11, ExactIs
<1>13. EraseHere(t, R, lv, lo, hi, contents, at, k, path, p, i)
  BY ONLY <1>1, <1>2, <1>8, <1>9, <1>12, k \in Key DEF EraseHere
<1>14. QED
  BY ONLY <1>6, <1>13, Running, EraseStep

\* The stack of the cursor's key ends at the cursor's page.
LEMMA DelCursorStep ==
  ASSUME Running, DelCursor
  PROVE  IInv' /\ at \in Key /\ EraseAs(at)
<1>1. contents \in [Key -> Data \cup {None}]
  BY NowIs
<1>2. PICK R, lv, lo, hi : Mid(t, R, lv, at) /\ Sound(t, R, lv, lo, hi, contents)
  BY NowIs
<1>3. PICK q : q = t.cursor.pgno
  OBVIOUS
<1>4. PICK i : i = t.cursor.index
  OBVIOUS
<1>5. PICK k : k = t.page[q].ents[i].k
  OBVIOUS
<1>6. PICK path : path = Path(t, k)
  BY ONLY TRUE
<1>7. t.cursor.init /\ ~t.cursor.acquire /\ Erase(path, i)
  BY ONLY <1>3, <1>4, <1>5, <1>6, DelCursor DEF DelCursor
<1>8. CursorOK(t.cursor, t.page, R, lv, at)
  BY ONLY <1>2 DEF Mid
<1>9. q \in R /\ lv[q] = 0 /\ i \in 1 .. Len(t.page[q].ents)
  BY ONLY <1>3, <1>4, <1>7, <1>8 DEF CursorOK
<1>10. TreeOK(t.page, R, lv, lo, hi, P_INVALID)
  BY ONLY <1>2 DEF Sound
<1>11. k \in Key /\ k \in Nat /\ lo[q] \in Nat /\ hi[q] \in Nat
  BY ONLY <1>5, <1>9, <1>10, InTree
<1>12. lo[q] <= k /\ k < hi[q]
  <2>1. Within(t.page, R, lv, lo, hi)
    BY ONLY <1>10 DEF TreeOK
  <2>2. QED
    BY ONLY <1>5, <1>9, <2>1 DEF Within
<1>13. IsPath(t.page, R, lv, lo, hi, P_ROOT, k, path)
  <2>1. IsPath(t.page, R, lv, lo, hi, P_ROOT, k, Path(t, k))
    BY ONLY <1>10, <1>11, PathIs
  <2>2. QED
    BY ONLY <1>6, <2>1
<1>14. PICK p : p = path[Len(path)].pgno
  OBVIOUS
<1>15. p \in R /\ lv[p] = 0 /\ lo[p] <= k /\ k < hi[p]
  <2>1. lv[P_ROOT] \in Nat
    BY ONLY <1>10, RootAlone
  <2>2. Len(path) = lv[P_ROOT] + 1
    BY ONLY <1>13 DEF IsPath
  <2>3. Len(path) \in 1 .. Len(path) /\ Len(path) - Len(path) = 0
    BY ONLY <2>1, <2>2
  <2>4. QED
    BY ONLY <1>13, <1>14, <2>3 DEF IsPath
<1>16. p = q
  <2>1. lo[p] \in Nat /\ hi[p] \in Nat
    BY ONLY <1>10, <1>15, InTree
  <2>2. Apart(R, lv, lo, hi)
    BY ONLY <1>10 DEF TreeOK
  <2>3. p # q => hi[p] <= lo[q] \/ hi[q] <= lo[p]
    BY ONLY <1>9, <1>15, <2>2 DEF Apart
  <2>4. QED
    BY ONLY <1>11, <1>12, <1>15, <2>1, <2>3
<1>17. EraseHere(t, R, lv, lo, hi, contents, at, k, path, p, i)
  BY ONLY <1>1, <1>2, <1>5, <1>9, <1>11, <1>13, <1>14, <1>16 DEF EraseHere
<1>18. IInv' /\ EraseAs(k)
  BY ONLY <1>7, <1>17, Running, EraseStep
<1>19. k = at
  BY ONLY <1>3, <1>4, <1>5, <1>7, <1>8 DEF CursorOK
<1>20. QED
  BY ONLY <1>11, <1>18, <1>19

-----------------------------------------------------------------------------
(* Scanning *)

\* A record of the tree.
IsRecord(page, R, lv, e) == e.pgno \in R /\ lv[e.pgno] = 0 /\ e.index \in 1 .. Len(page[e.pgno].ents)
KeyAt(page, e) == page[e.pgno].ents[e.index].k

\* e is the first record from key z on, or the last one below it.
FoundUp(page, R, lv, cont, z, e) ==
  \/ e = Nowhere /\ \A y \in Key : cont[y] # None => y < z
  \/ /\ e # Nowhere /\ IsRecord(page, R, lv, e) /\ KeyAt(page, e) >= z
     /\ \A y \in Key : cont[y] # None /\ y >= z => KeyAt(page, e) <= y
FoundDown(page, R, lv, cont, z, e) ==
  \/ e = Nowhere /\ \A y \in Key : cont[y] # None => y >= z
  \/ /\ e # Nowhere /\ IsRecord(page, R, lv, e) /\ KeyAt(page, e) < z
     /\ \A y \in Key : cont[y] # None /\ y < z => y <= KeyAt(page, e)

\* Where key y is: on the leaf with y in its interval.
LEMMA WhereIs ==
  ASSUME NEW page, NEW R, NEW lv, NEW lo, NEW hi, NEW cont, TreeOK(page, R, lv, lo, hi, P_INVALID),
         Held(page, R, lv, cont), NEW y \in Key, cont[y] # None
  PROVE  \E r \in R : /\ lv[r] = 0 /\ lo[r] <= y /\ y < hi[r] /\ lo[r] \in Nat /\ hi[r] \in Nat
                      /\ \E j \in 1 .. Len(page[r].ents) : page[r].ents[j].k = y
<1>1. PICK r \in R : lv[r] = 0 /\ \E j \in 1 .. Len(page[r].ents) : page[r].ents[j].k = y
  BY ONLY Held(page, R, lv, cont), y \in Key, cont[y] # None DEF Held
<1>2. PICK j \in 1 .. Len(page[r].ents) : page[r].ents[j].k = y
  BY ONLY <1>1
<1>3. Within(page, R, lv, lo, hi)
  BY ONLY TreeOK(page, R, lv, lo, hi, P_INVALID) DEF TreeOK
<1>4. lo[r] <= y /\ y < hi[r]
  BY ONLY <1>1, <1>2, <1>3 DEF Within
<1>5. lo[r] \in Nat /\ hi[r] \in Nat
  BY ONLY TreeOK(page, R, lv, lo, hi, P_INVALID), InTree
<1>6. QED
  BY ONLY <1>1, <1>2, <1>4, <1>5

\* The neighbours of a leaf have records.
LEMMA Neighbours ==
  ASSUME NEW page, NEW R, NEW lv, NEW lo, NEW hi, TreeOK(page, R, lv, lo, hi, P_INVALID), NEW p \in R, lv[p] = 0
  PROVE  /\ \/ page[p].next = P_INVALID /\ hi[p] = MaxKey + 1
            \/ /\ page[p].next # P_INVALID /\ page[p].next \in R /\ lv[page[p].next] = 0 /\ lo[page[p].next] = hi[p]
               /\ Len(page[page[p].next].ents) \in Nat /\ Len(page[page[p].next].ents) # 0
         /\ \/ page[p].prev = P_INVALID /\ lo[p] = 0
            \/ /\ page[p].prev # P_INVALID /\ page[p].prev \in R /\ lv[page[p].prev] = 0 /\ hi[page[p].prev] = lo[p]
               /\ Len(page[page[p].prev].ents) \in Nat /\ Len(page[page[p].prev].ents) # 0
<1>1. Linked(page, R, lv, lo, hi) /\ Filled(page, R, lv) /\ Spans(R, lv, lo, hi)
  BY ONLY TreeOK(page, R, lv, lo, hi, P_INVALID) DEF TreeOK
<1>2. \A q \in R : q # P_INVALID /\ lo[q] \in Nat /\ hi[q] \in Nat /\ lo[q] < hi[q] /\ Len(page[q].ents) \in Nat /\ lv[q] \in Nat
  BY ONLY TreeOK(page, R, lv, lo, hi, P_INVALID), InTree
<1>3. /\ \/ page[p].next = P_INVALID /\ hi[p] = MaxKey + 1
         \/ page[p].next \in R /\ lv[page[p].next] = lv[p] /\ lo[page[p].next] = hi[p]
      /\ \/ page[p].prev = P_INVALID /\ lo[p] = 0
         \/ page[p].prev \in R /\ lv[page[p].prev] = lv[p] /\ hi[page[p].prev] = lo[p]
  BY ONLY <1>1, p \in R DEF Linked
<1>4. ASSUME NEW q \in R, lv[q] = 0, lo[q] = hi[p] \/ hi[q] = lo[p] PROVE Len(page[q].ents) # 0
  <2>1. SUFFICES ASSUME Len(page[q].ents) = 0 PROVE FALSE
    OBVIOUS
  <2>2. q = P_ROOT
    BY ONLY <1>1, <1>4, <2>1 DEF Filled
  <2>3. p = P_ROOT
    <3>1. p # P_ROOT => lv[p] < lv[P_ROOT]
      BY ONLY <1>1, p \in R DEF Spans
    <3>2. QED
      BY ONLY <1>4, <2>2, <3>1, lv[p] = 0
  <2>4. lo[p] = hi[p]
    BY ONLY <1>4, <2>2, <2>3
  <2>5. lo[p] < hi[p] /\ lo[p] \in Nat /\ hi[p] \in Nat
    BY ONLY <1>2, p \in R
  <2>6. QED
    BY ONLY <2>4, <2>5
<1>5. QED
  BY ONLY <1>2, <1>3, <1>4, lv[p] = 0

\* Key z is on leaf p or at the beginning of the next one; i is its place.
PlacedAt(page, R, lv, lo, hi, cont, p, z, i) ==
  /\ TreeOK(page, R, lv, lo, hi, P_INVALID) /\ Held(page, R, lv, cont)
  /\ p \in R /\ lv[p] = 0 /\ z \in Nat /\ lo[p] <= z /\ z <= hi[p] /\ IsPlace(page[p].ents, z, i)

\* The next record is on the page, or the first of the page after it.
LEMMA AfterIs ==
  ASSUME NEW page, NEW R, NEW lv, NEW lo, NEW hi, NEW cont, NEW p, NEW z, NEW i,
         PlacedAt(page, R, lv, lo, hi, cont, p, z, i), NEW e,
         IF i = Len(page[p].ents) + 1
         THEN e = IF page[p].next = P_INVALID THEN Nowhere ELSE [pgno |-> page[p].next, index |-> 1]
         ELSE e = [pgno |-> p, index |-> i]
  PROVE  FoundUp(page, R, lv, cont, z, e)
<1>0. /\ TreeOK(page, R, lv, lo, hi, P_INVALID) /\ Held(page, R, lv, cont)
      /\ p \in R /\ lv[p] = 0 /\ z \in Nat /\ lo[p] <= z /\ z <= hi[p] /\ IsPlace(page[p].ents, z, i)
  BY DEF PlacedAt
<1>1. /\ \A q \in R : q # P_INVALID /\ lo[q] \in Nat /\ hi[q] \in Nat /\ lo[q] < hi[q] /\ Len(page[q].ents) \in Nat
      /\ \A q \in R : \A j \in 1 .. Len(page[q].ents) : page[q].ents[j].k \in Nat
  BY ONLY <1>0, InTree
<1>2. Ordered(page, R, lv) /\ Within(page, R, lv, lo, hi) /\ Apart(R, lv, lo, hi)
  BY ONLY <1>0 DEF TreeOK
<1>3. \A q \in R : lv[q] = 0 => \A j \in 1 .. Len(page[q].ents) : lo[q] <= page[q].ents[j].k /\ page[q].ents[j].k < hi[q]
  BY ONLY <1>2 DEF Within
<1>4. \A q \in R : lv[q] = 0 => \A a, b \in 1 .. Len(page[q].ents) : a < b => page[q].ents[a].k < page[q].ents[b].k
  BY ONLY <1>2 DEF Ordered
<1>5. PICK n : n = Len(page[p].ents)
  OBVIOUS
<1>6. n \in Nat /\ i \in 1 .. n + 1
  BY ONLY <1>0, <1>1, <1>5 DEF IsPlace
<1>7. \A j \in 1 .. n : (j < i => page[p].ents[j].k < z) /\ (j >= i => z <= page[p].ents[j].k)
  BY ONLY <1>0, <1>5 DEF IsPlace
<1>8. P_INVALID = 0 /\ MaxKey \in Nat /\ \A y \in Key : y \in Nat /\ y < MaxKey + 1
  BY Numbers DEF P_INVALID, Key
<1>9. CASE i # n + 1
  <2>1. e = [pgno |-> p, index |-> i] /\ i \in 1 .. n /\ i >= i
    BY <1>5, <1>6, <1>9
  <2>2. PICK x : x = page[p].ents[i].k
    OBVIOUS
  <2>3. x \in Nat /\ z <= x /\ x < hi[p] /\ KeyAt(page, e) = x
    BY ONLY <1>0, <1>1, <1>3, <1>5, <1>7, <2>1, <2>2 DEF KeyAt
  <2>4. IsRecord(page, R, lv, e) /\ e # Nowhere
    <3>1. e.pgno = p /\ e.index = i /\ p # 0
      BY ONLY <1>0, <1>1, <1>8, <2>1
    <3>2. e # Nowhere
      BY ONLY <3>1 DEF Nowhere
    <3>3. QED
      BY ONLY <1>0, <1>5, <2>1, <3>1, <3>2 DEF IsRecord
  <2>5. ASSUME NEW y \in Key, cont[y] # None, y >= z PROVE x <= y
    <3>1. PICK r \in R : /\ lv[r] = 0 /\ lo[r] <= y /\ y < hi[r] /\ lo[r] \in Nat /\ hi[r] \in Nat
                         /\ \E j \in 1 .. Len(page[r].ents) : page[r].ents[j].k = y
      BY ONLY <1>0, <2>5, WhereIs
    <3>2. CASE r = p
      <4>1. PICK j \in 1 .. n : page[p].ents[j].k = y
        BY ONLY <1>5, <3>1, <3>2
      <4>2. ~(j < i)
        BY ONLY <1>0, <1>7, <1>8, <2>5, <4>1
      <4>3. i = j \/ i < j
        BY ONLY <1>6, <4>1, <4>2
      <4>4. i < j => x < y
        BY ONLY <1>0, <1>4, <1>5, <2>1, <2>2, <4>1
      <4>5. QED
        BY ONLY <1>8, <2>2, <2>3, <2>5, <4>1, <4>3, <4>4
    <3>3. CASE r # p
      <4>1. hi[r] <= lo[p] \/ hi[p] <= lo[r]
        BY ONLY <1>0, <1>2, <3>1, <3>3 DEF Apart
      <4>2. lo[p] \in Nat /\ hi[p] \in Nat /\ y \in Nat
        BY ONLY <1>0, <1>1, <1>8
      <4>3. QED
        BY ONLY <1>0, <2>3, <2>5, <3>1, <4>1, <4>2
    <3>4. QED
      BY ONLY <3>2, <3>3
  <2>6. KeyAt(page, e) >= z
    BY ONLY <1>0, <2>3
  <2>7. QED
    BY ONLY <2>3, <2>4, <2>5, <2>6 DEF FoundUp
<1>10. CASE i = n + 1
  <2>1. e = IF page[p].next = P_INVALID THEN Nowhere ELSE [pgno |-> page[p].next, index |-> 1]
    BY <1>5, <1>10
  <2>2. ASSUME NEW y \in Key, cont[y] # None, y >= z
        PROVE  \E r \in R : /\ lv[r] = 0 /\ lo[r] <= y /\ y < hi[r] /\ hi[p] <= lo[r] /\ hi[p] <= y /\ y \in Nat
                            /\ \E j \in 1 .. Len(page[r].ents) : page[r].ents[j].k = y
    <3>1. PICK r \in R : /\ lv[r] = 0 /\ lo[r] <= y /\ y < hi[r] /\ lo[r] \in Nat /\ hi[r] \in Nat
                         /\ \E j \in 1 .. Len(page[r].ents) : page[r].ents[j].k = y
      BY ONLY <1>0, <2>2, WhereIs
    <3>2. r # p
      <4>1. SUFFICES ASSUME r = p PROVE FALSE
        OBVIOUS
      <4>2. PICK j \in 1 .. n : page[p].ents[j].k = y
        BY ONLY <1>5, <3>1, <4>1
      <4>3. j < i
        BY ONLY <1>6, <1>10, <4>2
      <4>4. QED
        BY ONLY <1>0, <1>7, <1>8, <2>2, <4>2, <4>3
    <3>3. hi[r] <= lo[p] \/ hi[p] <= lo[r]
      BY ONLY <1>0, <1>2, <3>1, <3>2 DEF Apart
    <3>4. lo[p] \in Nat /\ hi[p] \in Nat /\ y \in Nat
      BY ONLY <1>0, <1>1, <1>8, <2>2
    <3>5. hi[p] <= lo[r] /\ hi[p] <= y
      BY ONLY <1>0, <2>2, <3>1, <3>3, <3>4
    <3>6. QED
      BY ONLY <3>1, <3>4, <3>5
  <2>3. CASE page[p].next = P_INVALID
    <3>1. hi[p] = MaxKey + 1
      BY ONLY <1>0, <2>3, Neighbours
    <3>2. ASSUME NEW y \in Key, cont[y] # None PROVE y < z
      <4>1. SUFFICES ASSUME y >= z PROVE FALSE
        BY <1>0, <1>8, <3>2
      <4>2. hi[p] <= y
        BY ONLY <2>2, <3>2, <4>1
      <4>3. QED
        BY ONLY <1>8, <3>1, <3>2, <4>2
    <3>3. e = Nowhere
      BY ONLY <2>1, <2>3
    <3>4. QED
      BY ONLY <3>2, <3>3 DEF FoundUp
  <2>4. CASE page[p].next # P_INVALID
    <3>1. PICK q : q = page[p].next
      OBVIOUS
    <3>2. /\ q # P_INVALID /\ q \in R /\ lv[q] = 0 /\ lo[q] = hi[p]
          /\ Len(page[q].ents) \in Nat /\ Len(page[q].ents) # 0
      BY ONLY <1>0, <2>4, <3>1, Neighbours
    <3>3. e = [pgno |-> q, index |-> 1] /\ 1 \in 1 .. Len(page[q].ents)
      BY ONLY <2>1, <2>4, <3>1, <3>2
    <3>4. PICK x : x = page[q].ents[1].k
      OBVIOUS
    <3>5. x \in Nat /\ lo[q] <= x /\ x < hi[q] /\ KeyAt(page, e) = x /\ lo[q] \in Nat /\ hi[q] \in Nat
      BY ONLY <1>1, <1>3, <3>2, <3>3, <3>4 DEF KeyAt
    <3>6. IsRecord(page, R, lv, e) /\ e # Nowhere
      <4>1. e.pgno = q /\ e.index = 1 /\ q # 0
        BY ONLY <1>8, <3>2, <3>3
      <4>2. e # Nowhere
        BY ONLY <4>1 DEF Nowhere
      <4>3. QED
        BY ONLY <3>2, <3>3, <4>1, <4>2 DEF IsRecord
    <3>7. ASSUME NEW y \in Key, cont[y] # None, y >= z PROVE x <= y
      <4>1. PICK r \in R : /\ lv[r] = 0 /\ lo[r] <= y /\ y < hi[r] /\ hi[p] <= lo[r] /\ hi[p] <= y /\ y \in Nat
                           /\ \E j \in 1 .. Len(page[r].ents) : page[r].ents[j].k = y
        BY ONLY <2>2, <3>7
      <4>2. CASE r = q
        <5>1. PICK j \in 1 .. Len(page[q].ents) : page[q].ents[j].k = y
          BY ONLY <4>1, <4>2
        <5>2. j = 1 \/ 1 < j
          BY ONLY <3>2, <5>1
        <5>3. 1 < j => x < y
          BY ONLY <1>4, <3>2, <3>3, <3>4, <5>1
        <5>4. QED
          BY ONLY <3>4, <3>5, <4>1, <5>1, <5>2, <5>3
      <4>3. CASE r # q
        <5>1. hi[r] <= lo[q] \/ hi[q] <= lo[r]
          BY ONLY <1>2, <3>2, <4>1, <4>3 DEF Apart
        <5>2. lo[r] \in Nat /\ hi[r] \in Nat /\ lo[r] < hi[r]
          BY ONLY <1>1, <4>1
        <5>3. QED
          BY ONLY <3>2, <3>5, <4>1, <5>1, <5>2
      <4>4. QED
        BY ONLY <4>2, <4>3
    <3>8. KeyAt(page, e) >= z
      BY ONLY <1>0, <3>2, <3>5
    <3>9. QED
      BY ONLY <3>5, <3>6, <3>7, <3>8 DEF FoundUp
  <2>5. QED
    BY ONLY <2>3, <2>4
<1>11. QED
  BY ONLY <1>9, <1>10

\* The record before is on the page, or the last of the page before it.
LEMMA BeforeIs ==
  ASSUME NEW page, NEW R, NEW lv, NEW lo, NEW hi, NEW cont, NEW p, NEW z, NEW i,
         PlacedAt(page, R, lv, lo, hi, cont, p, z, i), NEW e,
         IF i = 1
         THEN e = IF page[p].prev = P_INVALID THEN Nowhere
                  ELSE [pgno |-> page[p].prev, index |-> Len(page[page[p].prev].ents)]
         ELSE e = [pgno |-> p, index |-> i - 1]
  PROVE  FoundDown(page, R, lv, cont, z, e)
<1>0. /\ TreeOK(page, R, lv, lo, hi, P_INVALID) /\ Held(page, R, lv, cont)
      /\ p \in R /\ lv[p] = 0 /\ z \in Nat /\ lo[p] <= z /\ z <= hi[p] /\ IsPlace(page[p].ents, z, i)
  BY DEF PlacedAt
<1>1. /\ \A q \in R : q # P_INVALID /\ lo[q] \in Nat /\ hi[q] \in Nat /\ lo[q] < hi[q] /\ Len(page[q].ents) \in Nat
      /\ \A q \in R : \A j \in 1 .. Len(page[q].ents) : page[q].ents[j].k \in Nat
  BY ONLY <1>0, InTree
<1>2. Ordered(page, R, lv) /\ Within(page, R, lv, lo, hi) /\ Apart(R, lv, lo, hi)
  BY ONLY <1>0 DEF TreeOK
<1>3. \A q \in R : lv[q] = 0 => \A j \in 1 .. Len(page[q].ents) : lo[q] <= page[q].ents[j].k /\ page[q].ents[j].k < hi[q]
  BY ONLY <1>2 DEF Within
<1>4. \A q \in R : lv[q] = 0 => \A a, b \in 1 .. Len(page[q].ents) : a < b => page[q].ents[a].k < page[q].ents[b].k
  BY ONLY <1>2 DEF Ordered
<1>5. PICK n : n = Len(page[p].ents)
  OBVIOUS
<1>6. n \in Nat /\ i \in 1 .. n + 1
  BY ONLY <1>0, <1>1, <1>5 DEF IsPlace
<1>7. \A j \in 1 .. n : (j < i => page[p].ents[j].k < z) /\ (j >= i => z <= page[p].ents[j].k)
  BY ONLY <1>0, <1>5 DEF IsPlace
<1>8. P_INVALID = 0 /\ MaxKey \in Nat /\ \A y \in Key : y \in Nat /\ y < MaxKey + 1
  BY Numbers DEF P_INVALID, Key
<1>9. CASE i # 1
  <2>1. e = [pgno |-> p, index |-> i - 1] /\ i - 1 \in 1 .. n /\ i - 1 < i
    BY <1>5, <1>6, <1>9
  <2>2. PICK x : x = page[p].ents[i - 1].k
    OBVIOUS
  <2>3. x \in Nat /\ x < z /\ lo[p] <= x /\ KeyAt(page, e) = x
    BY ONLY <1>0, <1>1, <1>3, <1>5, <1>7, <2>1, <2>2 DEF KeyAt
  <2>4. IsRecord(page, R, lv, e) /\ e # Nowhere
    <3>1. e.pgno = p /\ e.index = i - 1 /\ p # 0
      BY ONLY <1>0, <1>1, <1>8, <2>1
    <3>2. e # Nowhere
      BY ONLY <3>1 DEF Nowhere
    <3>3. QED
      BY ONLY <1>0, <1>5, <2>1, <3>1, <3>2 DEF IsRecord
  <2>5. ASSUME NEW y \in Key, cont[y] # None, y < z PROVE y <= x
    <3>1. PICK r \in R : /\ lv[r] = 0 /\ lo[r] <= y /\ y < hi[r] /\ lo[r] \in Nat /\ hi[r] \in Nat
                         /\ \E j \in 1 .. Len(page[r].ents) : page[r].ents[j].k = y
      BY ONLY <1>0, <2>5, WhereIs
    <3>2. CASE r = p
      <4>1. PICK j \in 1 .. n : page[p].ents[j].k = y
        BY ONLY <1>5, <3>1, <3>2
      <4>2. ~(j >= i)
        BY ONLY <1>0, <1>7, <1>8, <2>5, <4>1
      <4>3. j = i - 1 \/ j < i - 1
        BY ONLY <1>6, <4>1, <4>2
      <4>4. j < i - 1 => y < x
        BY ONLY <1>0, <1>4, <1>5, <2>1, <2>2, <4>1
      <4>5. QED
        BY ONLY <1>8, <2>2, <2>3, <2>5, <4>1, <4>3, <4>4
    <3>3. CASE r # p
      <4>1. hi[r] <= lo[p] \/ hi[p] <= lo[r]
        BY ONLY <1>0, <1>2, <3>1, <3>3 DEF Apart
      <4>2. lo[p] \in Nat /\ hi[p] \in Nat /\ y \in Nat
        BY ONLY <1>0, <1>1, <1>8
      <4>3. QED
        BY ONLY <1>0, <2>3, <2>5, <3>1, <4>1, <4>2
    <3>4. QED
      BY ONLY <3>2, <3>3
  <2>6. QED
    BY ONLY <2>3, <2>4, <2>5 DEF FoundDown
<1>10. CASE i = 1
  <2>1. e = IF page[p].prev = P_INVALID THEN Nowhere
            ELSE [pgno |-> page[p].prev, index |-> Len(page[page[p].prev].ents)]
    BY <1>10
  <2>2. ASSUME NEW y \in Key, cont[y] # None, y < z
        PROVE  \E r \in R : /\ lv[r] = 0 /\ lo[r] <= y /\ y < hi[r] /\ hi[r] <= lo[p] /\ y < lo[p] /\ y \in Nat
                            /\ \E j \in 1 .. Len(page[r].ents) : page[r].ents[j].k = y
    <3>1. PICK r \in R : /\ lv[r] = 0 /\ lo[r] <= y /\ y < hi[r] /\ lo[r] \in Nat /\ hi[r] \in Nat
                         /\ \E j \in 1 .. Len(page[r].ents) : page[r].ents[j].k = y
      BY ONLY <1>0, <2>2, WhereIs
    <3>2. r # p
      <4>1. SUFFICES ASSUME r = p PROVE FALSE
        OBVIOUS
      <4>2. PICK j \in 1 .. n : page[p].ents[j].k = y
        BY ONLY <1>5, <3>1, <4>1
      <4>3. j >= i
        BY ONLY <1>6, <1>10, <4>2
      <4>4. QED
        BY ONLY <1>0, <1>7, <1>8, <2>2, <4>2, <4>3
    <3>3. hi[r] <= lo[p] \/ hi[p] <= lo[r]
      BY ONLY <1>0, <1>2, <3>1, <3>2 DEF Apart
    <3>4. lo[p] \in Nat /\ hi[p] \in Nat /\ y \in Nat
      BY ONLY <1>0, <1>1, <1>8, <2>2
    <3>5. hi[r] <= lo[p] /\ y < lo[p]
      BY ONLY <1>0, <2>2, <3>1, <3>3, <3>4
    <3>6. QED
      BY ONLY <3>1, <3>4, <3>5
  <2>3. CASE page[p].prev = P_INVALID
    <3>1. lo[p] = 0
      BY ONLY <1>0, <2>3, Neighbours
    <3>2. ASSUME NEW y \in Key, cont[y] # None PROVE y >= z
      <4>1. SUFFICES ASSUME y < z PROVE FALSE
        BY <1>0, <1>8, <3>2
      <4>2. y < lo[p]
        BY ONLY <2>2, <3>2, <4>1
      <4>3. QED
        BY ONLY <1>8, <3>1, <3>2, <4>2
    <3>3. e = Nowhere
      BY ONLY <2>1, <2>3
    <3>4. QED
      BY ONLY <3>2, <3>3 DEF FoundDown
  <2>4. CASE page[p].prev # P_INVALID
    <3>1. PICK q : q = page[p].prev
      OBVIOUS
    <3>2. /\ q # P_INVALID /\ q \in R /\ lv[q] = 0 /\ hi[q] = lo[p]
          /\ Len(page[q].ents) \in Nat /\ Len(page[q].ents) # 0
      BY ONLY <1>0, <2>4, <3>1, Neighbours
    <3>3. PICK m : m = Len(page[q].ents)
      OBVIOUS
    <3>4. e = [pgno |-> q, index |-> m] /\ m \in 1 .. m /\ m \in 1 .. Len(page[q].ents)
      <4>1. m \in 1 .. m
        BY ONLY <3>2, <3>3
      <4>2. QED
        BY ONLY <2>1, <2>4, <3>1, <3>3, <4>1
    <3>5. PICK x : x = page[q].ents[m].k
      OBVIOUS
    <3>6. x \in Nat /\ lo[q] <= x /\ x < hi[q] /\ KeyAt(page, e) = x /\ lo[q] \in Nat /\ hi[q] \in Nat
      BY ONLY <1>1, <1>3, <3>2, <3>4, <3>5 DEF KeyAt
    <3>7. IsRecord(page, R, lv, e) /\ e # Nowhere
      <4>1. e.pgno = q /\ e.index = m /\ q # 0
        BY ONLY <1>8, <3>2, <3>4
      <4>2. e # Nowhere
        BY ONLY <4>1 DEF Nowhere
      <4>3. QED
        BY ONLY <3>2, <3>4, <4>1, <4>2 DEF IsRecord
    <3>8. ASSUME NEW y \in Key, cont[y] # None, y < z PROVE y <= x
      <4>1. PICK r \in R : /\ lv[r] = 0 /\ lo[r] <= y /\ y < hi[r] /\ hi[r] <= lo[p] /\ y < lo[p] /\ y \in Nat
                           /\ \E j \in 1 .. Len(page[r].ents) : page[r].ents[j].k = y
        BY ONLY <2>2, <3>8
      <4>2. CASE r = q
        <5>1. PICK j \in 1 .. Len(page[q].ents) : page[q].ents[j].k = y
          BY ONLY <4>1, <4>2
        <5>2. j = m \/ j < m
          BY ONLY <3>2, <3>3, <5>1
        <5>3. j < m => y < x
          BY ONLY <1>4, <3>2, <3>4, <3>5, <5>1
        <5>4. QED
          BY ONLY <3>5, <3>6, <4>1, <5>1, <5>2, <5>3
      <4>3. CASE r # q
        <5>1. hi[r] <= lo[q] \/ hi[q] <= lo[r]
          BY ONLY <1>2, <3>2, <4>1, <4>3 DEF Apart
        <5>2. lo[r] \in Nat /\ hi[r] \in Nat /\ lo[r] < hi[r]
          BY ONLY <1>1, <4>1
        <5>3. QED
          BY ONLY <3>2, <3>6, <4>1, <5>1, <5>2
      <4>4. QED
        BY ONLY <4>2, <4>3
    <3>9. KeyAt(page, e) < z
      <4>1. lo[p] \in Nat
        BY ONLY <1>0, <1>1
      <4>2. QED
        BY ONLY <1>0, <3>2, <3>6, <4>1
    <3>10. QED
      BY ONLY <3>6, <3>7, <3>8, <3>9 DEF FoundDown
  <2>5. QED
    BY ONLY <2>3, <2>4
<1>11. QED
  BY ONLY <1>9, <1>10

\* __bt_first
LEMMA FirstIs ==
  ASSUME NEW T, NEW R, NEW lv, NEW lo, NEW hi, NEW cont, Sound(T, R, lv, lo, hi, cont), NEW k \in Key
  PROVE  FoundUp(T.page, R, lv, cont, k, First(T, k))
<1>1. PICK page : page = T.page
  OBVIOUS
<1>2. TreeOK(page, R, lv, lo, hi, P_INVALID) /\ Held(page, R, lv, cont)
  BY <1>1 DEF Sound
<1>3. PICK path : path = Path(T, k)
  OBVIOUS
<1>4. IsPath(page, R, lv, lo, hi, P_ROOT, k, path)
  <2>1. TreeOK(T.page, R, lv, lo, hi, P_INVALID)
    BY ONLY <1>1, <1>2
  <2>2. IsPath(T.page, R, lv, lo, hi, P_ROOT, k, Path(T, k))
    BY ONLY <2>1, k \in Key, PathIs
  <2>3. QED
    BY ONLY <1>1, <1>3, <2>2
<1>5. PICK p, i : p = path[Len(path)].pgno /\ i = path[Len(path)].index
  OBVIOUS
<1>6. Len(path) \in Nat /\ Len(path) \in 1 .. Len(path) /\ Len(path) - Len(path) = 0 /\ path \in Stack
  <2>1. lv[P_ROOT] \in Nat
    BY ONLY <1>2, RootAlone
  <2>2. Len(path) = lv[P_ROOT] + 1 /\ path \in Stack
    BY ONLY <1>4 DEF IsPath
  <2>3. QED
    BY ONLY <2>1, <2>2
<1>7. p \in R /\ lv[p] = 0 /\ lo[p] <= k /\ k < hi[p] /\ i = Place(page[p], k)
  BY ONLY <1>4, <1>5, <1>6 DEF IsPath
<1>8. k \in Nat /\ lo[p] \in Nat /\ hi[p] \in Nat
  <2>1. k \in Nat
    BY Numbers DEF Key
  <2>2. lo[p] \in Nat /\ hi[p] \in Nat
    BY ONLY <1>2, <1>7, InTree
  <2>3. QED
    BY ONLY <2>1, <2>2
<1>9. IsPlace(page[p].ents, k, i)
  <2>1. IsPlace(page[p].ents, k, Place(page[p], k))
    BY ONLY <1>2, <1>7, <1>8, PlaceIs
  <2>2. QED
    BY ONLY <1>7, <2>1
<1>10. k <= hi[p]
  BY ONLY <1>7, <1>8
<1>11. PlacedAt(page, R, lv, lo, hi, cont, p, k, i)
  BY ONLY <1>2, <1>7, <1>8, <1>9, <1>10 DEF PlacedAt
<1>12. PICK e : e = First(T, k)
  OBVIOUS
<1>13. path[Len(path)] = [pgno |-> p, index |-> i]
  <2>1. path[Len(path)] \in [pgno : PageNo, index : Nat]
    <3>1. PICK S : S = [pgno : PageNo, index : Nat]
      OBVIOUS
    <3>2. path \in Seq(S)
      BY ONLY <1>6, <3>1 DEF Stack
    <3>3. path[Len(path)] \in S
      BY ONLY <1>6, <3>2, SeqFacts
    <3>4. QED
      BY ONLY <3>1, <3>3
  <2>2. QED
    BY ONLY <1>5, <2>1
<1>14. IF i = Len(page[p].ents) + 1
       THEN e = IF page[p].next = P_INVALID THEN Nowhere ELSE [pgno |-> page[p].next, index |-> 1]
       ELSE e = [pgno |-> p, index |-> i]
  BY ONLY <1>1, <1>3, <1>5, <1>12, <1>13 DEF First, Following, Last
<1>15. FoundUp(page, R, lv, cont, k, e)
  BY ONLY <1>11, <1>14, AfterIs
<1>16. QED
  BY ONLY <1>1, <1>12, <1>15

\* A leaf without records is alone.
LEMMA LoneLeaf ==
  ASSUME NEW page, NEW R, NEW lv, NEW lo, NEW hi, TreeOK(page, R, lv, lo, hi, P_INVALID),
         NEW p, p \in R, lv[p] = 0, Len(page[p].ents) = 0
  PROVE  page[p].next = P_INVALID /\ page[p].prev = P_INVALID
<1>1. Filled(page, R, lv)
  BY ONLY TreeOK(page, R, lv, lo, hi, P_INVALID) DEF TreeOK
<1>2. p = P_ROOT
  BY ONLY <1>1, p \in R, Len(page[p].ents) = 0 DEF Filled
<1>3. page[P_ROOT].prev = P_INVALID /\ page[P_ROOT].next = P_INVALID
  BY ONLY TreeOK(page, R, lv, lo, hi, P_INVALID), RootAlone
<1>4. QED
  BY ONLY <1>2, <1>3

\* __bt_seqset with R_FIRST
LEMMA EdgeFirst ==
  ASSUME NEW T, NEW R, NEW lv, NEW lo, NEW hi, NEW cont, Sound(T, R, lv, lo, hi, cont)
  PROVE  FoundUp(T.page, R, lv, cont, 0, Edge(T, FALSE))
<1>0. TreeOK(T.page, R, lv, lo, hi, P_INVALID)
  BY DEF Sound
<1>1. TreeOK(T.page, R, lv, lo, hi, P_INVALID) /\ Held(T.page, R, lv, cont)
  BY DEF Sound
<1>2. PICK right : right = FALSE
  OBVIOUS
<1>3. right \in BOOLEAN
  BY <1>2
<1>4. PICK p \in R : /\ lv[p] = 0
                     /\ right => hi[p] = MaxKey + 1
                     /\ ~right => lo[p] = 0
                     /\ Edge(T, right) = IF Len(T.page[p].ents) = 0 THEN Nowhere
                                         ELSE [pgno |-> p, index |-> Side(T.page[p], right)]
  <2>1. AtEdge(T, R, lv, lo, hi, right)
    BY ONLY <1>0, <1>3, EdgeIs
  <2>2. QED
    BY ONLY <2>1 DEF AtEdge
<1>5. PICK page : page = T.page
  OBVIOUS
<1>6. PICK e : e = Edge(T, FALSE)
  OBVIOUS
<1>7. lo[p] = 0 /\ e = IF Len(page[p].ents) = 0 THEN Nowhere ELSE [pgno |-> p, index |-> 1]
  <2>1. ~right
    BY <1>2
  <2>2. e = Edge(T, right)
    BY ONLY <1>2, <1>6
  <2>3. QED
    BY ONLY <1>4, <1>5, <2>1, <2>2 DEF Side
<1>8. TreeOK(page, R, lv, lo, hi, P_INVALID) /\ Held(page, R, lv, cont)
  BY ONLY <1>1, <1>5
<1>9. Len(page[p].ents) \in Nat /\ hi[p] \in Nat /\ \A j \in 1 .. Len(page[p].ents) : page[p].ents[j].k \in Nat
  BY ONLY <1>8, InTree
<1>10. IsPlace(page[p].ents, 0, 1)
  BY ONLY <1>9 DEF IsPlace
<1>11. PlacedAt(page, R, lv, lo, hi, cont, p, 0, 1)
  BY ONLY <1>4, <1>7, <1>8, <1>9, <1>10 DEF PlacedAt
<1>12. IF 1 = Len(page[p].ents) + 1
       THEN e = IF page[p].next = P_INVALID THEN Nowhere ELSE [pgno |-> page[p].next, index |-> 1]
       ELSE e = [pgno |-> p, index |-> 1]
  <2>1. CASE Len(page[p].ents) = 0
    <3>1. page[p].next = P_INVALID
      <4>1. p \in R /\ lv[p] = 0
        BY ONLY <1>4
      <4>2. QED
        BY ONLY <1>8, <2>1, <4>1, LoneLeaf
    <3>2. QED
      BY ONLY <1>7, <2>1, <3>1
  <2>2. CASE Len(page[p].ents) # 0
    <3>1. 1 # Len(page[p].ents) + 1
      BY ONLY <1>9, <2>2
    <3>2. QED
      BY ONLY <1>7, <2>2, <3>1
  <2>3. QED
    BY ONLY <2>1, <2>2
<1>13. FoundUp(page, R, lv, cont, 0, e)
  BY ONLY <1>11, <1>12, AfterIs
<1>14. QED
  BY ONLY <1>5, <1>6, <1>13

\* __bt_seqset with R_LAST
LEMMA EdgeLast ==
  ASSUME NEW T, NEW R, NEW lv, NEW lo, NEW hi, NEW cont, Sound(T, R, lv, lo, hi, cont)
  PROVE  FoundDown(T.page, R, lv, cont, MaxKey + 1, Edge(T, TRUE))
<1>0. TreeOK(T.page, R, lv, lo, hi, P_INVALID)
  BY DEF Sound
<1>1. TreeOK(T.page, R, lv, lo, hi, P_INVALID) /\ Held(T.page, R, lv, cont)
  BY DEF Sound
<1>2. PICK right : right = TRUE
  OBVIOUS
<1>3. right \in BOOLEAN
  BY <1>2
<1>4. PICK p \in R : /\ lv[p] = 0
                     /\ right => hi[p] = MaxKey + 1
                     /\ ~right => lo[p] = 0
                     /\ Edge(T, right) = IF Len(T.page[p].ents) = 0 THEN Nowhere
                                         ELSE [pgno |-> p, index |-> Side(T.page[p], right)]
  <2>1. AtEdge(T, R, lv, lo, hi, right)
    BY ONLY <1>0, <1>3, EdgeIs
  <2>2. QED
    BY ONLY <2>1 DEF AtEdge
<1>5. PICK page : page = T.page
  OBVIOUS
<1>6. PICK e : e = Edge(T, TRUE)
  OBVIOUS
<1>7. hi[p] = MaxKey + 1 /\ e = IF Len(page[p].ents) = 0 THEN Nowhere ELSE [pgno |-> p, index |-> Len(page[p].ents)]
  <2>1. right
    BY <1>2
  <2>2. e = Edge(T, right)
    BY ONLY <1>2, <1>6
  <2>3. QED
    BY ONLY <1>4, <1>5, <2>1, <2>2 DEF Side
<1>8. TreeOK(page, R, lv, lo, hi, P_INVALID) /\ Held(page, R, lv, cont)
  BY ONLY <1>1, <1>5
<1>9. /\ Len(page[p].ents) \in Nat /\ lo[p] \in Nat /\ hi[p] \in Nat /\ lo[p] < hi[p]
      /\ \A j \in 1 .. Len(page[p].ents) : page[p].ents[j].k \in Nat
  BY ONLY <1>8, InTree
<1>10. PICK z, n : z = MaxKey + 1 /\ n = Len(page[p].ents)
  OBVIOUS
<1>11. IsPlace(page[p].ents, z, n + 1)
  <2>1. \A j \in 1 .. Len(page[p].ents) : page[p].ents[j].k < z
    <3>1. Within(page, R, lv, lo, hi)
      BY ONLY <1>8 DEF TreeOK
    <3>2. QED
      BY ONLY <1>4, <1>7, <1>10, <3>1 DEF Within
  <2>2. \A j \in 1 .. n : ~(j >= n + 1)
    BY ONLY <1>9, <1>10
  <2>3. n + 1 \in 1 .. n + 1
    BY ONLY <1>9, <1>10
  <2>4. QED
    BY ONLY <1>10, <2>1, <2>2, <2>3 DEF IsPlace
<1>12. PlacedAt(page, R, lv, lo, hi, cont, p, z, n + 1)
  <2>1. z \in Nat /\ lo[p] <= z /\ z <= hi[p]
    BY ONLY <1>7, <1>9, <1>10
  <2>2. QED
    BY ONLY <1>4, <1>8, <1>11, <2>1 DEF PlacedAt
<1>13. IF n + 1 = 1
       THEN e = IF page[p].prev = P_INVALID THEN Nowhere
                ELSE [pgno |-> page[p].prev, index |-> Len(page[page[p].prev].ents)]
       ELSE e = [pgno |-> p, index |-> (n + 1) - 1]
  <2>1. CASE n = 0
    <3>1. page[p].prev = P_INVALID
      <4>1. p \in R /\ lv[p] = 0 /\ Len(page[p].ents) = 0
        BY ONLY <1>4, <1>10, <2>1
      <4>2. QED
        BY ONLY <1>8, <4>1, LoneLeaf
    <3>2. QED
      BY ONLY <1>7, <1>10, <2>1, <3>1
  <2>2. CASE n # 0
    <3>1. n + 1 # 1 /\ (n + 1) - 1 = n
      BY ONLY <1>9, <1>10, <2>2
    <3>2. QED
      BY ONLY <1>7, <1>10, <2>2, <3>1
  <2>3. QED
    BY ONLY <2>1, <2>2
<1>14. FoundDown(page, R, lv, cont, z, e)
  <2>1. PICK i : i = n + 1
    OBVIOUS
  <2>2. PlacedAt(page, R, lv, lo, hi, cont, p, z, i)
    BY ONLY <1>12, <2>1
  <2>3. IF i = 1
        THEN e = IF page[p].prev = P_INVALID THEN Nowhere
                 ELSE [pgno |-> page[p].prev, index |-> Len(page[page[p].prev].ents)]
        ELSE e = [pgno |-> p, index |-> i - 1]
    BY ONLY <1>13, <2>1
  <2>4. QED
    BY ONLY <2>2, <2>3, BeforeIs
<1>15. QED
  BY ONLY <1>5, <1>6, <1>10, <1>14

\* The cursor is on a record.
OnRecord(T, R, lv, lo, hi, cont, key) ==
  /\ Sound(T, R, lv, lo, hi, cont) /\ CursorOK(T.cursor, T.page, R, lv, key)
  /\ T.cursor.init /\ ~T.cursor.acquire

LEMMA CursorPlace ==
  ASSUME NEW T, NEW R, NEW lv, NEW lo, NEW hi, NEW cont, NEW key, OnRecord(T, R, lv, lo, hi, cont, key)
  PROVE  /\ key \in Key /\ key \in Nat /\ T.cursor.index \in Nat /\ Len(T.page[T.cursor.pgno].ents) \in Nat
         /\ PlacedAt(T.page, R, lv, lo, hi, cont, T.cursor.pgno, key, T.cursor.index)
         /\ PlacedAt(T.page, R, lv, lo, hi, cont, T.cursor.pgno, key + 1, T.cursor.index + 1)
<1>0. PICK page : page = T.page
  OBVIOUS
<1>1. /\ TreeOK(page, R, lv, lo, hi, P_INVALID) /\ Held(page, R, lv, cont)
      /\ CursorOK(T.cursor, page, R, lv, key) /\ T.cursor.init /\ ~T.cursor.acquire
  BY <1>0 DEF OnRecord, Sound
<1>2. PICK p, i : p = T.cursor.pgno /\ i = T.cursor.index
  OBVIOUS
<1>3. p \in R /\ lv[p] = 0 /\ i \in 1 .. Len(page[p].ents) /\ page[p].ents[i].k = key
  BY ONLY <1>1, <1>2 DEF CursorOK
<1>4. TreeOK(page, R, lv, lo, hi, P_INVALID)
  BY ONLY <1>1
<1>5. /\ lo[p] \in Nat /\ hi[p] \in Nat /\ Len(page[p].ents) \in Nat
      /\ \A j \in 1 .. Len(page[p].ents) : page[p].ents[j].k \in Nat
  BY ONLY <1>3, <1>4, InTree
<1>6. key \in Key /\ key \in Nat
  BY ONLY <1>3, <1>4, InTree
<1>7. lo[p] <= key /\ key < hi[p]
  <2>1. Within(page, R, lv, lo, hi)
    BY ONLY <1>4 DEF TreeOK
  <2>2. QED
    BY ONLY <1>3, <2>1 DEF Within
<1>8. \A a, b \in 1 .. Len(page[p].ents) : a < b => page[p].ents[a].k < page[p].ents[b].k
  <2>1. Ordered(page, R, lv)
    BY ONLY <1>4 DEF TreeOK
  <2>2. QED
    BY ONLY <1>3, <2>1 DEF Ordered
<1>9. i \in Nat /\ i \in 1 .. Len(page[p].ents) + 1 /\ i + 1 \in 1 .. Len(page[p].ents) + 1
  BY ONLY <1>3, <1>5
<1>10. IsPlace(page[p].ents, key, i)
  <2>1. \A j \in 1 .. Len(page[p].ents) : j < i => page[p].ents[j].k < key
    BY ONLY <1>3, <1>8
  <2>2. \A j \in 1 .. Len(page[p].ents) : j >= i => key <= page[p].ents[j].k
    <3>1. SUFFICES ASSUME NEW j \in 1 .. Len(page[p].ents), j >= i PROVE key <= page[p].ents[j].k
      OBVIOUS
    <3>2. j = i \/ i < j
      BY ONLY <1>9, <3>1, <1>5
    <3>3. page[p].ents[j].k \in Nat /\ (i < j => key < page[p].ents[j].k)
      BY ONLY <1>3, <1>5, <1>8
    <3>4. QED
      BY ONLY <1>3, <1>6, <3>2, <3>3
  <2>3. QED
    BY ONLY <1>9, <2>1, <2>2 DEF IsPlace
<1>11. IsPlace(page[p].ents, key + 1, i + 1)
  <2>1. \A j \in 1 .. Len(page[p].ents) : j < i + 1 => page[p].ents[j].k < key + 1
    <3>1. SUFFICES ASSUME NEW j \in 1 .. Len(page[p].ents), j < i + 1 PROVE page[p].ents[j].k < key + 1
      OBVIOUS
    <3>2. j = i \/ j < i
      BY ONLY <1>9, <3>1, <1>5
    <3>3. page[p].ents[j].k \in Nat /\ (j < i => page[p].ents[j].k < key)
      BY ONLY <1>3, <1>5, <1>8
    <3>4. QED
      BY ONLY <1>3, <1>6, <3>2, <3>3
  <2>2. \A j \in 1 .. Len(page[p].ents) : j >= i + 1 => key + 1 <= page[p].ents[j].k
    <3>1. SUFFICES ASSUME NEW j \in 1 .. Len(page[p].ents), j >= i + 1 PROVE key + 1 <= page[p].ents[j].k
      OBVIOUS
    <3>2. i < j
      BY ONLY <1>9, <3>1, <1>5
    <3>3. page[p].ents[j].k \in Nat /\ key < page[p].ents[j].k
      BY ONLY <1>3, <1>5, <1>8, <3>2
    <3>4. QED
      BY ONLY <1>6, <3>3
  <2>3. QED
    BY ONLY <1>9, <2>1, <2>2 DEF IsPlace
<1>12. PlacedAt(page, R, lv, lo, hi, cont, p, key, i)
  <2>1. key <= hi[p]
    BY ONLY <1>5, <1>6, <1>7
  <2>2. QED
    BY ONLY <1>1, <1>3, <1>6, <1>7, <1>10, <2>1 DEF PlacedAt
<1>13. PlacedAt(page, R, lv, lo, hi, cont, p, key + 1, i + 1)
  <2>1. key + 1 \in Nat /\ lo[p] <= key + 1 /\ key + 1 <= hi[p]
    BY ONLY <1>5, <1>6, <1>7
  <2>2. QED
    BY ONLY <1>1, <1>3, <1>11, <2>1 DEF PlacedAt
<1>14. QED
  BY ONLY <1>0, <1>2, <1>5, <1>6, <1>9, <1>12, <1>13

\* __bt_seqadv from a record
LEMMA NextIs ==
  ASSUME NEW T, NEW R, NEW lv, NEW lo, NEW hi, NEW cont, NEW key, OnRecord(T, R, lv, lo, hi, cont, key)
  PROVE  FoundUp(T.page, R, lv, cont, key + 1, Step(T, TRUE))
<1>1. PICK p, i : p = T.cursor.pgno /\ i = T.cursor.index + 1
  OBVIOUS
<1>2. PICK page : page = T.page
  OBVIOUS
<1>3. PICK e : e = Step(T, TRUE)
  OBVIOUS
<1>4. PlacedAt(page, R, lv, lo, hi, cont, p, key + 1, i)
  BY <1>1, <1>2, CursorPlace
<1>5. T.cursor.init /\ ~T.cursor.acquire
  BY DEF OnRecord
<1>6. IF i = Len(page[p].ents) + 1
      THEN e = IF page[p].next = P_INVALID THEN Nowhere ELSE [pgno |-> page[p].next, index |-> 1]
      ELSE e = [pgno |-> p, index |-> i]
  BY ONLY <1>1, <1>2, <1>3, <1>5 DEF Step, Following
<1>7. PICK z : z = key + 1
  OBVIOUS
<1>8. FoundUp(page, R, lv, cont, z, e)
  BY ONLY <1>4, <1>6, <1>7, AfterIs
<1>9. QED
  BY ONLY <1>2, <1>3, <1>7, <1>8

LEMMA PrevIs ==
  ASSUME NEW T, NEW R, NEW lv, NEW lo, NEW hi, NEW cont, NEW key, OnRecord(T, R, lv, lo, hi, cont, key)
  PROVE  FoundDown(T.page, R, lv, cont, key, Step(T, FALSE))
<1>1. PICK p, i : p = T.cursor.pgno /\ i = T.cursor.index
  OBVIOUS
<1>2. PICK page : page = T.page
  OBVIOUS
<1>3. PICK e : e = Step(T, FALSE)
  OBVIOUS
<1>4. PlacedAt(page, R, lv, lo, hi, cont, p, key, i)
  BY <1>1, <1>2, CursorPlace
<1>5. T.cursor.init /\ ~T.cursor.acquire
  BY DEF OnRecord
<1>6. IF i = 1
      THEN e = IF page[p].prev = P_INVALID THEN Nowhere
               ELSE [pgno |-> page[p].prev, index |-> Len(page[page[p].prev].ents)]
      ELSE e = [pgno |-> p, index |-> i - 1]
  BY ONLY <1>1, <1>2, <1>3, <1>5 DEF Step, Preceding
<1>7. FoundDown(page, R, lv, cont, key, e)
  BY ONLY <1>4, <1>6, BeforeIs
<1>8. QED
  BY ONLY <1>2, <1>3, <1>7

\* The three cases of __bt_seqset and __bt_seqadv.
StepsTo(T, R, lv, cont, key, forward) ==
  LET e == Step(T, forward) IN
  IF ~T.cursor.init
  THEN IF forward THEN FoundUp(T.page, R, lv, cont, 0, e) ELSE FoundDown(T.page, R, lv, cont, MaxKey + 1, e)
  ELSE IF T.cursor.acquire THEN FoundUp(T.page, R, lv, cont, T.cursor.key, e)
  ELSE IF forward THEN FoundUp(T.page, R, lv, cont, key + 1, e) ELSE FoundDown(T.page, R, lv, cont, key, e)

LEMMA StepIs ==
  ASSUME NEW T, NEW R, NEW lv, NEW lo, NEW hi, NEW cont, NEW key, Sound(T, R, lv, lo, hi, cont),
         CursorOK(T.cursor, T.page, R, lv, key), NEW forward \in BOOLEAN
  PROVE  StepsTo(T, R, lv, cont, key, forward)
<1>1. CASE ~T.cursor.init
  <2>1. CASE forward
    <3>1. Step(T, forward) = Edge(T, FALSE)
      BY <1>1, <2>1 DEF Step
    <3>2. FoundUp(T.page, R, lv, cont, 0, Edge(T, FALSE))
      BY EdgeFirst
    <3>3. QED
      BY ONLY <1>1, <2>1, <3>1, <3>2 DEF StepsTo
  <2>2. CASE ~forward
    <3>1. Step(T, forward) = Edge(T, TRUE)
      BY <1>1, <2>2 DEF Step
    <3>2. FoundDown(T.page, R, lv, cont, MaxKey + 1, Edge(T, TRUE))
      BY EdgeLast
    <3>3. QED
      BY ONLY <1>1, <2>2, <3>1, <3>2 DEF StepsTo
  <2>3. QED
    BY ONLY <2>1, <2>2
<1>2. CASE T.cursor.init /\ T.cursor.acquire
  <2>1. PICK k : k = T.cursor.key
    OBVIOUS
  <2>2. k \in Key
    BY ONLY <1>2, <2>1, CursorOK(T.cursor, T.page, R, lv, key) DEF CursorOK
  <2>3. Step(T, forward) = First(T, k)
    BY ONLY <1>2, <2>1 DEF Step
  <2>4. FoundUp(T.page, R, lv, cont, k, First(T, k))
    BY ONLY <2>2, Sound(T, R, lv, lo, hi, cont), FirstIs
  <2>5. QED
    BY ONLY <1>2, <2>1, <2>3, <2>4 DEF StepsTo
<1>3. CASE T.cursor.init /\ ~T.cursor.acquire
  <2>1. OnRecord(T, R, lv, lo, hi, cont, key)
    BY <1>3 DEF OnRecord
  <2>2. CASE forward
    <3>1. Step(T, forward) = Step(T, TRUE)
      BY <2>2
    <3>2. FoundUp(T.page, R, lv, cont, key + 1, Step(T, TRUE))
      BY <2>1, NextIs
    <3>3. QED
      BY ONLY <1>3, <2>2, <3>1, <3>2 DEF StepsTo
  <2>3. CASE ~forward
    <3>1. Step(T, forward) = Step(T, FALSE)
      BY <2>3
    <3>2. FoundDown(T.page, R, lv, cont, key, Step(T, FALSE))
      BY <2>1, PrevIs
    <3>3. QED
      BY ONLY <1>3, <2>3, <3>1, <3>2 DEF StepsTo
  <2>4. QED
    BY ONLY <2>2, <2>3
<1>4. QED
  BY ONLY <1>1, <1>2, <1>3

FoundIs(R, lv, e) == e # Nowhere => IsRecord(t.page, R, lv, e)

LEMMA SeqStep ==
  ASSUME Running, NEW R, NEW lv, NEW lo, NEW hi, Mid(t, R, lv, at), Sound(t, R, lv, lo, hi, contents),
         NEW e, FoundIs(R, lv, e), SeqTo(e)
  PROVE  IInv'
<1>1. /\ contents \in [Key -> Data \cup {None}] /\ HintOK(t.last, t.page) /\ t.memory = 0 /\ t.npages \in Nat
      /\ at \in Key \cup {None} /\ modified \in BOOLEAN /\ flaw = "none" /\ ~panic /\ panic \in BOOLEAN
  BY NowIs
<1>2. PICK p, i : p = e.pgno /\ i = e.index
  OBVIOUS
<1>3. PICK c : c = [init |-> TRUE, acquire |-> FALSE, key |-> None, pgno |-> p, index |-> i]
  OBVIOUS
<1>4. PICK k : k = t.page[p].ents[i].k
  OBVIOUS
<1>5. e # Nowhere /\ t' = [t EXCEPT !.cursor = c] /\ at' = k
  BY ONLY <1>2, <1>3, <1>4, SeqTo(e) DEF SeqTo
<1>6. meta' = meta /\ metadirty' = metadirty /\ modified' = modified /\ panic' = panic /\ contents' = contents /\ flaw' = flaw
  BY ONLY SeqTo(e) DEF SeqTo
<1>7. p \in R /\ lv[p] = 0 /\ i \in 1 .. Len(t.page[p].ents)
  BY ONLY <1>2, <1>5, FoundIs(R, lv, e) DEF FoundIs, IsRecord
<1>8. TreeOK(t.page, R, lv, lo, hi, P_INVALID)
  BY ONLY Sound(t, R, lv, lo, hi, contents) DEF Sound
<1>9. k \in Key /\ p \in PageNo /\ Len(t.page[p].ents) \in Nat
  BY ONLY <1>4, <1>7, <1>8, InTree
<1>10. i \in Nat
  BY ONLY <1>7, <1>9
<1>11. c.init /\ ~c.acquire /\ c.pgno = p /\ c.index = i /\ c.key = None
  BY ONLY <1>3
<1>12. c \in Cursor
  <2>1. p \in 0 .. MaxPages - 1
    BY <1>9, Numbers DEF PageNo
  <2>2. QED
    BY ONLY <1>3, <1>10, <2>1, Zenon DEF Cursor
<1>13. t \in TreeM
  BY ONLY Mid(t, R, lv, at) DEF Mid
<1>14. /\ t'.page = t.page /\ t'.npages = t.npages /\ t'.free = t.free /\ t'.memory = t.memory
       /\ t'.cursor = c /\ t'.last = t.last /\ t' \in TreeM
  <2>1. t' = [t EXCEPT !.cursor = c]
    BY ONLY <1>5
  <2>2. QED
    BY ONLY <1>12, <1>13, <2>1 DEF TreeM
<1>15. Mid(t', R, lv, k)
  <2>1. \E fl, n : FreeOK(t'.page, t'.free, t'.npages, R, fl, n)
    BY ONLY <1>14, Mid(t, R, lv, at) DEF Mid
  <2>2. CursorOK(c, t.page, R, lv, k)
    BY ONLY <1>4, <1>7, <1>11 DEF CursorOK
  <2>3. CursorOK(t'.cursor, t'.page, R, lv, k)
    BY ONLY <1>14, <2>2
  <2>4. QED
    BY ONLY <1>14, <2>1, <2>3 DEF Mid
<1>16. Sound(t', R, lv, lo, hi, contents)
  BY ONLY <1>14, Sound(t, R, lv, lo, hi, contents) DEF Sound
<1>17. Fine(t', contents, k)
  BY ONLY <1>15, <1>16 DEF Fine
<1>18. Fine(t', contents', at')
  BY ONLY <1>5, <1>6, <1>17
<1>19. t'.memory = 0 /\ HintOK(t'.last, t'.page) /\ t.npages <= t'.npages
  BY ONLY <1>1, <1>14
<1>20. /\ modified' \in BOOLEAN /\ panic' \in BOOLEAN /\ contents' \in [Key -> Data \cup {None}]
       /\ at' \in Key \cup {None} /\ flaw' \in {"none", "astray", "freelist", "cursor"}
  BY ONLY <1>1, <1>5, <1>6, <1>9, Zenon
<1>21. QED
  BY ONLY <1>6, <1>18, <1>19, <1>20, Running, DataStep

LEMMA FoundAny ==
  ASSUME NEW R, NEW lv, NEW z, NEW e,
         FoundUp(t.page, R, lv, contents, z, e) \/ FoundDown(t.page, R, lv, contents, z, e)
  PROVE  FoundIs(R, lv, e)
BY DEF FoundUp, FoundDown, FoundIs

LEMMA SeqSteps ==
  ASSUME Running, SeqFirst \/ SeqLast \/ SeqNext \/ SeqPrev \/ \E k \in Key : SeqCursor(k)
  PROVE  IInv'
<1>1. PICK R, lv, lo, hi : Mid(t, R, lv, at) /\ Sound(t, R, lv, lo, hi, contents)
  BY NowIs
<1>2. CursorOK(t.cursor, t.page, R, lv, at)
  BY ONLY <1>1 DEF Mid
<1>3. ASSUME SeqFirst PROVE IInv'
  <2>1. PICK e : e = Edge(t, FALSE)
    OBVIOUS
  <2>2. FoundUp(t.page, R, lv, contents, 0, e)
    BY ONLY <1>1, <2>1, EdgeFirst
  <2>3. SeqTo(e) /\ FoundIs(R, lv, e)
    BY ONLY <1>3, <2>1, <2>2, FoundAny DEF SeqFirst
  <2>4. QED
    BY ONLY <1>1, <2>3, Running, SeqStep
<1>4. ASSUME SeqLast PROVE IInv'
  <2>1. PICK e : e = Edge(t, TRUE)
    OBVIOUS
  <2>2. FoundDown(t.page, R, lv, contents, MaxKey + 1, e)
    BY ONLY <1>1, <2>1, EdgeLast
  <2>3. SeqTo(e) /\ FoundIs(R, lv, e)
    BY ONLY <1>4, <2>1, <2>2, FoundAny DEF SeqLast
  <2>4. QED
    BY ONLY <1>1, <2>3, Running, SeqStep
<1>5. ASSUME NEW k \in Key, SeqCursor(k) PROVE IInv'
  <2>1. PICK e : e = First(t, k)
    OBVIOUS
  <2>2. FoundUp(t.page, R, lv, contents, k, e)
    BY ONLY <1>1, <2>1, k \in Key, FirstIs
  <2>3. SeqTo(e) /\ FoundIs(R, lv, e)
    BY ONLY <1>5, <2>1, <2>2, FoundAny DEF SeqCursor
  <2>4. QED
    BY ONLY <1>1, <2>3, Running, SeqStep
<1>6. ASSUME NEW forward \in BOOLEAN, SeqTo(Step(t, forward)) PROVE IInv'
  <2>1. PICK e : e = Step(t, forward)
    OBVIOUS
  <2>2. StepsTo(t, R, lv, contents, at, forward)
    BY ONLY <1>1, <1>2, forward \in BOOLEAN, StepIs
  <2>3. \E z : FoundUp(t.page, R, lv, contents, z, e) \/ FoundDown(t.page, R, lv, contents, z, e)
    BY ONLY <2>1, <2>2 DEF StepsTo
  <2>4. FoundIs(R, lv, e)
    BY ONLY <2>3, FoundAny
  <2>5. SeqTo(e)
    BY ONLY <1>6, <2>1
  <2>6. QED
    BY ONLY <1>1, <2>4, <2>5, Running, SeqStep
<1>7. SeqNext \/ SeqPrev => \E forward \in BOOLEAN : SeqTo(Step(t, forward))
  BY ONLY DEF SeqNext, SeqPrev
<1>8. QED
  BY <1>3, <1>4, <1>5, <1>6, <1>7

-----------------------------------------------------------------------------
(* The free list *)

\* The table of FreeListOK.
IsChain(page, free, S, f) ==
  f = [n \in S |-> IF n = 0 THEN free
                   ELSE IF f[n - 1] = P_INVALID THEN P_INVALID ELSE page[f[n - 1]].next]

LEMMA ChainExists ==
  ASSUME NEW page, NEW free, NEW n \in Nat
  PROVE  \E f : IsChain(page, free, 0 .. n, f)
<1> DEFINE S == {m \in Nat : \E f : IsChain(page, free, 0 .. m, f)}
<1>1. 0 \in S
  <2>2. PICK f : f = [j \in 0 .. 0 |-> free]
    OBVIOUS
  <2>3. f = [j \in 0 .. 0 |-> IF j = 0 THEN free ELSE IF f[j - 1] = P_INVALID THEN P_INVALID ELSE page[f[j - 1]].next]
    BY <2>2
  <2>4. IsChain(page, free, 0 .. 0, f)
    BY <2>3 DEF IsChain
  <2>5. QED
    BY <2>4
<1>2. ASSUME NEW m \in 0 .. n, m # n, m \in S PROVE m + 1 \in S
  <2>1. PICK f : IsChain(page, free, 0 .. m, f)
    BY <1>2
  <2>3. PICK h : h = [j \in 0 .. m + 1 |-> IF f[j - 1] = P_INVALID THEN P_INVALID ELSE page[f[j - 1]].next]
    OBVIOUS
  <2>4. m \in Nat /\ m + 1 \in Nat
    BY <1>2
  <2>5. PICK g : g = [j \in 0 .. m + 1 |-> IF j \in 0 .. m THEN f[j] ELSE h[j]]
    OBVIOUS
  <2>6. \A j \in 0 .. m + 1 : j # 0 => j - 1 \in 0 .. m /\ j - 1 \in 0 .. m + 1
    BY <2>4
  <2>7. \A j \in 0 .. m + 1 : j # 0 => g[j - 1] = f[j - 1]
    BY <2>5, <2>6
  <2>8. f = [j \in 0 .. m |-> IF j = 0 THEN free ELSE IF f[j - 1] = P_INVALID THEN P_INVALID ELSE page[f[j - 1]].next]
    BY <2>1 DEF IsChain
  <2>9. \A j \in 0 .. m : j \in 0 .. m + 1 /\ f[j] = IF j = 0 THEN free ELSE h[j]
    BY <2>3, <2>4, <2>8
  <2>10. \A j \in 0 .. m + 1 : g[j] = IF j = 0 THEN free ELSE h[j]
    BY <2>4, <2>5, <2>9
  <2>11. \A j \in 0 .. m + 1 : j # 0 => h[j] = IF g[j - 1] = P_INVALID THEN P_INVALID ELSE page[g[j - 1]].next
    BY <2>3, <2>7
  <2>12. g = [j \in 0 .. m + 1 |-> IF j = 0 THEN free ELSE IF g[j - 1] = P_INVALID THEN P_INVALID ELSE page[g[j - 1]].next]
    BY <2>5, <2>10, <2>11
  <2>13. IsChain(page, free, 0 .. m + 1, g)
    BY <2>12 DEF IsChain
  <2>14. QED
    BY <2>4, <2>13
<1>3. n \in S
  <2> HIDE DEF S
  <2>1. \A m \in 0 .. n : m \in S
    BY <1>1, <1>2, Counting
  <2>2. QED
    BY <2>1
<1>4. QED
  BY <1>3

EndsOutside(f, S) == (\A n \in 0 .. MaxPages : f[n] \notin S) /\ f[MaxPages] = P_INVALID

LEMMA ChainIs ==
  ASSUME NEW T
  PROVE  \E f : IsChain(T.page, T.free, 0 .. MaxPages, f) /\ (FreeListOK(T) <=> EndsOutside(f, Reach(T)))
<1> DEFINE f == CHOOSE g : IsChain(T.page, T.free, 0 .. MaxPages, g)
<1>1. MaxPages \in Nat
  BY BtreeAssumption
<1>2. IsChain(T.page, T.free, 0 .. MaxPages, f)
  <2>1. \E g : IsChain(T.page, T.free, 0 .. MaxPages, g)
    BY <1>1, ChainExists
  <2>2. QED
    BY <2>1
<1>3. FreeListOK(T) <=> EndsOutside(f, Reach(T))
  BY DEF FreeListOK, IsChain, EndsOutside
<1> HIDE DEF f
<1>4. QED
  BY <1>2, <1>3

\* A list of different pages has less than MaxPages of them.
LEMMA ShortList ==
  ASSUME NEW n \in Nat, NEW fl \in [1 .. n -> PageNo], \A i, j \in 1 .. n : fl[i] = fl[j] => i = j
  PROVE  n < MaxPages
<1>1. MaxPages \in Nat /\ MaxPages >= 2
  BY Numbers
<1>2. PICK m : m = MaxPages - 1
  OBVIOUS
<1>3. m \in Nat /\ m >= 1 /\ PageNo = 1 .. m
  BY <1>1, <1>2 DEF PageNo
<1>4. IsFiniteSet(PageNo) /\ Cardinality(PageNo) = m
  BY ONLY <1>3, FS_Interval
<1>5. IsFiniteSet(1 .. n) /\ (n # 0 => Cardinality(1 .. n) = n)
  BY ONLY n \in Nat, FS_Interval
<1>6. SUFFICES ASSUME n # 0, n > m PROVE FALSE
  BY <1>1, <1>2, <1>3
<1>7. Cardinality(1 .. n) > Cardinality(PageNo)
  BY ONLY <1>4, <1>5, <1>6
<1>8. \E x, y \in 1 .. n : x # y /\ fl[x] = fl[y]
  BY ONLY <1>4, <1>5, <1>7, fl \in [1 .. n -> PageNo], FS_PigeonHole
<1>9. QED
  BY ONLY <1>8, \A i, j \in 1 .. n : fl[i] = fl[j] => i = j

\* A free list ends outside of the tree.
LEMMA ChainEnds ==
  ASSUME NEW page, NEW free, NEW npages, NEW R, NEW fl, NEW m, FreeOK(page, free, npages, R, fl, m),
         R \subseteq PageNo, NEW f, IsChain(page, free, 0 .. MaxPages, f)
  PROVE  EndsOutside(f, R)
<1>1. /\ m \in Nat /\ fl \in [1 .. m -> PageNo] /\ \A i \in 1 .. m : fl[i] \notin R
      /\ free = IF m = 0 THEN P_INVALID ELSE fl[m]
      /\ \A i \in 1 .. m : page[fl[i]].next = IF i = 1 THEN P_INVALID ELSE fl[i - 1]
  BY DEF FreeOK
<1>2. \A i, j \in 1 .. m : fl[i] = fl[j] => i = j
  BY DEF FreeOK
<1>3. m < MaxPages /\ MaxPages \in Nat
  BY ONLY <1>1, <1>2, ShortList, Numbers
<1>4. P_INVALID \notin PageNo
  BY Numbers
<1>5. \A n \in 0 .. MaxPages : f[n] = IF n = 0 THEN free
                                     ELSE IF f[n - 1] = P_INVALID THEN P_INVALID ELSE page[f[n - 1]].next
  BY ONLY IsChain(page, free, 0 .. MaxPages, f) DEF IsChain
<1> DEFINE S == {n \in Nat : f[n] = IF n < m THEN fl[m - n] ELSE P_INVALID}
<1>6. 0 \in S
  <2>1. f[0] = free
    BY ONLY <1>3, <1>5
  <2>2. m # 0 => 0 < m /\ m - 0 = m
    BY ONLY <1>1
  <2>3. m = 0 => ~(0 < m)
    BY ONLY <1>1
  <2>4. f[0] = IF 0 < m THEN fl[m - 0] ELSE P_INVALID
    BY ONLY <1>1, <2>1, <2>2, <2>3
  <2>5. QED
    BY <2>4
<1>7. ASSUME NEW n \in 0 .. MaxPages, n # MaxPages, n \in S PROVE n + 1 \in S
  <2>1. n \in Nat /\ n + 1 \in 0 .. MaxPages /\ n + 1 # 0 /\ (n + 1) - 1 = n /\ n + 1 \in Nat
    BY ONLY <1>3, <1>7
  <2>2. f[n] = IF n < m THEN fl[m - n] ELSE P_INVALID
    BY <1>7
  <2>3. f[n + 1] = IF f[n] = P_INVALID THEN P_INVALID ELSE page[f[n]].next
    BY ONLY <1>5, <2>1
  <2>4. f[n + 1] = IF n + 1 < m THEN fl[m - (n + 1)] ELSE P_INVALID
    <3>1. CASE n < m
      <4>1. m - n \in 1 .. m /\ (m - n = 1 <=> ~(n + 1 < m)) /\ m - (n + 1) = (m - n) - 1
        BY ONLY <1>1, <2>1, <3>1
      <4>2. f[n] = fl[m - n] /\ fl[m - n] \in PageNo
        BY ONLY <1>1, <2>2, <3>1, <4>1
      <4>3. f[n + 1] = page[fl[m - n]].next
        BY ONLY <1>4, <2>3, <4>2
      <4>4. f[n + 1] = IF m - n = 1 THEN P_INVALID ELSE fl[(m - n) - 1]
        BY ONLY <1>1, <4>1, <4>3
      <4>5. QED
        BY ONLY <4>1, <4>4
    <3>2. CASE ~(n < m)
      <4>1. ~(n + 1 < m)
        BY ONLY <1>1, <2>1, <3>2
      <4>2. QED
        BY ONLY <2>2, <2>3, <3>2, <4>1
    <3>3. QED
      BY ONLY <3>1, <3>2
  <2>5. QED
    BY <2>1, <2>4
<1>8. \A n \in 0 .. MaxPages : n \in S
  <2> HIDE DEF S
  <2>1. QED
    BY <1>3, <1>6, <1>7, Counting
<1>9. \A n \in 0 .. MaxPages : f[n] = IF n < m THEN fl[m - n] ELSE P_INVALID
  BY <1>8
<1>10. ASSUME NEW n \in 0 .. MaxPages PROVE f[n] \notin R
  <2>1. CASE n < m
    <3>1. m - n \in 1 .. m
      BY ONLY <1>1, <1>3, <2>1, n \in 0 .. MaxPages
    <3>2. QED
      BY ONLY <1>1, <1>9, <2>1, <3>1, n \in 0 .. MaxPages
  <2>2. CASE ~(n < m)
    BY ONLY <1>4, <1>9, <2>2, R \subseteq PageNo, n \in 0 .. MaxPages
  <2>3. QED
    BY ONLY <2>1, <2>2
<1>11. f[MaxPages] = P_INVALID
  <2>1. MaxPages \in 0 .. MaxPages /\ ~(MaxPages < m)
    BY ONLY <1>1, <1>3
  <2>2. QED
    BY ONLY <1>9, <2>1
<1>12. QED
  BY ONLY <1>10, <1>11 DEF EndsOutside

\* The first end of a chain.
LEMMA FirstEnd ==
  ASSUME NEW f, f[MaxPages] = P_INVALID
  PROVE  \E m \in 0 .. MaxPages : f[m] = P_INVALID /\ \A n \in 0 .. MaxPages : n < m => f[n] # P_INVALID
<1>1. PICK S : S = {n \in 0 .. MaxPages : f[n] = P_INVALID}
  OBVIOUS
<1>2. MaxPages \in 0 .. MaxPages /\ 0 .. MaxPages \subseteq Nat
  BY Numbers
<1>3. S \subseteq Nat /\ S # {}
  BY <1>1, <1>2
<1>4. PICK m \in S : \A y \in S : m <= y
  BY ONLY <1>3, LeastNumber
<1>5. ASSUME NEW n \in 0 .. MaxPages, n < m PROVE f[n] # P_INVALID
  <2>1. ~(m <= n)
    BY ONLY <1>2, <1>3, <1>4, <1>5
  <2>2. QED
    BY ONLY <1>1, <1>4, <1>5, <2>1
<1>6. QED
  BY ONLY <1>1, <1>4, <1>5

\* Two places of a chain before its end are different pages.
LEMMA ChainApart ==
  ASSUME NEW page, NEW free, NEW f, IsChain(page, free, 0 .. MaxPages, f), NEW m \in 0 .. MaxPages,
         f[m] = P_INVALID, \A n \in 0 .. MaxPages : n < m => f[n] # P_INVALID,
         NEW a, NEW b, a \in Nat, b \in Nat, a < b, b < m
  PROVE  f[a] # f[b]
<1>1. SUFFICES ASSUME f[a] = f[b] PROVE FALSE
  OBVIOUS
<1>2. m \in Nat /\ MaxPages \in Nat /\ m <= MaxPages
  BY Numbers
<1>3. \A n \in 0 .. MaxPages : f[n] = IF n = 0 THEN free
                                     ELSE IF f[n - 1] = P_INVALID THEN P_INVALID ELSE page[f[n - 1]].next
  BY ONLY IsChain(page, free, 0 .. MaxPages, f) DEF IsChain
<1> DEFINE S == {d \in Nat : f[a + d] = f[b + d]}
<1>4. PICK z : z = m - b
  OBVIOUS
<1>5. z \in Nat /\ b + z = m /\ a + z < m /\ a + z \in 0 .. MaxPages
  BY ONLY <1>2, <1>4, a \in Nat, b \in Nat, a < b, b < m
<1>6. 0 \in S
  <2>1. a + 0 = a /\ b + 0 = b
    BY ONLY a \in Nat, b \in Nat
  <2>2. QED
    BY <1>1, <2>1
<1>7. ASSUME NEW d \in 0 .. z, d # z, d \in S PROVE d + 1 \in S
  <2>0. d \in Nat /\ d + 1 \in Nat /\ d < z
    BY ONLY <1>5, <1>7
  <2>1. /\ a + (d + 1) \in 0 .. MaxPages /\ a + (d + 1) # 0 /\ (a + (d + 1)) - 1 = a + d
        /\ b + (d + 1) \in 0 .. MaxPages /\ b + (d + 1) # 0 /\ (b + (d + 1)) - 1 = b + d
    BY ONLY <1>2, <1>5, <2>0, a \in Nat, b \in Nat, a < b
  <2>2. f[a + d] = f[b + d]
    BY <1>7
  <2>3. f[a + (d + 1)] = f[b + (d + 1)]
    BY ONLY <1>3, <2>1, <2>2
  <2>4. QED
    BY <2>0, <2>3
<1>8. z \in S
  <2> HIDE DEF S
  <2>1. \A d \in 0 .. z : d \in S
    BY <1>5, <1>6, <1>7, Counting
  <2>2. QED
    BY <1>5, <2>1
<1>9. f[a + z] = f[m]
  BY <1>5, <1>8
<1>10. QED
  BY ONLY <1>5, <1>9, f[m] = P_INVALID, \A n \in 0 .. MaxPages : n < m => f[n] # P_INVALID

\* A chain that ends outside of the tree is a free list.
LEMMA ChainFree ==
  ASSUME NEW page \in [PageNo -> Page], NEW free \in 0 .. MaxPages - 1, NEW npages, NEW R, R \subseteq PageNo,
         NEW f, IsChain(page, free, 0 .. MaxPages, f), EndsOutside(f, R),
         \A p \in R : p < npages, \A p \in PageNo : page[p].next < npages, free < npages
  PROVE  \E fl, n : FreeOK(page, free, npages, R, fl, n)
<1>1. MaxPages \in Nat /\ PageNo \cup {P_INVALID} = 0 .. MaxPages - 1 /\ P_INVALID \notin PageNo
  BY Numbers
<1>2. \A n \in 0 .. MaxPages : f[n] = IF n = 0 THEN free
                                     ELSE IF f[n - 1] = P_INVALID THEN P_INVALID ELSE page[f[n - 1]].next
  BY ONLY IsChain(page, free, 0 .. MaxPages, f) DEF IsChain
<1>3. (\A n \in 0 .. MaxPages : f[n] \notin R) /\ f[MaxPages] = P_INVALID
  BY ONLY EndsOutside(f, R) DEF EndsOutside
<1>4. \A p \in PageNo : page[p].next \in PageNo \cup {P_INVALID}
  BY ONLY <1>1, page \in [PageNo -> Page] DEF Page
<1>5. \A n \in 0 .. MaxPages : f[n] \in PageNo \cup {P_INVALID}
  <2> DEFINE S == {n \in Nat : f[n] \in PageNo \cup {P_INVALID}}
  <2>1. 0 \in S
    <3>1. f[0] = free
      BY ONLY <1>1, <1>2
    <3>2. QED
      BY <1>1, <3>1
  <2>2. ASSUME NEW n \in 0 .. MaxPages, n # MaxPages, n \in S PROVE n + 1 \in S
    <3>1. n \in Nat /\ n + 1 \in 0 .. MaxPages /\ n + 1 # 0 /\ (n + 1) - 1 = n /\ n + 1 \in Nat
      BY ONLY <1>1, <2>2
    <3>2. f[n] \in PageNo \cup {P_INVALID}
      BY <2>2
    <3>3. f[n + 1] = IF f[n] = P_INVALID THEN P_INVALID ELSE page[f[n]].next
      BY ONLY <1>2, <3>1
    <3>4. f[n + 1] \in PageNo \cup {P_INVALID}
      BY ONLY <1>4, <3>2, <3>3
    <3>5. QED
      BY <3>1, <3>4
  <2>3. \A n \in 0 .. MaxPages : n \in S
    <3> HIDE DEF S
    <3>1. QED
      BY <1>1, <2>1, <2>2, Counting
  <2>4. QED
    BY <2>3
<1>6. PICK m \in 0 .. MaxPages : f[m] = P_INVALID /\ \A n \in 0 .. MaxPages : n < m => f[n] # P_INVALID
  BY ONLY <1>3, FirstEnd
<1>7. m \in Nat /\ m <= MaxPages
  BY ONLY <1>1, <1>6
<1>8. PICK fl : fl = [i \in 1 .. m |-> f[m - i]]
  OBVIOUS
<1>9. \A i \in 1 .. m : m - i \in 0 .. MaxPages /\ m - i < m /\ m - i \in Nat
  BY ONLY <1>1, <1>7
<1>10. fl \in [1 .. m -> PageNo] /\ \A i \in 1 .. m : fl[i] \notin R
  BY ONLY <1>3, <1>5, <1>6, <1>8, <1>9
<1>11. \A i, j \in 1 .. m : fl[i] = fl[j] => i = j
  <2>1. SUFFICES ASSUME NEW i \in 1 .. m, NEW j \in 1 .. m, i < j PROVE fl[i] # fl[j]
    BY <1>7
  <2>2. m - j \in Nat /\ m - i \in Nat /\ m - j < m - i /\ m - i < m
    BY ONLY <1>7, <2>1
  <2>3. PICK a, b : a = m - j /\ b = m - i
    OBVIOUS
  <2>4. f[a] # f[b]
    BY ONLY <1>6, <2>2, <2>3, IsChain(page, free, 0 .. MaxPages, f), ChainApart
  <2>5. QED
    BY ONLY <1>8, <2>1, <2>3, <2>4
<1>12. free = IF m = 0 THEN P_INVALID ELSE fl[m]
  <2>1. f[0] = free
    BY ONLY <1>1, <1>2
  <2>2. m # 0 => m \in 1 .. m /\ m - m = 0
    BY ONLY <1>7
  <2>3. QED
    BY ONLY <1>6, <1>8, <2>1, <2>2
<1>13. ASSUME NEW i \in 1 .. m PROVE page[fl[i]].next = IF i = 1 THEN P_INVALID ELSE fl[i - 1]
  <2>1. PICK n : n = m - i
    OBVIOUS
  <2>2. n \in Nat /\ n + 1 \in 0 .. MaxPages /\ n + 1 # 0 /\ (n + 1) - 1 = n /\ n \in 0 .. MaxPages /\ n < m
    BY ONLY <1>1, <1>7, <1>13, <2>1
  <2>3. fl[i] = f[n] /\ f[n] # P_INVALID
    BY ONLY <1>6, <1>8, <1>13, <2>1, <2>2
  <2>4. page[fl[i]].next = f[n + 1]
    BY ONLY <1>2, <2>2, <2>3
  <2>5. i = 1 => n + 1 = m
    BY ONLY <1>7, <1>13, <2>1
  <2>6. i # 1 => i - 1 \in 1 .. m /\ m - (i - 1) = n + 1
    BY ONLY <1>7, <1>13, <2>1
  <2>7. QED
    BY ONLY <1>6, <1>8, <2>4, <2>5, <2>6
<1>14. FreeOK(page, free, npages, R, fl, m)
  BY <1>7, <1>10, <1>11, <1>12, <1>13 DEF FreeOK
<1>15. QED
  BY ONLY <1>14

-----------------------------------------------------------------------------
(* Open, sync and close *)

LEMMA NoCursorIs ==
  /\ NoCursor \in Cursor /\ ~NoCursor.init /\ ~NoCursor.acquire /\ NoCursor.key = None
  /\ NoHint \in Hint /\ NoHint.order = "not"
<1>1. 0 \in 0 .. MaxPages - 1 /\ 0 \in 0 .. MaxKey /\ 0 \in Nat
  BY Numbers
<1>2. ~NoCursor.init /\ ~NoCursor.acquire /\ NoCursor.key = None
  BY DEF NoCursor
<1>3. NoCursor \in Cursor
  BY ONLY <1>1, Zenon DEF NoCursor, Cursor
<1>4. NoHint \in Hint /\ NoHint.order = "not"
  BY ONLY <1>1 DEF NoHint, Hint
<1>5. QED
  BY ONLY <1>2, <1>3, <1>4

LEMMA NoCursorOK ==
  ASSUME NEW page, NEW R, NEW lv, NEW key
  PROVE  CursorOK(NoCursor, page, R, lv, key)
<1>1. ~NoCursor.init /\ ~NoCursor.acquire
  BY NoCursorIs
<1>2. QED
  BY ONLY <1>1 DEF CursorOK

\* nroot
LEMMA NewIs ==
  ASSUME NEW cont, \A k \in Key : cont[k] = None, NEW key
  PROVE  Fine(NewTree, cont, key) /\ NewTree.memory = 0 /\ NewTree.npages = 2 /\ HintOK(NewTree.last, NewTree.page)
<1>0. PICK page : page = [p \in PageNo |-> LeafPage(<<>>)]
  OBVIOUS
<1>1. /\ NewTree.page = page /\ NewTree.npages = 2 /\ NewTree.free = P_INVALID /\ NewTree.memory = 0
      /\ NewTree.cursor = NoCursor /\ NewTree.last = NoHint
      /\ NewTree = [page |-> page, npages |-> 2, free |-> P_INVALID, memory |-> 0, cursor |-> NoCursor, last |-> NoHint]
  BY ONLY <1>0 DEF NewTree
<1>2. /\ LeafPage(<<>>).leaf /\ LeafPage(<<>>).prev = P_INVALID /\ LeafPage(<<>>).next = P_INVALID
      /\ LeafPage(<<>>).ents = <<>>
  BY DEF LeafPage
<1>3. Len(<<>>) = 0
  OBVIOUS
<1>4. P_INVALID \in 0 .. MaxPages - 1 /\ P_ROOT \in PageNo /\ 2 \in 2 .. MaxPages
  BY Numbers
<1>5. LeafPage(<<>>) \in Page
  <2>1. PICK free : free = P_INVALID
    OBVIOUS
  <2>2. [leaf |-> TRUE, prev |-> P_INVALID, next |-> free, ents |-> <<>>] \in Page
    BY ONLY <1>4, <2>1, EmptyLeaf
  <2>3. QED
    BY ONLY <2>1, <2>2 DEF LeafPage
<1>6. page \in [PageNo -> Page] /\ \A p \in PageNo : page[p] = LeafPage(<<>>)
  BY ONLY <1>0, <1>5
<1>7. PICK lv : lv = [p \in PageNo |-> 0]
  OBVIOUS
<1>8. PICK hi : hi = [p \in PageNo |-> MaxKey + 1]
  OBVIOUS
<1>9. /\ lv \in [PageNo -> Nat] /\ hi \in [PageNo -> Nat]
      /\ lv[P_ROOT] = 0 /\ hi[P_ROOT] = MaxKey + 1
  <2>1. MaxKey + 1 \in Nat /\ 0 \in Nat
    BY Numbers
  <2>2. QED
    BY ONLY <1>4, <1>7, <1>8, <2>1
<1>10. TreeOK(page, {P_ROOT}, lv, lv, hi, P_INVALID)
  <2>1. /\ \A p \in PageNo : page[p].leaf
        /\ page[P_ROOT].prev = P_INVALID /\ page[P_ROOT].next = P_INVALID /\ Len(page[P_ROOT].ents) = 0
    BY ONLY <1>2, <1>3, <1>4, <1>6
  <2>2. QED
    BY ONLY <1>6, <1>9, <2>1, EmptyTree
<1>11. Held(page, {P_ROOT}, lv, cont)
  <2>1. \A p \in {P_ROOT} : Len(page[p].ents) = 0
    BY ONLY <1>2, <1>3, <1>4, <1>6
  <2>2. QED
    BY <2>1 DEF Held
<1>12. FreeOK(page, P_INVALID, 2, {P_ROOT}, [i \in 1 .. 0 |-> P_ROOT], 0)
  <2>1. \A p \in PageNo : page[p].next = P_INVALID
    BY ONLY <1>2, <1>6
  <2>2. P_INVALID < 2 /\ P_ROOT < 2
    BY DEF P_INVALID, P_ROOT
  <2>3. QED
    BY ONLY <1>4, <2>1, <2>2 DEF FreeOK
<1>13. NewTree \in TreeM
  BY ONLY <1>1, <1>4, <1>6, NoCursorIs DEF TreeM
<1>14. Mid(NewTree, {P_ROOT}, lv, key)
  BY ONLY <1>1, <1>12, <1>13, NoCursorOK DEF Mid
<1>15. Sound(NewTree, {P_ROOT}, lv, lv, hi, cont)
  BY ONLY <1>1, <1>10, <1>11 DEF Sound
<1>16. HintOK(NewTree.last, NewTree.page)
  BY ONLY <1>1, NoCursorIs DEF HintOK
<1>17. QED
  BY ONLY <1>1, <1>14, <1>15, <1>16 DEF Fine

LEMMA InitInv == Init => IInv
<1>1. SUFFICES ASSUME Init PROVE IInv
  OBVIOUS
<1>2. /\ t = NewTree /\ meta = None /\ metadirty = TRUE /\ modified = FALSE /\ panic = FALSE
      /\ contents = [k \in Key |-> None] /\ at = None /\ flaw = "none"
  BY <1>1 DEF Init
<1>3. \A k \in Key : contents[k] = None
  BY ONLY <1>2
<1>4. Fine(t, contents, at) /\ t.memory = 0 /\ HintOK(t.last, t.page)
  BY ONLY <1>2, <1>3, NewIs
<1>5. /\ t \in TreeM
      /\ \E R, lv, lo, hi, fl, n : /\ TreeOK(t.page, R, lv, lo, hi, P_INVALID)
                                   /\ FreeOK(t.page, t.free, t.npages, R, fl, n)
                                   /\ Held(t.page, R, lv, contents)
                                   /\ CursorOK(t.cursor, t.page, R, lv, at)
  BY ONLY <1>4, FineIs
<1>6. t \in Tree
  BY ONLY <1>4, <1>5, TreeIs
<1>7. Rest
  <2>1. contents \in [Key -> Data \cup {None}] /\ at \in Key \cup {None}
    BY ONLY <1>2
  <2>2. metadirty \in BOOLEAN /\ modified \in BOOLEAN /\ panic \in BOOLEAN
    BY ONLY <1>2, Zenon
  <2>3. QED
    BY ONLY <1>2, <2>1, <2>2 DEF Rest
<1>8. TypeOK
  BY ONLY <1>6, <1>7 DEF TypeOK, Rest
<1>9. Good
  BY ONLY <1>5 DEF Good
<1>10. FileOK(t, contents)
  <2>1. metadirty
    BY ONLY <1>2, Zenon
  <2>2. QED
    BY ONLY <1>2, <1>3, <2>1 DEF FileOK
<1>11. QED
  BY ONLY <1>4, <1>8, <1>9, <1>10 DEF IInv

\* What a sync finds to save.
LEMMA SavedIs ==
  ASSUME Running
  PROVE  /\ Saved = None \/ (Saved \in 0 .. MaxPages - 1 /\ Saved < t.npages)
         /\ Saved = None => ~modified /\ \A k \in Key : contents[k] = None
<1>1. TypeOK /\ FileOK(t, contents) /\ Fine(t, contents, at)
  BY DEF Running
<1>2. t.free \in 0 .. MaxPages - 1 /\ t.free < t.npages
  <2>1. t \in TreeM /\ \E R, fl, n : FreeOK(t.page, t.free, t.npages, R, fl, n)
    BY ONLY <1>1, FineIs
  <2>2. t.free < t.npages
    BY ONLY <2>1 DEF FreeOK
  <2>3. t.free \in 0 .. MaxPages - 1
    BY ONLY <2>1 DEF TreeM
  <2>4. QED
    BY ONLY <2>2, <2>3
<1>3. meta \in 0 .. MaxPages - 1 \cup {None} /\ metadirty \in BOOLEAN /\ modified \in BOOLEAN
  BY ONLY <1>1 DEF TypeOK
<1>4. /\ meta # None => meta < t.npages
      /\ meta = None => metadirty
      /\ meta = None /\ ~modified => \A k \in Key : contents[k] = None
  BY ONLY <1>1 DEF FileOK
<1>5. t.free # None
  BY <1>2, Numbers
<1>6. CASE modified /\ metadirty
  <2>1. Saved = t.free
    BY ONLY <1>6 DEF Saved
  <2>2. QED
    BY ONLY <1>2, <1>5, <2>1
<1>7. CASE ~(modified /\ metadirty)
  <2>1. Saved = meta
    BY ONLY <1>7 DEF Saved
  <2>2. meta = None => ~modified
    BY ONLY <1>4, <1>7
  <2>3. QED
    BY ONLY <1>3, <1>4, <2>1, <2>2
<1>8. QED
  BY ONLY <1>6, <1>7

\* A sync changes what the file has and no more.
LEMMA SyncStep ==
  ASSUME Running, Sync
  PROVE  IInv'
<1>1. TypeOK /\ Fine(t, contents, at) /\ HintOK(t.last, t.page)
  BY DEF Running
<1>2. t' = t /\ contents' = contents /\ at' = at /\ meta' = Saved /\ modified /\ modified' = FALSE
  BY DEF Sync
<1>3. metadirty' = metadirty /\ panic' = panic /\ flaw' = flaw
  BY DEF Sync
<1>4. Saved \in 0 .. MaxPages - 1 /\ Saved < t.npages /\ Saved # None
  <2>1. Saved # None
    BY <1>2, SavedIs
  <2>2. QED
    BY <2>1, SavedIs
<1>5. Fine(t', contents', at') /\ HintOK(t'.last, t'.page)
  BY ONLY <1>1, <1>2
<1>6. t'.memory = 0
  <2>1. t.memory = 0
    BY NowIs
  <2>2. QED
    BY ONLY <1>2, <2>1
<1>7. /\ meta' \in 0 .. MaxPages - 1 \cup {None}
      /\ contents' \in [Key -> Data \cup {None}] /\ at' \in Key \cup {None}
      /\ flaw' \in {"none", "astray", "freelist", "cursor"}
  BY ONLY <1>1, <1>2, <1>3, <1>4 DEF TypeOK
<1>8. metadirty' \in BOOLEAN /\ modified' \in BOOLEAN /\ panic' \in BOOLEAN
  <2>1. metadirty \in BOOLEAN /\ panic \in BOOLEAN
    BY ONLY <1>1 DEF TypeOK
  <2>2. QED
    BY ONLY <1>2, <1>3, <2>1, Zenon
<1>9. Rest'
  BY ONLY <1>7, <1>8 DEF Rest
<1>10. FileOK(t, contents)'
  <2>1. meta' < t'.npages /\ meta' # None
    BY ONLY <1>2, <1>4
  <2>2. QED
    BY ONLY <2>1 DEF FileOK
<1>11. QED
  BY ONLY <1>5, <1>6, <1>9, <1>10, InvAgain

\* An open that finds a free list in order finds the tree as it was
\* closed.
LEMMA ReopenStep ==
  ASSUME Running, Reopen
  PROVE  IInv'
<1>1. SUFFICES ASSUME Intact' PROVE IInv'
  BY DEF IInv
<1>2. TypeOK /\ Fine(t, contents, at)
  BY DEF Running
<1>3. /\ t' = IF Saved = None THEN NewTree ELSE [t EXCEPT !.free = Saved, !.cursor = NoCursor, !.last = NoHint]
      /\ meta' = Saved /\ at' = None /\ contents' = contents
  BY DEF Reopen
<1>4. /\ metadirty' = (Saved = None) /\ modified' = FALSE /\ panic' = panic
      /\ flaw' = IF FreeListOK(t') THEN flaw ELSE "freelist"
  BY DEF Reopen
<1>5. flaw' = "none" /\ FreeListOK(t')
  BY ONLY <1>1, <1>4 DEF Intact
<1>6. /\ Saved = None \/ (Saved \in 0 .. MaxPages - 1 /\ Saved < t.npages)
      /\ Saved = None => \A k \in Key : contents[k] = None
  BY SavedIs
<1>7. Rest'
  <2>1. /\ meta' \in 0 .. MaxPages - 1 \cup {None}
        /\ contents' \in [Key -> Data \cup {None}] /\ at' \in Key \cup {None}
        /\ flaw' \in {"none", "astray", "freelist", "cursor"}
    BY ONLY <1>2, <1>3, <1>5, <1>6 DEF TypeOK
  <2>2. metadirty' \in BOOLEAN
    BY ONLY <1>4
  <2>3. modified' \in BOOLEAN /\ panic' \in BOOLEAN
    <3>1. panic \in BOOLEAN
      BY ONLY <1>2 DEF TypeOK
    <3>2. QED
      BY ONLY <1>4, <3>1, Zenon
  <2>4. QED
    BY ONLY <2>1, <2>2, <2>3 DEF Rest
<1>8. CASE Saved = None
  <2>1. t' = NewTree
    BY ONLY <1>3, <1>8
  <2>2. /\ Fine(NewTree, contents, None) /\ NewTree.memory = 0 /\ NewTree.npages = 2
        /\ HintOK(NewTree.last, NewTree.page)
    BY ONLY <1>6, <1>8, NewIs
  <2>3. Fine(t', contents', at') /\ t'.memory = 0 /\ HintOK(t'.last, t'.page)
    BY ONLY <1>3, <2>1, <2>2
  <2>4. metadirty'
    BY ONLY <1>4, <1>8
  <2>5. meta' = None /\ \A k \in Key : contents'[k] = None
    BY ONLY <1>3, <1>6, <1>8
  <2>6. FileOK(t, contents)'
    BY ONLY <2>4, <2>5 DEF FileOK
  <2>7. QED
    BY ONLY <1>7, <2>3, <2>6, InvAgain
<1>9. CASE Saved # None
  <2>1. t' = [t EXCEPT !.free = Saved, !.cursor = NoCursor, !.last = NoHint]
    BY ONLY <1>3, <1>9
  <2>2. PICK R, lv, lo, hi : Mid(t, R, lv, at) /\ Sound(t, R, lv, lo, hi, contents)
    BY NowIs
  <2>3. t \in TreeM /\ \E fl, n : FreeOK(t.page, t.free, t.npages, R, fl, n)
    BY ONLY <2>2 DEF Mid
  <2>4. Saved \in 0 .. MaxPages - 1 /\ Saved < t.npages
    BY ONLY <1>6, <1>9
  <2>5. /\ t = [page |-> t.page, npages |-> t.npages, free |-> t.free, memory |-> t.memory,
                cursor |-> t.cursor, last |-> t.last]
        /\ t.page \in [PageNo -> Page] /\ t.npages \in 2 .. MaxPages /\ t.memory \in Nat
    BY ONLY <2>3, TreeRecord
  <2>6. t' = [page |-> t.page, npages |-> t.npages, free |-> Saved, memory |-> t.memory,
              cursor |-> NoCursor, last |-> NoHint]
    BY ONLY <2>1, <2>5
  <2>7. /\ t'.page = t.page /\ t'.npages = t.npages /\ t'.free = Saved /\ t'.memory = t.memory
        /\ t'.cursor = NoCursor /\ t'.last = NoHint
    BY ONLY <2>6
  <2>8. t' \in TreeM
    BY ONLY <2>4, <2>5, <2>6, NoCursorIs DEF TreeM
  <2>9. TreeOK(t'.page, R, lv, lo, hi, P_INVALID) /\ Held(t'.page, R, lv, contents)
    BY ONLY <2>2, <2>7 DEF Sound
  <2>10. Reach(t') = R
    BY ONLY <2>9, ReachIs
  <2>11. PICK f : IsChain(t'.page, t'.free, 0 .. MaxPages, f) /\ (FreeListOK(t') <=> EndsOutside(f, Reach(t')))
    BY ONLY ChainIs
  <2>12. EndsOutside(f, R)
    BY ONLY <1>5, <2>10, <2>11
  <2>13. (\A p \in R : p < t.npages) /\ \A p \in PageNo : t.page[p].next < t.npages
    BY ONLY <2>3 DEF FreeOK
  <2>14. R \subseteq PageNo
    BY ONLY <2>9, RootAlone
  <2>15. \E fl, n : FreeOK(t.page, Saved, t.npages, R, fl, n)
    <3>1. IsChain(t.page, Saved, 0 .. MaxPages, f)
      BY ONLY <2>7, <2>11
    <3>2. PICK pg, fr, np : pg = t.page /\ fr = Saved /\ np = t.npages
      OBVIOUS
    <3>3. \E fl, n : FreeOK(pg, fr, np, R, fl, n)
      BY ONLY <2>4, <2>5, <2>12, <2>13, <2>14, <3>1, <3>2, ChainFree
    <3>4. QED
      BY ONLY <3>2, <3>3
  <2>16. Mid(t', R, lv, None)
    <3>1. CursorOK(t'.cursor, t'.page, R, lv, None)
      BY ONLY <2>7, NoCursorOK
    <3>2. \E fl, n : FreeOK(t'.page, t'.free, t'.npages, R, fl, n)
      BY ONLY <2>7, <2>15
    <3>3. QED
      BY ONLY <2>8, <3>1, <3>2 DEF Mid
  <2>17. Fine(t', contents, None)
    <3>1. Sound(t', R, lv, lo, hi, contents)
      BY ONLY <2>9 DEF Sound
    <3>2. QED
      BY ONLY <2>16, <3>1 DEF Fine
  <2>18. Fine(t', contents', at')
    BY ONLY <1>3, <2>17
  <2>19. t'.memory = 0
    <3>1. t.memory = 0
      BY NowIs
    <3>2. QED
      BY ONLY <2>7, <3>1
  <2>20. HintOK(t'.last, t'.page)
    BY ONLY <2>7, NoCursorIs DEF HintOK
  <2>21. FileOK(t, contents)'
    <3>1. meta' # None /\ meta' < t'.npages
      BY ONLY <1>3, <1>9, <2>4, <2>7
    <3>2. QED
      BY ONLY <3>1 DEF FileOK
  <2>22. QED
    BY ONLY <1>7, <2>18, <2>19, <2>20, <2>21, InvAgain
<1>10. QED
  BY ONLY <1>8, <1>9

-----------------------------------------------------------------------------
(* The invariant *)

\* Every step keeps the invariant.
LEMMA NextInv == IInv /\ [Next]_vars => IInv'
<1>1. SUFFICES ASSUME IInv, [Next]_vars PROVE IInv'
  OBVIOUS
<1>2. CASE UNCHANGED vars
  <2>1. /\ t' = t /\ meta' = meta /\ metadirty' = metadirty /\ modified' = modified /\ panic' = panic
        /\ contents' = contents /\ at' = at /\ flaw' = flaw
    BY ONLY <1>2 DEF vars
  <2>2. QED
    BY ONLY <1>1, <2>1 DEF IInv, Intact, TypeOK, Good, FileOK
<1>3. CASE Next /\ ~Intact
  <2>1. ~Intact'
    BY <1>3, Damaged
  <2>2. QED
    BY ONLY <2>1 DEF IInv
<1>4. CASE Next /\ Intact
  <2>1. Running
    BY ONLY <1>1, <1>4, RunningInv
  <2>2. ASSUME NEW k \in Key, NEW d \in Data, Put(k, d) PROVE IInv'
    BY ONLY <2>1, <2>2, PutStep
  <2>3. ASSUME NEW k \in Key, Del(k) PROVE IInv'
    BY ONLY <2>1, <2>3, DelStep
  <2>4. ASSUME SeqFirst \/ SeqLast \/ SeqNext \/ SeqPrev \/ \E k \in Key : SeqCursor(k) PROVE IInv'
    BY ONLY <2>1, <2>4, SeqSteps
  <2>5. ASSUME DelCursor PROVE IInv'
    BY ONLY <2>1, <2>5, DelCursorStep
  <2>6. ASSUME NEW d \in Data, PutCursor(d) PROVE IInv'
    BY ONLY <2>1, <2>6, PutCursorStep
  <2>7. ASSUME Sync PROVE IInv'
    BY ONLY <2>1, <2>7, SyncStep
  <2>8. ASSUME Reopen PROVE IInv'
    BY ONLY <2>1, <2>8, ReopenStep
  <2>9. QED
    BY ONLY <1>4, <2>2, <2>3, <2>4, <2>5, <2>6, <2>7, <2>8 DEF Next
<1>5. QED
  BY ONLY <1>1, <1>2, <1>3, <1>4

\* What __bt_get finds.
LEMMA GetIs ==
  ASSUME NEW T, NEW R, NEW lv, NEW lo, NEW hi, NEW cont, Sound(T, R, lv, lo, hi, cont), NEW k \in Key
  PROVE  Get(T, k) = cont[k]
<1>1. PICK page : page = T.page
  OBVIOUS
<1>2. TreeOK(page, R, lv, lo, hi, P_INVALID) /\ Held(page, R, lv, cont)
  BY <1>1 DEF Sound
<1>3. PICK path : path = Path(T, k)
  OBVIOUS
<1>4. IsPath(page, R, lv, lo, hi, P_ROOT, k, path)
  <2>1. TreeOK(T.page, R, lv, lo, hi, P_INVALID)
    BY ONLY <1>1, <1>2
  <2>2. IsPath(T.page, R, lv, lo, hi, P_ROOT, k, Path(T, k))
    BY ONLY <2>1, k \in Key, PathIs
  <2>3. QED
    BY ONLY <1>1, <1>3, <2>2
<1>5. PICK p, i : p = path[Len(path)].pgno /\ i = path[Len(path)].index
  OBVIOUS
<1>6. Len(path) \in Nat /\ Len(path) \in 1 .. Len(path) /\ Len(path) - Len(path) = 0
  <2>1. lv[P_ROOT] \in Nat
    BY ONLY <1>2, RootAlone
  <2>2. Len(path) = lv[P_ROOT] + 1
    BY ONLY <1>4 DEF IsPath
  <2>3. QED
    BY ONLY <2>1, <2>2
<1>7. p \in R /\ lv[p] = 0 /\ lo[p] <= k /\ k < hi[p] /\ i = Place(page[p], k)
  BY ONLY <1>4, <1>5, <1>6 DEF IsPath
<1>8. TreeOK(page, R, lv, lo, hi, P_INVALID)
  BY ONLY <1>2
<1>9. /\ lo[p] \in Nat /\ hi[p] \in Nat /\ Len(page[p].ents) \in Nat
      /\ DOMAIN page[p].ents = 1 .. Len(page[p].ents)
      /\ \A j \in 1 .. Len(page[p].ents) : page[p].ents[j].k \in Nat
  BY ONLY <1>7, <1>8, InTree
<1>10. k \in Nat
  BY Numbers DEF Key
<1>11. IsPlace(page[p].ents, k, i)
  <2>1. IsPlace(page[p].ents, k, Place(page[p], k))
    BY ONLY <1>7, <1>8, <1>10, PlaceIs
  <2>2. QED
    BY ONLY <1>7, <2>1
<1>12. Get(T, k) = IF Exact(page[p], k) THEN page[p].ents[i].v ELSE None
  BY ONLY <1>1, <1>3, <1>5 DEF Get, Last
<1>13. CASE Exact(page[p], k)
  <2>1. PICK j \in 1 .. Len(page[p].ents) : page[p].ents[j].k = k
    BY ONLY <1>9, <1>13 DEF Exact
  <2>2. i \in Nat /\ ~(j < i)
    BY ONLY <1>9, <1>10, <1>11, <2>1 DEF IsPlace
  <2>3. j \in Nat /\ i <= j /\ i \in 1 .. Len(page[p].ents)
    BY ONLY <1>9, <1>11, <2>1, <2>2 DEF IsPlace
  <2>4. i = j
    <3>1. SUFFICES ASSUME i < j PROVE FALSE
      BY <2>2, <2>3
    <3>2. Ordered(page, R, lv)
      BY ONLY <1>8 DEF TreeOK
    <3>3. page[p].ents[i].k < page[p].ents[j].k
      BY ONLY <1>7, <2>1, <2>3, <3>1, <3>2 DEF Ordered
    <3>4. k <= page[p].ents[i].k
      BY ONLY <1>11, <2>2, <2>3 DEF IsPlace
    <3>5. page[p].ents[i].k \in Nat
      BY ONLY <1>9, <2>3
    <3>6. QED
      BY ONLY <1>10, <2>1, <3>3, <3>4, <3>5
  <2>5. page[p].ents[i].k = k /\ i \in 1 .. Len(page[p].ents)
    BY ONLY <2>1, <2>4
  <2>6. cont[k] = page[p].ents[i].v
    BY ONLY <1>2, <1>7, <2>5 DEF Held
  <2>7. QED
    BY ONLY <1>12, <1>13, <2>6
<1>14. CASE ~Exact(page[p], k)
  <2>1. cont[k] = None
    <3>1. SUFFICES ASSUME cont[k] # None PROVE FALSE
      OBVIOUS
    <3>2. PICK r \in R : /\ lv[r] = 0 /\ lo[r] <= k /\ k < hi[r] /\ lo[r] \in Nat /\ hi[r] \in Nat
                         /\ \E j \in 1 .. Len(page[r].ents) : page[r].ents[j].k = k
      BY ONLY <1>2, <3>1, k \in Key, WhereIs
    <3>3. r = p
      <4>1. Apart(R, lv, lo, hi)
        BY ONLY <1>8 DEF TreeOK
      <4>2. r # p => hi[r] <= lo[p] \/ hi[p] <= lo[r]
        BY ONLY <1>7, <3>2, <4>1 DEF Apart
      <4>3. QED
        BY ONLY <1>7, <1>9, <1>10, <3>2, <4>2
    <3>4. QED
      BY ONLY <1>9, <1>14, <3>2, <3>3 DEF Exact
  <2>2. QED
    BY ONLY <1>12, <1>14, <2>1
<1>15. QED
  BY ONLY <1>13, <1>14

\* get finds for every key what the leaf of its interval has.
LEMMA GetAll ==
  ASSUME Running
  PROVE  \A k \in Key : Get(t, k) = contents[k]
<1>1. PICK R, lv, lo, hi : Sound(t, R, lv, lo, hi, contents)
  BY NowIs
<1>2. QED
  BY ONLY <1>1, GetIs

LEMMA FreeAll ==
  ASSUME Running
  PROVE  FreeListOK(t)
<1>1. PICK R, lv, lo, hi : Mid(t, R, lv, at) /\ Sound(t, R, lv, lo, hi, contents)
  BY NowIs
<1>2. TreeOK(t.page, R, lv, lo, hi, P_INVALID)
  BY ONLY <1>1 DEF Sound
<1>3. Reach(t) = R
  BY ONLY <1>2, ReachIs
<1>4. PICK fl, n : FreeOK(t.page, t.free, t.npages, R, fl, n)
  BY ONLY <1>1 DEF Mid
<1>5. R \subseteq PageNo
  BY ONLY <1>2, RootAlone
<1>6. PICK f : IsChain(t.page, t.free, 0 .. MaxPages, f) /\ (FreeListOK(t) <=> EndsOutside(f, Reach(t)))
  BY ONLY ChainIs
<1>7. EndsOutside(f, R)
  BY ONLY <1>4, <1>5, <1>6, ChainEnds
<1>8. QED
  BY ONLY <1>3, <1>6, <1>7

\* The inductive invariant of put, del, seq, sync, close and open: as long as
\* bt_fast has not gone astray, bt_psplit has not moved the cursor off its
\* record, no stale free list was read back and no split was left half done,
\* the pages form a B-tree with the records the user was told of, and the free
\* list, the cursor, the hint of bt_fast and the file agree with it.
THEOREM Invariance == Spec => []IInv
<1>1. Init => IInv
  BY InitInv
<1>2. IInv /\ [Next]_vars => IInv'
  BY NextInv
<1>3. QED
  BY <1>1, <1>2, PTL DEF Spec

\* __bt_get finds what the last put or del of a key left, for every key,
\* wherever bt_split, bt_pdelete and bt_fast have put the record.
THEOREM GetCorrect == Spec => []GetReturnsLatest
<1>1. IInv => GetReturnsLatest
  <2>1. SUFFICES ASSUME IInv, Intact PROVE \A k \in Key : Get(t, k) = contents[k]
    BY DEF GetReturnsLatest
  <2>2. Running
    BY ONLY <2>1, RunningInv
  <2>3. QED
    BY ONLY <2>2, GetAll
<1>2. QED
  BY <1>1, Invariance, PTL

\* The free list that __bt_new takes from and __bt_free gives to ends, and
\* has no page that can be reached from the root.
THEOREM FreePagesCorrect == Spec => []FreePages
<1>1. IInv => FreePages
  <2>1. SUFFICES ASSUME IInv, Intact PROVE FreeListOK(t)
    BY DEF FreePages
  <2>2. Running
    BY ONLY <2>1, RunningInv
  <2>3. QED
    BY ONLY <2>2, FreeAll
<1>2. QED
  BY <1>1, Invariance, PTL

-----------------------------------------------------------------------------
(* The dictionary *)

\* A dictionary with its cursor.
Seen(rec, a, g) == [rec |-> rec, at |-> a, gone |-> g]
Recs == [Key -> Data \cup {None}]

\* A dictionary and its members.
LEMMA SeenIs ==
  ASSUME NEW rec, NEW a, NEW g
  PROVE  /\ Seen(rec, a, g).rec = rec /\ Seen(rec, a, g).at = a /\ Seen(rec, a, g).gone = g
         /\ D!Present(Seen(rec, a, g)) = {k \in Key : rec[k] # None}
BY DEF Seen, D!Present, D!Key, Key

\* The least and the greatest key of a set are what Dictionary chooses.
LEMMA LeastIs ==
  ASSUME NEW S, S \subseteq Nat, NEW x \in S, \A y \in S : x <= y
  PROVE  D!Least(S) = x
<1>1. S # {}
  OBVIOUS
<1>2. D!Least(S) = CHOOSE z \in S : \A y \in S : z <= y
  BY ONLY <1>1 DEF D!Least, D!Min
<1>3. ASSUME NEW z \in S, \A y \in S : z <= y PROVE z = x
  <2>1. z <= x /\ x <= z /\ x \in Nat /\ z \in Nat
    BY <1>3
  <2>2. QED
    BY ONLY <2>1
<1>4. \E z \in S : \A y \in S : z <= y
  OBVIOUS
<1>5. QED
  BY ONLY <1>2, <1>3, <1>4

LEMMA GreatestIs ==
  ASSUME NEW S, S \subseteq Nat, NEW x \in S, \A y \in S : y <= x
  PROVE  D!Greatest(S) = x
<1>1. S # {}
  OBVIOUS
<1>2. D!Greatest(S) = CHOOSE z \in S : \A y \in S : z >= y
  BY ONLY <1>1 DEF D!Greatest, D!Max
<1>3. ASSUME NEW z \in S, \A y \in S : z >= y PROVE z = x
  <2>1. z >= x /\ x <= x /\ z <= x /\ x \in Nat /\ z \in Nat
    BY <1>3
  <2>2. QED
    BY ONLY <2>1
<1>4. \A y \in S : x >= y
  OBVIOUS
<1>5. QED
  BY ONLY <1>2, <1>3, <1>4, x \in S

\* A put.
LEMMA StoredIn ==
  ASSUME NEW rec \in Recs, NEW a, NEW g \in BOOLEAN, NEW k \in Key, NEW v \in Data, NEW h \in BOOLEAN,
         h <=> g \/ (a = k /\ rec[k] # None)
  PROVE  Seen([rec EXCEPT ![k] = v], a, h) = D!Stored(Seen(rec, a, g), k, v)
<1>1. PICK d : d = Seen(rec, a, g)
  OBVIOUS
<1>2. d = [rec |-> rec, at |-> a, gone |-> g] /\ d.rec = rec /\ d.at = a /\ d.gone = g
  BY ONLY <1>1 DEF Seen
<1>3. h = (d.gone \/ (d.at = k /\ d.rec[k] # None))
  BY <1>2
<1>4. PICK r : r = [d EXCEPT !.rec[k] = v, !.gone = h] /\ D!Stored(d, k, v) = r
  BY ONLY <1>3, <1>2 DEF D!Stored
<1>5. r = [rec |-> [rec EXCEPT ![k] = v], at |-> a, gone |-> h]
  BY ONLY <1>1, <1>2, <1>4
<1>6. QED
  BY ONLY <1>1, <1>4, <1>5 DEF Seen

\* A del.
LEMMA RemovedIn ==
  ASSUME NEW rec \in Recs, NEW a, NEW g \in BOOLEAN, NEW k \in Key, rec[k] # None, NEW h \in BOOLEAN,
         h <=> g \/ a = k
  PROVE  /\ k \in D!Present(Seen(rec, a, g))
         /\ Seen([rec EXCEPT ![k] = None], a, h) = D!Removed(Seen(rec, a, g), k)
<1>1. PICK d : d = Seen(rec, a, g)
  OBVIOUS
<1>2. d = [rec |-> rec, at |-> a, gone |-> g] /\ d.rec = rec /\ d.at = a /\ d.gone = g
  BY ONLY <1>1 DEF Seen
<1>3. h = (d.gone \/ d.at = k)
  BY <1>2
<1>4. PICK r : r = [d EXCEPT !.rec[k] = None, !.gone = h] /\ D!Removed(d, k) = r
  BY ONLY <1>3, <1>2 DEF D!Removed
<1>5. r = [rec |-> [rec EXCEPT ![k] = None], at |-> a, gone |-> h]
  BY ONLY <1>1, <1>2, <1>4
<1>6. k \in D!Present(d)
  BY <1>1, SeenIs
<1>7. QED
  BY ONLY <1>1, <1>4, <1>5, <1>6 DEF Seen

\* A seq that finds k, and an open.
LEMMA MovedIn ==
  ASSUME NEW rec, NEW a, NEW g, NEW k, NEW f \in BOOLEAN, ~f
  PROVE  Seen(rec, k, f) = D!Moved(Seen(rec, a, g), k)
<1>1. PICK d : d = Seen(rec, a, g)
  OBVIOUS
<1>2. d = [rec |-> rec, at |-> a, gone |-> g]
  BY ONLY <1>1 DEF Seen
<1>3. f = FALSE
  OBVIOUS
<1>4. PICK r : r = [d EXCEPT !.at = k, !.gone = f] /\ D!Moved(d, k) = r
  BY ONLY <1>3 DEF D!Moved
<1>5. r = [rec |-> rec, at |-> k, gone |-> f]
  BY ONLY <1>2, <1>4
<1>6. QED
  BY ONLY <1>1, <1>4, <1>5 DEF Seen

LEMMA ReopenedIn ==
  ASSUME NEW rec, NEW a, NEW g
  PROVE  Seen(rec, None, FALSE) = D!Reopened(Seen(rec, a, g))
<1>1. PICK d : d = Seen(rec, a, g)
  OBVIOUS
<1>2. d = [rec |-> rec, at |-> a, gone |-> g]
  BY ONLY <1>1 DEF Seen
<1>3. PICK f : f = FALSE
  OBVIOUS
<1>4. D!Reopened(d) = [d EXCEPT !.at = None, !.gone = f]
  BY ONLY <1>3 DEF D!Reopened
<1>5. D!Reopened(d) = [rec |-> rec, at |-> None, gone |-> f]
  <2>1. PICK n : n = None
    OBVIOUS
  <2>2. PICK r : r = [d EXCEPT !.at = n, !.gone = f]
    OBVIOUS
  <2>3. r = [rec |-> rec, at |-> n, gone |-> f]
    BY ONLY <1>2, <2>2
  <2>4. QED
    BY ONLY <1>4, <2>1, <2>2, <2>3
<1>6. QED
  BY ONLY <1>1, <1>3, <1>4, <1>5 DEF Seen

\* The cursor has the key seq returned last, or kept it.
Marked(c, key) == /\ c.init <=> key # None
                  /\ c.acquire => c.init /\ c.key = key

\* What the user sees of the tree.
KeyOf(T) == LET c == T.cursor IN
            IF ~c.init THEN None
            ELSE IF c.acquire THEN c.key ELSE T.page[c.pgno].ents[c.index].k
DictOf(T) == [rec |-> [k \in Key |-> Get(T, k)], at |-> KeyOf(T), gone |-> T.cursor.acquire]

\* The dictionary that the tree stands for.
LEMMA SeeingIs ==
  ASSUME NEW T, NEW cont, NEW key, Fine(T, cont, key), cont \in [Key -> Data \cup {None}], Marked(T.cursor, key)
  PROVE  DictOf(T) = Seen(cont, key, T.cursor.acquire) /\ T.cursor.acquire \in BOOLEAN /\ T.cursor.init \in BOOLEAN
<1>1. PICK R, lv, lo, hi : Mid(T, R, lv, key) /\ Sound(T, R, lv, lo, hi, cont)
  BY DEF Fine
<1>2. \A k \in Key : Get(T, k) = cont[k]
  BY ONLY <1>1, GetIs
<1>3. [k \in Key |-> Get(T, k)] = cont
  BY ONLY <1>2, cont \in [Key -> Data \cup {None}]
<1>4. CursorOK(T.cursor, T.page, R, lv, key) /\ T \in TreeM
  BY ONLY <1>1 DEF Mid
<1>5. KeyOf(T) = key
  <2>1. CASE ~T.cursor.init
    BY ONLY <2>1, Marked(T.cursor, key) DEF Marked, KeyOf
  <2>2. CASE T.cursor.init /\ T.cursor.acquire
    BY ONLY <2>2, Marked(T.cursor, key) DEF Marked, KeyOf
  <2>3. CASE T.cursor.init /\ ~T.cursor.acquire
    BY ONLY <2>3, <1>4 DEF CursorOK, KeyOf
  <2>4. QED
    BY ONLY <2>1, <2>2, <2>3
<1>6. DictOf(T) = Seen(cont, key, T.cursor.acquire)
  BY ONLY <1>3, <1>5 DEF DictOf, Seen
<1>7. T.cursor.acquire \in BOOLEAN /\ T.cursor.init \in BOOLEAN
  <2>1. T.cursor \in Cursor
    BY ONLY <1>4 DEF TreeM
  <2>2. QED
    BY ONLY <2>1 DEF Cursor
<1>8. QED
  BY ONLY <1>6, <1>7

\* A record of a leaf is there, and a cursor that has its key is on it.
LEMMA SpotIs ==
  ASSUME Running, NEW k, NEW p, NEW i, Spot(k, p, i)
  PROVE  /\ k \in Key /\ contents[k] # None
         /\ t.cursor.init /\ ~t.cursor.acquire => (at = k <=> On(t.cursor, p) /\ t.cursor.index = i)
<1>1. PICK R, lv, lo, hi : /\ Mid(t, R, lv, at) /\ Sound(t, R, lv, lo, hi, contents) /\ p \in R /\ lv[p] = 0
                           /\ i \in 1 .. Len(t.page[p].ents) /\ t.page[p].ents[i].k = k
  BY DEF Spot
<1>2. PICK page : page = t.page
  OBVIOUS
<1>3. TreeOK(page, R, lv, lo, hi, P_INVALID) /\ Held(page, R, lv, contents)
  BY ONLY <1>1, <1>2 DEF Sound
<1>4. TreeOK(page, R, lv, lo, hi, P_INVALID)
  BY ONLY <1>3
<1>5. i \in 1 .. Len(page[p].ents) /\ page[p].ents[i].k = k
  BY ONLY <1>1, <1>2
<1>6. k \in Key /\ page[p].ents[i].v \in Data
  BY ONLY <1>1, <1>4, <1>5, InTree
<1>7. contents[k] = page[p].ents[i].v
  BY ONLY <1>1, <1>3, <1>5 DEF Held
<1>8. contents[k] # None
  BY ONLY <1>6, <1>7, Numbers
<1>9. ASSUME t.cursor.init, ~t.cursor.acquire PROVE at = k <=> On(t.cursor, p) /\ t.cursor.index = i
  <2>1. PICK q, j : q = t.cursor.pgno /\ j = t.cursor.index
    OBVIOUS
  <2>2. CursorOK(t.cursor, t.page, R, lv, at)
    BY ONLY <1>1 DEF Mid
  <2>3. q \in R /\ lv[q] = 0 /\ j \in 1 .. Len(page[q].ents) /\ page[q].ents[j].k = at
    BY ONLY <1>2, <1>9, <2>1, <2>2 DEF CursorOK
  <2>4. On(t.cursor, p) /\ t.cursor.index = i <=> q = p /\ j = i
    BY ONLY <1>9, <2>1 DEF On
  <2>5. ASSUME at = k PROVE q = p /\ j = i
    <3>1. /\ k \in Nat /\ lo[p] \in Nat /\ hi[p] \in Nat /\ lo[q] \in Nat /\ hi[q] \in Nat
          /\ Len(page[p].ents) \in Nat
      BY ONLY <1>1, <1>4, <1>5, <2>3, InTree
    <3>2. Within(page, R, lv, lo, hi) /\ Apart(R, lv, lo, hi) /\ Ordered(page, R, lv)
      BY ONLY <1>4 DEF TreeOK
    <3>3. lo[p] <= k /\ k < hi[p]
      BY ONLY <1>1, <1>5, <3>2 DEF Within
    <3>4. lo[q] <= k /\ k < hi[q]
      BY ONLY <2>3, <2>5, <3>2 DEF Within
    <3>5. q # p => hi[q] <= lo[p] \/ hi[p] <= lo[q]
      BY ONLY <1>1, <2>3, <3>2 DEF Apart
    <3>6. q = p
      BY ONLY <3>1, <3>3, <3>4, <3>5
    <3>7. j \in 1 .. Len(page[p].ents) /\ page[p].ents[j].k = k
      BY ONLY <2>3, <2>5, <3>6
    <3>8. ~(i < j) /\ ~(j < i)
      BY ONLY <1>1, <1>5, <3>1, <3>2, <3>7 DEF Ordered
    <3>9. QED
      BY ONLY <1>5, <3>1, <3>6, <3>7, <3>8
  <2>6. q = p /\ j = i => at = k
    BY ONLY <1>5, <2>3
  <2>7. QED
    BY ONLY <2>4, <2>5, <2>6
<1>10. QED
  BY ONLY <1>6, <1>8, <1>9

\* The dictionary before a step, and a step to dictionary d.
Now == Seen(contents, at, t.cursor.acquire)
Goes(d) == Marked(t'.cursor, at') /\ Seen(contents', at', t'.cursor.acquire) = d

\* Before and after it.
Between == /\ Running /\ Marked(t.cursor, at) /\ Intact' /\ IInv'

\* What is known of a step from one undamaged tree to another.
LEMMA BetweenIs ==
  ASSUME Between
  PROVE  /\ Running /\ Marked(t.cursor, at) /\ contents \in Recs /\ at \in Key \cup {None} /\ None \notin Key
         /\ t.cursor \in Cursor /\ t'.cursor \in Cursor
         /\ t.cursor.acquire \in BOOLEAN /\ t.cursor.init \in BOOLEAN
         /\ t'.cursor.acquire \in BOOLEAN /\ t'.cursor.init \in BOOLEAN
         /\ at = None => ~t.cursor.acquire
         /\ at # None /\ ~t.cursor.acquire => contents[at] # None
<1>1. Running /\ Marked(t.cursor, at) /\ Intact' /\ IInv'
  BY DEF Between
<1>2. t \in Tree /\ contents \in [Key -> Data \cup {None}] /\ at \in Key \cup {None}
  BY <1>1 DEF Running, TypeOK
<1>3. t' \in Tree
  BY <1>1 DEF IInv, TypeOK
<1>4. t.cursor \in Cursor /\ t'.cursor \in Cursor
  BY ONLY <1>2, <1>3 DEF Tree
<1>5. /\ t.cursor.acquire \in BOOLEAN /\ t.cursor.init \in BOOLEAN
      /\ t'.cursor.acquire \in BOOLEAN /\ t'.cursor.init \in BOOLEAN
  BY ONLY <1>4 DEF Cursor
<1>6. None \notin Key
  BY Numbers DEF Key
<1>7. at = None => ~t.cursor.acquire
  BY ONLY <1>1 DEF Marked
<1>8. ASSUME at # None, ~t.cursor.acquire PROVE contents[at] # None
  <2>1. PICK R, lv, lo, hi : Mid(t, R, lv, at) /\ Sound(t, R, lv, lo, hi, contents)
    BY ONLY <1>1, NowIs
  <2>2. CursorOK(t.cursor, t.page, R, lv, at)
    BY ONLY <2>1 DEF Mid
  <2>3. t.cursor.init
    BY ONLY <1>1, <1>8 DEF Marked
  <2>4. PICK p, i : p = t.cursor.pgno /\ i = t.cursor.index
    OBVIOUS
  <2>5. p \in R /\ lv[p] = 0 /\ i \in 1 .. Len(t.page[p].ents) /\ t.page[p].ents[i].k = at
    BY ONLY <1>8, <2>2, <2>3, <2>4 DEF CursorOK
  <2>6. Spot(at, p, i)
    BY ONLY <2>1, <2>5 DEF Spot
  <2>7. QED
    BY ONLY <1>1, <2>6, SpotIs
<1>9. QED
  BY ONLY <1>1, <1>2, <1>4, <1>5, <1>6, <1>7, <1>8 DEF Recs

\* A step that leaves the mark of the cursor.
LEMMA MarkStays ==
  ASSUME Marked(t.cursor, at), at' = at, SameMark(t.cursor, t'.cursor)
  PROVE  Marked(t'.cursor, at') /\ t'.cursor.acquire = t.cursor.acquire
BY DEF Marked, SameMark

\* A step that leaves records and cursor alone is a stutter.
LEMMA StillStep ==
  ASSUME Between, at' = at, contents' = contents, SameMark(t.cursor, t'.cursor)
  PROVE  Goes(Now)
<1>1. Marked(t'.cursor, at') /\ t'.cursor.acquire = t.cursor.acquire
  BY BetweenIs, MarkStays
<1>2. Seen(contents', at', t'.cursor.acquire) = Seen(contents, at, t.cursor.acquire)
  BY <1>1
<1>3. QED
  BY ONLY <1>1, <1>2 DEF Goes, Now

\* A step that deletes or replaces record i of leaf p.
LEMMA MarkLost ==
  ASSUME Between, NEW k, NEW p, NEW i, Spot(k, p, i), at' = at, LostMark(t.cursor, t'.cursor, p, i, k)
  PROVE  /\ Marked(t'.cursor, at') /\ k \in Key /\ contents[k] # None
         /\ t'.cursor.acquire <=> t.cursor.acquire \/ at = k
<1>1. /\ Running /\ Marked(t.cursor, at) /\ None \notin Key
      /\ t.cursor.acquire \in BOOLEAN /\ t.cursor.init \in BOOLEAN
      /\ t'.cursor.acquire \in BOOLEAN /\ t'.cursor.init \in BOOLEAN
  BY BetweenIs
<1>2. /\ k \in Key /\ contents[k] # None
      /\ t.cursor.init /\ ~t.cursor.acquire => (at = k <=> On(t.cursor, p) /\ t.cursor.index = i)
  BY ONLY <1>1, Spot(k, p, i), SpotIs
<1>3. CASE On(t.cursor, p) /\ t.cursor.index = i
  <2>1. t.cursor.init /\ ~t.cursor.acquire
    BY ONLY <1>3 DEF On
  <2>2. at = k
    BY ONLY <1>2, <1>3, <2>1
  <2>3. t'.cursor.init /\ t'.cursor.acquire /\ t'.cursor.key = k
    BY ONLY <1>3, LostMark(t.cursor, t'.cursor, p, i, k) DEF LostMark
  <2>4. at' = k /\ k # None
    BY ONLY <1>1, <1>2, <2>2, at' = at
  <2>5. Marked(t'.cursor, at')
    BY ONLY <2>3, <2>4 DEF Marked
  <2>6. QED
    BY ONLY <1>2, <2>2, <2>3, <2>5
<1>4. CASE ~(On(t.cursor, p) /\ t.cursor.index = i)
  <2>1. SameMark(t.cursor, t'.cursor)
    BY ONLY <1>4, LostMark(t.cursor, t'.cursor, p, i, k) DEF LostMark
  <2>2. Marked(t'.cursor, at') /\ t'.cursor.acquire = t.cursor.acquire
    BY ONLY <1>1, <2>1, at' = at, MarkStays
  <2>3. at = k => t.cursor.acquire
    <3>1. SUFFICES ASSUME at = k, ~t.cursor.acquire PROVE FALSE
      BY <1>1
    <3>2. t.cursor.init
      BY ONLY <1>1, <1>2, <3>1 DEF Marked
    <3>3. QED
      BY ONLY <1>2, <1>4, <3>1, <3>2
  <2>4. QED
    BY ONLY <1>2, <2>2, <2>3
<1>5. QED
  BY ONLY <1>3, <1>4

\* A put that replaced a record, under the cursor or not.
LEMMA OldStep ==
  ASSUME Between, NEW k, NEW d \in Data, NEW p, NEW i, Spot(k, p, i), PutOld(t.cursor, p, i, k, d)
  PROVE  Goes(D!Stored(Now, k, d))
<1>1. at' = at /\ LostMark(t.cursor, t'.cursor, p, i, k) /\ contents' = [contents EXCEPT ![k] = d]
  BY DEF PutOld
<1>2. /\ Marked(t'.cursor, at') /\ k \in Key /\ contents[k] # None
      /\ t'.cursor.acquire <=> t.cursor.acquire \/ at = k
  BY <1>1, MarkLost
<1>3. PICK rec, a, g, h : rec = contents /\ a = at /\ g = t.cursor.acquire /\ h = t'.cursor.acquire
  OBVIOUS
<1>4. rec \in Recs /\ g \in BOOLEAN /\ h \in BOOLEAN
  BY <1>3, BetweenIs
<1>5. h <=> g \/ (a = k /\ rec[k] # None)
  BY ONLY <1>2, <1>3
<1>6. Seen([rec EXCEPT ![k] = d], a, h) = D!Stored(Seen(rec, a, g), k, d)
  BY ONLY <1>2, <1>4, <1>5, d \in Data, StoredIn
<1>7. Seen(contents', at', t'.cursor.acquire) = Seen([rec EXCEPT ![k] = d], a, h)
  BY ONLY <1>1, <1>3
<1>8. QED
  BY ONLY <1>2, <1>3, <1>6, <1>7 DEF Goes, Now

\* A delete, under the cursor or not.
LEMMA GoneStep ==
  ASSUME Between, NEW k, EraseAs(k)
  PROVE  k \in D!Present(Now) /\ Goes(D!Removed(Now, k))
<1>1. PICK p, i : /\ Spot(k, p, i) /\ at' = at /\ contents' = [contents EXCEPT ![k] = None]
                  /\ LostMark(t.cursor, t'.cursor, p, i, k)
  BY DEF EraseAs
<1>2. /\ Marked(t'.cursor, at') /\ k \in Key /\ contents[k] # None
      /\ t'.cursor.acquire <=> t.cursor.acquire \/ at = k
  BY <1>1, MarkLost
<1>3. PICK rec, a, g, h : rec = contents /\ a = at /\ g = t.cursor.acquire /\ h = t'.cursor.acquire
  OBVIOUS
<1>4. rec \in Recs /\ g \in BOOLEAN /\ h \in BOOLEAN
  BY <1>3, BetweenIs
<1>5. (h <=> g \/ a = k) /\ rec[k] # None
  BY ONLY <1>2, <1>3
<1>6. /\ k \in D!Present(Seen(rec, a, g))
      /\ Seen([rec EXCEPT ![k] = None], a, h) = D!Removed(Seen(rec, a, g), k)
  BY ONLY <1>2, <1>4, <1>5, RemovedIn
<1>7. Seen(contents', at', t'.cursor.acquire) = Seen([rec EXCEPT ![k] = None], a, h)
  BY ONLY <1>1, <1>3
<1>8. QED
  BY ONLY <1>2, <1>3, <1>6, <1>7 DEF Goes, Now

\* A key that is not on its leaf is not there.
LEMMA AbsentIs ==
  ASSUME NEW T, NEW R, NEW lv, NEW lo, NEW hi, NEW cont, NEW key, NEW k, NEW p, NEW i,
         Landing(T, R, lv, lo, hi, cont, key, k, p, i), ~Exact(T.page[p], k)
  PROVE  k \in Key /\ cont[k] = None
<1>1. \A j \in 1 .. Len(T.page[p].ents) : T.page[p].ents[j].k # k
  BY ExactIs
<1>2. Sound(T, R, lv, lo, hi, cont) /\ k \in Key /\ p \in R /\ lv[p] = 0 /\ lo[p] <= k /\ k < hi[p]
  BY DEF Landing
<1>3. PICK page : page = T.page
  OBVIOUS
<1>4. TreeOK(page, R, lv, lo, hi, P_INVALID) /\ Held(page, R, lv, cont)
  BY ONLY <1>2, <1>3 DEF Sound
<1>5. SUFFICES ASSUME cont[k] # None PROVE FALSE
  BY <1>2
<1>6. PICK r \in R : /\ lv[r] = 0 /\ lo[r] <= k /\ k < hi[r] /\ lo[r] \in Nat /\ hi[r] \in Nat
                     /\ \E j \in 1 .. Len(page[r].ents) : page[r].ents[j].k = k
  BY ONLY <1>2, <1>4, <1>5, WhereIs
<1>7. TreeOK(page, R, lv, lo, hi, P_INVALID)
  BY ONLY <1>4
<1>8. lo[p] \in Nat /\ hi[p] \in Nat /\ k \in Nat
  <2>1. k \in Nat
    BY <1>2, Numbers DEF Key
  <2>2. QED
    BY ONLY <1>2, <1>7, <2>1, InTree
<1>9. Apart(R, lv, lo, hi)
  BY ONLY <1>7 DEF TreeOK
<1>10. r # p => hi[r] <= lo[p] \/ hi[p] <= lo[r]
  BY ONLY <1>2, <1>6, <1>9 DEF Apart
<1>11. r = p
  BY ONLY <1>2, <1>6, <1>8, <1>10
<1>12. QED
  BY ONLY <1>1, <1>3, <1>6, <1>11

\* Any put.
LEMMA PutOnward ==
  ASSUME Between, NEW k \in Key, NEW d \in Data, PutAs(k, d)
  PROVE  Goes(D!Stored(Now, k, d)) \/ (contents' = contents /\ Goes(Now))
<1>1. Intact'
  BY DEF Between
<1>2. CASE \E R, lv, lo, hi, p, i : /\ Landing(t, R, lv, lo, hi, contents, at, k, p, i) /\ ~Exact(t.page[p], k)
                                    /\ PutNew(t.cursor, k, d)
  <2>1. contents[k] = None
    BY ONLY <1>2, AbsentIs
  <2>2. /\ at' = at /\ SameMark(t.cursor, t'.cursor)
        /\ contents' = contents \/ contents' = [contents EXCEPT ![k] = d]
    BY ONLY <1>1, <1>2 DEF PutNew
  <2>3. CASE contents' = contents
    BY ONLY <2>2, <2>3, Between, StillStep
  <2>4. CASE contents' = [contents EXCEPT ![k] = d]
    <3>1. Marked(t'.cursor, at') /\ t'.cursor.acquire = t.cursor.acquire
      BY <2>2, BetweenIs, MarkStays
    <3>2. PICK rec, a, g : rec = contents /\ a = at /\ g = t.cursor.acquire
      OBVIOUS
    <3>3. rec \in Recs /\ g \in BOOLEAN
      BY <3>2, BetweenIs
    <3>4. g <=> g \/ (a = k /\ rec[k] # None)
      BY ONLY <2>1, <3>2, <3>3
    <3>5. Seen([rec EXCEPT ![k] = d], a, g) = D!Stored(Seen(rec, a, g), k, d)
      BY ONLY <3>3, <3>4, k \in Key, d \in Data, StoredIn
    <3>6. Seen(contents', at', t'.cursor.acquire) = Seen([rec EXCEPT ![k] = d], a, g)
      BY ONLY <2>2, <2>4, <3>1, <3>2
    <3>7. QED
      BY ONLY <3>1, <3>2, <3>5, <3>6 DEF Goes, Now
  <2>5. QED
    BY ONLY <2>2, <2>3, <2>4
<1>3. CASE \E p, i : Spot(k, p, i) /\ PutOld(t.cursor, p, i, k, d)
  BY ONLY <1>3, Between, d \in Data, OldStep
<1>4. CASE at' = at /\ contents' = contents /\ SameMark(t.cursor, t'.cursor)
  BY ONLY <1>4, Between, StillStep
<1>5. QED
  BY ONLY <1>1, <1>2, <1>3, <1>4, PutAs(k, d) DEF PutAs

\* The record a seq finds: the first one from key z on, the last one below it.
Upward(cont, z, k) == k >= z /\ \A y \in Key : cont[y] # None /\ y >= z => k <= y
Downward(cont, z, k) == k < z /\ \A y \in Key : cont[y] # None /\ y < z => y <= k

\* The dictionary finds it too.
LEMMA LeastUp ==
  ASSUME NEW cont, NEW z \in Nat, NEW k \in Key, cont[k] # None, Upward(cont, z, k), NEW S,
         S = {x \in {y \in Key : cont[y] # None} : x >= z}
  PROVE  D!Least(S) = k
<1>1. S \subseteq Nat /\ k \in S /\ \A y \in S : k <= y
  <2>1. Key \subseteq Nat
    BY Numbers DEF Key
  <2>2. QED
    BY <2>1 DEF Upward
<1>2. QED
  BY ONLY <1>1, LeastIs

LEMMA GreatestDown ==
  ASSUME NEW cont, NEW z \in Nat, NEW k \in Key, cont[k] # None, Downward(cont, z, k), NEW S,
         S = {x \in {y \in Key : cont[y] # None} : x < z}
  PROVE  D!Greatest(S) = k
<1>1. S \subseteq Nat /\ k \in S /\ \A y \in S : y <= k
  <2>1. Key \subseteq Nat
    BY Numbers DEF Key
  <2>2. QED
    BY <2>1 DEF Downward
<1>2. QED
  BY ONLY <1>1, GreatestIs

\* Nothing from key z on, nothing below it.
LEMMA LeastNone ==
  ASSUME NEW cont, NEW z, \A y \in Key : cont[y] # None => ~(y >= z), NEW S,
         S = {x \in {y \in Key : cont[y] # None} : x >= z}
  PROVE  D!Least(S) = None
BY DEF D!Least

LEMMA GreatestNone ==
  ASSUME NEW cont, NEW z, \A y \in Key : cont[y] # None => ~(y < z), NEW S,
         S = {x \in {y \in Key : cont[y] # None} : x < z}
  PROVE  D!Greatest(S) = None
BY DEF D!Greatest

\* A record on a leaf is in the database.
LEMMA RecordIs ==
  ASSUME NEW R, NEW lv, NEW lo, NEW hi, Sound(t, R, lv, lo, hi, contents), NEW e, IsRecord(t.page, R, lv, e)
  PROVE  KeyAt(t.page, e) \in Key /\ contents[KeyAt(t.page, e)] # None
<1>1. PICK page, p, i : page = t.page /\ p = e.pgno /\ i = e.index
  OBVIOUS
<1>2. TreeOK(page, R, lv, lo, hi, P_INVALID) /\ Held(page, R, lv, contents)
  BY <1>1 DEF Sound
<1>3. TreeOK(page, R, lv, lo, hi, P_INVALID)
  BY ONLY <1>2
<1>4. p \in R /\ lv[p] = 0 /\ i \in 1 .. Len(page[p].ents)
  BY ONLY <1>1, IsRecord(t.page, R, lv, e) DEF IsRecord
<1>5. page[p].ents[i].k \in Key /\ page[p].ents[i].v \in Data
  BY ONLY <1>3, <1>4, InTree
<1>6. contents[page[p].ents[i].k] = page[p].ents[i].v
  BY ONLY <1>2, <1>4 DEF Held
<1>7. KeyAt(t.page, e) = page[p].ents[i].k
  BY ONLY <1>1 DEF KeyAt
<1>8. QED
  BY ONLY <1>5, <1>6, <1>7, Numbers

\* The record that a scan from z returns.
LEMMA UpReturns ==
  ASSUME NEW R, NEW lv, NEW lo, NEW hi, Sound(t, R, lv, lo, hi, contents), NEW z \in Nat, NEW e,
         FoundUp(t.page, R, lv, contents, z, e)
  PROVE  Returned(e) = D!Least({x \in {y \in Key : contents[y] # None} : x >= z})
<1>1. PICK S : S = {x \in {y \in Key : contents[y] # None} : x >= z}
  OBVIOUS
<1>2. CASE e = Nowhere
  <2>1. Returned(e) = None
    BY ONLY <1>2 DEF Returned
  <2>2. \A y \in Key : contents[y] # None => ~(y >= z)
    <3>1. Key \subseteq Nat
      BY Numbers DEF Key
    <3>2. \A y \in Key : contents[y] # None => y < z
      BY ONLY <1>2, FoundUp(t.page, R, lv, contents, z, e) DEF FoundUp
    <3>3. QED
      BY ONLY <3>1, <3>2, z \in Nat
  <2>3. D!Least(S) = None
    BY ONLY <1>1, <2>2, LeastNone
  <2>4. QED
    BY ONLY <1>1, <2>1, <2>3
<1>3. CASE e # Nowhere
  <2>1. PICK k : k = KeyAt(t.page, e)
    OBVIOUS
  <2>2. IsRecord(t.page, R, lv, e) /\ Upward(contents, z, k)
    BY ONLY <1>3, <2>1, FoundUp(t.page, R, lv, contents, z, e) DEF FoundUp, Upward
  <2>3. k \in Key /\ contents[k] # None
    BY ONLY <2>1, <2>2, Sound(t, R, lv, lo, hi, contents), RecordIs
  <2>4. D!Least(S) = k
    BY ONLY <1>1, <2>2, <2>3, z \in Nat, LeastUp
  <2>5. Returned(e) = k
    BY ONLY <1>3, <2>1 DEF Returned, KeyAt
  <2>6. QED
    BY ONLY <1>1, <2>4, <2>5
<1>4. QED
  BY ONLY <1>2, <1>3

LEMMA DownReturns ==
  ASSUME NEW R, NEW lv, NEW lo, NEW hi, Sound(t, R, lv, lo, hi, contents), NEW z \in Nat, NEW e,
         FoundDown(t.page, R, lv, contents, z, e)
  PROVE  Returned(e) = D!Greatest({x \in {y \in Key : contents[y] # None} : x < z})
<1>1. PICK S : S = {x \in {y \in Key : contents[y] # None} : x < z}
  OBVIOUS
<1>2. CASE e = Nowhere
  <2>1. Returned(e) = None
    BY ONLY <1>2 DEF Returned
  <2>2. \A y \in Key : contents[y] # None => ~(y < z)
    <3>1. Key \subseteq Nat
      BY Numbers DEF Key
    <3>2. \A y \in Key : contents[y] # None => y >= z
      BY ONLY <1>2, FoundDown(t.page, R, lv, contents, z, e) DEF FoundDown
    <3>3. QED
      BY ONLY <3>1, <3>2, z \in Nat
  <2>3. D!Greatest(S) = None
    BY ONLY <1>1, <2>2, GreatestNone
  <2>4. QED
    BY ONLY <1>1, <2>1, <2>3
<1>3. CASE e # Nowhere
  <2>1. PICK k : k = KeyAt(t.page, e)
    OBVIOUS
  <2>2. IsRecord(t.page, R, lv, e) /\ Downward(contents, z, k)
    BY ONLY <1>3, <2>1, FoundDown(t.page, R, lv, contents, z, e) DEF FoundDown, Downward
  <2>3. k \in Key /\ contents[k] # None
    BY ONLY <2>1, <2>2, Sound(t, R, lv, lo, hi, contents), RecordIs
  <2>4. D!Greatest(S) = k
    BY ONLY <1>1, <2>2, <2>3, z \in Nat, GreatestDown
  <2>5. Returned(e) = k
    BY ONLY <1>3, <2>1 DEF Returned, KeyAt
  <2>6. QED
    BY ONLY <1>1, <2>4, <2>5
<1>4. QED
  BY ONLY <1>2, <1>3

\* What the user sees is the dictionary of contents and at.
LEMMA AsDictIs ==
  ASSUME Running, Marked(t.cursor, at)
  PROVE  AsDict = Now
<1>1. Fine(t, contents, at) /\ contents \in [Key -> Data \cup {None}]
  BY DEF Running, TypeOK
<1>2. DictOf(t) = Seen(contents, at, t.cursor.acquire)
  BY ONLY <1>1, Marked(t.cursor, at), SeeingIs
<1>3. QED
  BY ONLY <1>2 DEF AsDict, Now, DictOf, KeyOf, CursorKey

\* __bt_seq returns what the dictionary has there.
LEMMA SeqReturns ==
  ASSUME Running, Marked(t.cursor, at)
  PROVE  SeqAgrees
<1>1. PICK R, lv, lo, hi : Mid(t, R, lv, at) /\ Sound(t, R, lv, lo, hi, contents)
  BY NowIs
<1>2. CursorOK(t.cursor, t.page, R, lv, at)
  BY ONLY <1>1 DEF Mid
<1>3. PICK d : d = AsDict
  OBVIOUS
<1>4. PICK P : P = {y \in Key : contents[y] # None}
  OBVIOUS
<1>5. d = Seen(contents, at, t.cursor.acquire)
  BY <1>3, AsDictIs DEF Now
<1>6. D!Present(d) = P /\ d.at = at
  BY ONLY <1>4, <1>5, SeenIs
<1>7. /\ Key \subseteq Nat /\ P \subseteq Key /\ None \notin Key /\ MaxKey + 1 \in Nat /\ 0 \in Nat
      /\ \A y \in Key : y >= 0 /\ y < MaxKey + 1
  BY <1>4, Numbers DEF Key
<1>8. at \in Key \cup {None}
  BY DEF Running, TypeOK
<1>9. ASSUME NEW e, FoundUp(t.page, R, lv, contents, 0, e) PROVE Returned(e) = D!First(d)
  <2>1. Returned(e) = D!Least({x \in P : x >= 0})
    BY ONLY <1>1, <1>4, <1>7, <1>9, UpReturns
  <2>2. {x \in P : x >= 0} = P
    BY ONLY <1>7
  <2>3. QED
    BY ONLY <1>6, <2>1, <2>2 DEF D!First
<1>10. ASSUME NEW e, FoundDown(t.page, R, lv, contents, MaxKey + 1, e) PROVE Returned(e) = D!Last(d)
  <2>1. Returned(e) = D!Greatest({x \in P : x < MaxKey + 1})
    BY ONLY <1>1, <1>4, <1>7, <1>10, DownReturns
  <2>2. {x \in P : x < MaxKey + 1} = P
    BY ONLY <1>7
  <2>3. QED
    BY ONLY <1>6, <2>1, <2>2 DEF D!Last
<1>11. Returned(Edge(t, FALSE)) = D!First(d)
  <2>1. FoundUp(t.page, R, lv, contents, 0, Edge(t, FALSE))
    BY ONLY <1>1, EdgeFirst
  <2>2. QED
    BY ONLY <1>9, <2>1
<1>12. Returned(Edge(t, TRUE)) = D!Last(d)
  <2>1. FoundDown(t.page, R, lv, contents, MaxKey + 1, Edge(t, TRUE))
    BY ONLY <1>1, EdgeLast
  <2>2. QED
    BY ONLY <1>10, <2>1
<1>13. ASSUME NEW k \in Key PROVE Returned(First(t, k)) = D!From(d, k)
  <2>1. FoundUp(t.page, R, lv, contents, k, First(t, k)) /\ k \in Nat
    BY ONLY <1>1, <1>7, <1>13, FirstIs
  <2>2. Returned(First(t, k)) = D!Least({x \in P : x >= k})
    BY ONLY <1>1, <1>4, <2>1, UpReturns
  <2>3. QED
    BY ONLY <1>6, <2>2 DEF D!From
<1>14. ASSUME ~PutAgain PROVE Returned(Step(t, TRUE)) = D!Following(d)
  <2>1. PICK e : e = Step(t, TRUE)
    OBVIOUS
  <2>2. StepsTo(t, R, lv, contents, at, TRUE)
    BY ONLY <1>1, <1>2, StepIs
  <2>3. CASE ~t.cursor.init
    <3>1. FoundUp(t.page, R, lv, contents, 0, e) /\ at = None
      BY ONLY <2>1, <2>2, <2>3, Marked(t.cursor, at) DEF StepsTo, Marked
    <3>2. D!Following(d) = D!First(d)
      BY ONLY <1>6, <3>1 DEF D!Following
    <3>3. QED
      BY ONLY <1>9, <2>1, <3>1, <3>2
  <2>4. CASE t.cursor.init /\ t.cursor.acquire
    <3>1. t.cursor.key = at /\ at \in Key /\ FoundUp(t.page, R, lv, contents, at, e)
      BY ONLY <1>8, <2>1, <2>2, <2>4, Marked(t.cursor, at) DEF StepsTo, Marked
    <3>2. Get(t, at) = None
      BY ONLY <1>14, <2>4, <3>1 DEF PutAgain
    <3>3. contents[at] = None
      BY ONLY <3>1, <3>2, Running, GetAll
    <3>4. at \notin P /\ at \in Nat
      BY ONLY <1>4, <1>7, <3>1, <3>3
    <3>5. Returned(e) = D!Least({x \in P : x >= at})
      BY ONLY <1>1, <1>4, <3>1, <3>4, UpReturns
    <3>6. {x \in P : x >= at} = {x \in P : x > at}
      <4>1. \A x \in P : x \in Nat /\ x # at
        BY ONLY <1>7, <3>4
      <4>2. \A x \in P : x >= at <=> x > at
        BY ONLY <3>4, <4>1
      <4>3. QED
        BY ONLY <4>2
    <3>7. D!Following(d) = D!Least({x \in P : x > at})
      BY ONLY <1>6, <1>7, <3>1 DEF D!Following
    <3>8. QED
      BY ONLY <2>1, <3>5, <3>6, <3>7
  <2>5. CASE t.cursor.init /\ ~t.cursor.acquire
    <3>1. FoundUp(t.page, R, lv, contents, at + 1, e) /\ at \in Key
      BY ONLY <1>8, <2>1, <2>2, <2>5, Marked(t.cursor, at) DEF StepsTo, Marked
    <3>2. at \in Nat /\ at + 1 \in Nat
      BY ONLY <1>7, <3>1
    <3>3. Returned(e) = D!Least({x \in P : x >= at + 1})
      BY ONLY <1>1, <1>4, <3>1, <3>2, UpReturns
    <3>4. {x \in P : x >= at + 1} = {x \in P : x > at}
      <4>1. \A x \in P : x \in Nat
        BY ONLY <1>7
      <4>2. \A x \in P : x >= at + 1 <=> x > at
        BY ONLY <3>2, <4>1
      <4>3. QED
        BY ONLY <4>2
    <3>5. D!Following(d) = D!Least({x \in P : x > at})
      BY ONLY <1>6, <1>7, <3>1 DEF D!Following
    <3>6. QED
      BY ONLY <2>1, <3>3, <3>4, <3>5
  <2>6. QED
    BY ONLY <2>3, <2>4, <2>5
<1>15. ASSUME ~t.cursor.acquire PROVE Returned(Step(t, FALSE)) = D!Preceding(d)
  <2>1. PICK e : e = Step(t, FALSE)
    OBVIOUS
  <2>2. StepsTo(t, R, lv, contents, at, FALSE)
    BY ONLY <1>1, <1>2, StepIs
  <2>3. CASE ~t.cursor.init
    <3>1. FoundDown(t.page, R, lv, contents, MaxKey + 1, e) /\ at = None
      BY ONLY <2>1, <2>2, <2>3, Marked(t.cursor, at) DEF StepsTo, Marked
    <3>2. D!Preceding(d) = D!Last(d)
      BY ONLY <1>6, <3>1 DEF D!Preceding
    <3>3. QED
      BY ONLY <1>10, <2>1, <3>1, <3>2
  <2>4. CASE t.cursor.init
    <3>1. FoundDown(t.page, R, lv, contents, at, e) /\ at \in Key
      BY ONLY <1>8, <1>15, <2>1, <2>2, <2>4, Marked(t.cursor, at) DEF StepsTo, Marked
    <3>2. at \in Nat
      BY ONLY <1>7, <3>1
    <3>3. Returned(e) = D!Greatest({x \in P : x < at})
      BY ONLY <1>1, <1>4, <3>1, <3>2, DownReturns
    <3>4. D!Preceding(d) = D!Greatest({x \in P : x < at})
      BY ONLY <1>6, <1>7, <3>1 DEF D!Preceding
    <3>5. QED
      BY ONLY <2>1, <3>3, <3>4
  <2>5. QED
    BY ONLY <2>3, <2>4
<1>16. QED
  BY ONLY <1>3, <1>11, <1>12, <1>13, <1>14, <1>15 DEF SeqAgrees

\* The tree after a step.
LEMMA FineAfter ==
  ASSUME Between
  PROVE  Fine(t', contents', at') /\ contents' \in [Key -> Data \cup {None}]
<1>1. IInv' /\ Intact'
  BY DEF Between
<1>2. TypeOK' /\ Good'
  BY ONLY <1>1 DEF IInv
<1>3. QED
  BY ONLY <1>2 DEF TypeOK, Good, Fine, Mid, Sound, Tree, TreeM

\* __bt_seq, of any flag, that finds record e
LEMMA SeqOnward ==
  ASSUME Between, NEW e, SeqTo(e)
  PROVE  Returned(e) # None /\ Goes(D!Moved(Now, Returned(e)))
<1>1. PICK c : c = [init |-> TRUE, acquire |-> FALSE, key |-> None, pgno |-> e.pgno, index |-> e.index]
  OBVIOUS
<1>2. c.init /\ ~c.acquire
  BY ONLY <1>1
<1>3. t' = [t EXCEPT !.cursor = c] /\ at' = t.page[e.pgno].ents[e.index].k /\ contents' = contents /\ e # Nowhere
  BY ONLY <1>1, SeqTo(e) DEF SeqTo
<1>4. t \in Tree /\ t'.cursor.acquire \in BOOLEAN
  BY BetweenIs DEF Running, TypeOK
<1>5. t'.cursor = c
  BY ONLY <1>3, <1>4 DEF Tree
<1>6. PICK k : k = Returned(e)
  OBVIOUS
<1>7. at' = k
  BY ONLY <1>3, <1>6 DEF Returned
<1>8. k # None
  <2>1. PICK T, a, cont : T = t' /\ a = at' /\ cont = contents'
    OBVIOUS
  <2>2. Fine(T, cont, a)
    BY <2>1, FineAfter
  <2>3. PICK R, lv, lo, hi : Mid(T, R, lv, a) /\ Sound(T, R, lv, lo, hi, cont)
    BY ONLY <2>2 DEF Fine
  <2>4. CursorOK(T.cursor, T.page, R, lv, a) /\ TreeOK(T.page, R, lv, lo, hi, P_INVALID)
    BY ONLY <2>3 DEF Mid, Sound
  <2>5. T.cursor.init /\ ~T.cursor.acquire
    BY ONLY <1>2, <1>5, <2>1
  <2>6. PICK p, i : p = T.cursor.pgno /\ i = T.cursor.index
    OBVIOUS
  <2>7. p \in R /\ lv[p] = 0 /\ i \in 1 .. Len(T.page[p].ents) /\ T.page[p].ents[i].k = a
    BY ONLY <2>4, <2>5, <2>6 DEF CursorOK
  <2>8. T.page[p].ents[i].k \in Key
    BY ONLY <2>4, <2>7, InTree
  <2>9. QED
    BY ONLY <1>7, <2>1, <2>7, <2>8, Numbers DEF Key
<1>9. Marked(t'.cursor, at')
  BY ONLY <1>2, <1>5, <1>7, <1>8 DEF Marked
<1>10. PICK rec, a, g, f : rec = contents /\ a = at /\ g = t.cursor.acquire /\ f = t'.cursor.acquire
  OBVIOUS
<1>11. f \in BOOLEAN /\ ~f
  BY ONLY <1>2, <1>4, <1>5, <1>10
<1>12. Seen(rec, k, f) = D!Moved(Seen(rec, a, g), k)
  BY ONLY <1>11, MovedIn
<1>13. Seen(contents', at', t'.cursor.acquire) = D!Moved(Now, k)
  BY ONLY <1>3, <1>7, <1>10, <1>12 DEF Now
<1>14. QED
  BY ONLY <1>6, <1>8, <1>9, <1>13 DEF Goes

LEMMA ReopenOnward ==
  ASSUME Between, Reopen
  PROVE  Goes(D!Reopened(Now))
<1>1. at' = None /\ contents' = contents
      /\ t' = IF Saved = None THEN NewTree ELSE [t EXCEPT !.free = Saved, !.cursor = NoCursor, !.last = NoHint]
  BY DEF Reopen
<1>2. t \in Tree
  BY BetweenIs DEF Running, TypeOK
<1>3. t'.cursor = NoCursor
  <2>1. CASE Saved = None
    <3>1. NewTree.cursor = NoCursor
      BY ONLY DEF NewTree
    <3>2. QED
      BY ONLY <1>1, <2>1, <3>1
  <2>2. CASE Saved # None
    <3>1. t' = [t EXCEPT !.free = Saved, !.cursor = NoCursor, !.last = NoHint]
      BY ONLY <1>1, <2>2
    <3>2. QED
      BY ONLY <1>2, <3>1 DEF Tree
  <2>3. QED
    BY ONLY <2>1, <2>2
<1>4. ~NoCursor.init /\ ~NoCursor.acquire
  BY ONLY NoCursorIs
<1>5. Marked(t'.cursor, at')
  BY ONLY <1>1, <1>3, <1>4 DEF Marked
<1>6. t'.cursor.acquire = FALSE
  <2>1. t'.cursor.acquire \in BOOLEAN /\ ~t'.cursor.acquire
    BY <1>3, <1>4, BetweenIs
  <2>2. QED
    BY ONLY <2>1
<1>7. Seen(contents', at', t'.cursor.acquire) = Seen(contents, None, FALSE)
  BY ONLY <1>1, <1>6
<1>8. Seen(contents, None, FALSE) = D!Reopened(Seen(contents, at, t.cursor.acquire))
  BY ONLY ReopenedIn
<1>9. QED
  BY ONLY <1>5, <1>7, <1>8 DEF Goes, Now

LEMMA SyncOnward ==
  ASSUME Between, Sync
  PROVE  Goes(Now)
<1>1. t' = t /\ at' = at /\ contents' = contents
  BY DEF Sync
<1>2. SameMark(t.cursor, t'.cursor)
  BY ONLY <1>1 DEF SameMark
<1>3. QED
  BY ONLY <1>1, <1>2, Between, StillStep

\* The inductive invariant of the refinement.
DInv == IInv /\ (Intact => Marked(t.cursor, at))

\* The invariant holds before and after a step that damages nothing.
LEMMA BetweenNow ==
  ASSUME DInv, Next, Intact'
  PROVE  Between
<1>1. Intact
  BY Damaged
<1>2. Running /\ Marked(t.cursor, at)
  BY <1>1, RunningInv DEF DInv
<1>3. IInv /\ [Next]_vars
  BY DEF DInv
<1>4. IInv'
  BY ONLY <1>3, NextInv
<1>5. QED
  BY ONLY <1>2, <1>4, Intact' DEF Between

\* What the user sees before a step, and after one to d.
LEMMA GoesIs ==
  ASSUME Between
  PROVE  AsDict = Now /\ \A d : Goes(d) => AsDict' = d
<1>1. AsDict = Now
  BY BetweenIs, AsDictIs
<1>2. ASSUME NEW d, Goes(d) PROVE AsDict' = d
  <2>1. Marked(t'.cursor, at') /\ Seen(contents', at', t'.cursor.acquire) = d
    BY ONLY <1>2 DEF Goes
  <2>2. DictOf(t') = Seen(contents', at', t'.cursor.acquire)
    BY ONLY <2>1, Between, FineAfter, SeeingIs
  <2>3. QED
    BY ONLY <2>1, <2>2 DEF AsDict, DictOf, KeyOf, CursorKey
<1>3. QED
  BY ONLY <1>1, <1>2

\* Every operation goes where the dictionary goes.
LEMMA OpsGo ==
  ASSUME Between
  PROVE  /\ \A k \in Key, d \in Data :
              Put(k, d) => Goes(D!Stored(Now, k, d)) \/ (contents' = contents /\ Goes(Now))
         /\ \A d \in Data : PutCursor(d) => Goes(D!Stored(Now, at, d))
         /\ \A k \in Key : Del(k) => k \in D!Present(Now) /\ Goes(D!Removed(Now, k))
         /\ DelCursor => at \in D!Present(Now) /\ Goes(D!Removed(Now, at))
         /\ \A e : SeqTo(e) => Returned(e) # None /\ Goes(D!Moved(Now, Returned(e)))
         /\ Sync => Goes(Now)
         /\ Reopen => Goes(D!Reopened(Now))
<1>1. Running
  BY DEF Between
<1>2. ASSUME NEW k \in Key, NEW d \in Data, Put(k, d)
      PROVE  Goes(D!Stored(Now, k, d)) \/ (contents' = contents /\ Goes(Now))
  <2>1. PutAs(k, d)
    BY ONLY <1>1, <1>2, PutStep
  <2>2. QED
    BY ONLY <1>2, <2>1, Between, PutOnward
<1>3. ASSUME NEW d \in Data, PutCursor(d) PROVE Goes(D!Stored(Now, at, d))
  <2>1. PICK p, i : Spot(at, p, i) /\ PutOld(t.cursor, p, i, at, d)
    BY ONLY <1>1, <1>3, PutCursorStep
  <2>2. QED
    BY ONLY <1>3, <2>1, Between, OldStep
<1>4. ASSUME NEW k \in Key, Del(k) PROVE k \in D!Present(Now) /\ Goes(D!Removed(Now, k))
  <2>1. EraseAs(k)
    BY ONLY <1>1, <1>4, DelStep
  <2>2. QED
    BY ONLY <2>1, Between, GoneStep
<1>5. ASSUME DelCursor PROVE at \in D!Present(Now) /\ Goes(D!Removed(Now, at))
  <2>1. EraseAs(at)
    BY ONLY <1>1, <1>5, DelCursorStep
  <2>2. QED
    BY ONLY <2>1, Between, GoneStep
<1>6. \A e : SeqTo(e) => Returned(e) # None /\ Goes(D!Moved(Now, Returned(e)))
  BY ONLY Between, SeqOnward
<1>7. (Sync => Goes(Now)) /\ (Reopen => Goes(D!Reopened(Now)))
  BY ONLY Between, SyncOnward, ReopenOnward
<1>8. QED
  BY ONLY <1>2, <1>3, <1>4, <1>5, <1>6, <1>7

LEMMA InitDInv == Init => DInv
<1>1. SUFFICES ASSUME Init PROVE DInv
  OBVIOUS
<1>2. IInv
  BY ONLY <1>1, InitInv
<1>3. t = NewTree /\ at = None
  BY ONLY <1>1 DEF Init
<1>4. t.cursor = NoCursor
  BY ONLY <1>3 DEF NewTree
<1>5. Marked(t.cursor, at)
  BY ONLY <1>3, <1>4, NoCursorIs DEF Marked
<1>6. QED
  BY ONLY <1>2, <1>5 DEF DInv

LEMMA NextDInv == DInv /\ [Next]_vars => DInv'
<1>1. SUFFICES ASSUME DInv, [Next]_vars PROVE DInv'
  OBVIOUS
<1>2. IInv'
  BY ONLY <1>1, NextInv DEF DInv
<1>3. ASSUME Intact' PROVE Marked(t.cursor, at)'
  <2>1. CASE UNCHANGED vars
    <3>1. t' = t /\ at' = at /\ flaw' = flaw /\ panic' = panic
      BY ONLY <2>1 DEF vars
    <3>2. QED
      BY ONLY <1>1, <1>3, <3>1 DEF DInv, Intact, Marked
  <2>2. CASE Next
    <3>1. Between
      BY ONLY <1>1, <1>3, <2>2, BetweenNow
    <3>2. \E d : Goes(d)
      BY ONLY <2>2, <3>1, OpsGo DEF Next, SeqFirst, SeqLast, SeqCursor, SeqNext, SeqPrev
    <3>3. QED
      BY ONLY <3>2 DEF Goes
  <2>3. QED
    BY ONLY <1>1, <2>1, <2>2
<1>4. QED
  BY ONLY <1>2, <1>3 DEF DInv

LEMMA InitDict == Init => D!Init
<1>1. SUFFICES ASSUME Init PROVE D!Init
  OBVIOUS
<1>2. DInv /\ Intact
  <2>1. Intact
    BY ONLY <1>1 DEF Init, Intact
  <2>2. QED
    BY ONLY <1>1, <2>1, InitDInv
<1>3. Running /\ Marked(t.cursor, at)
  BY ONLY <1>2, RunningInv DEF DInv
<1>4. Fine(t, contents, at) /\ contents \in [Key -> Data \cup {None}]
  BY ONLY <1>3 DEF Running, TypeOK
<1>5. DictOf(t) = Seen(contents, at, t.cursor.acquire)
  BY ONLY <1>3, <1>4, SeeingIs
<1>6. t = NewTree /\ at = None /\ contents = [k \in Key |-> None]
  BY ONLY <1>1 DEF Init
<1>7. t.cursor.acquire = FALSE
  BY ONLY <1>6 DEF NewTree, NoCursor
<1>8. DictOf(t) = [rec |-> [k \in Key |-> None], at |-> None, gone |-> FALSE]
  BY ONLY <1>5, <1>6, <1>7 DEF Seen
<1>9. DictOf(t) = D!New
  BY ONLY <1>8 DEF D!New, D!Key, Key
<1>10. QED
  BY ONLY <1>9 DEF D!Init, AsDict, DictOf, KeyOf, CursorKey

\* Every step of an undamaged tree is the dictionary's step of that name.
LEMMA NextOps == DInv /\ [Next]_vars => [Intact' => OpsAgree]_vars
<1>1. SUFFICES ASSUME DInv, Next, Intact' PROVE OpsAgree
  OBVIOUS
<1>2. Between
  BY ONLY <1>1, BetweenNow
<1>3. SeqAgrees
  BY ONLY <1>2, SeqReturns DEF Between
<1>4. AsDict = Now /\ \A d : Goes(d) => AsDict' = d
  BY ONLY <1>2, GoesIs
<1>5. /\ \A k \in Key, d \in Data :
           Put(k, d) => Goes(D!Stored(Now, k, d)) \/ (contents' = contents /\ Goes(Now))
      /\ \A d \in Data : PutCursor(d) => Goes(D!Stored(Now, at, d))
      /\ \A k \in Key : Del(k) => k \in D!Present(Now) /\ Goes(D!Removed(Now, k))
      /\ DelCursor => at \in D!Present(Now) /\ Goes(D!Removed(Now, at))
      /\ \A e : SeqTo(e) => Returned(e) # None /\ Goes(D!Moved(Now, Returned(e)))
      /\ Sync => Goes(Now)
      /\ Reopen => Goes(D!Reopened(Now))
  BY ONLY <1>2, OpsGo
<1>6. \A k \in Key, d \in Data : Put(k, d) => D!Put(k, d) \/ (contents' = contents /\ D!Same)
  BY ONLY <1>4, <1>5 DEF D!Put, D!Same
<1>7. \A d \in Data : PutCursor(d) => D!Put(at, d)
  BY ONLY <1>4, <1>5 DEF D!Put
<1>8. (\A k \in Key : Del(k) => D!Del(k)) /\ (DelCursor => D!Del(at))
  BY ONLY <1>4, <1>5 DEF D!Del
<1>9. ASSUME NEW e, SeqTo(e) PROVE D!Seq(Returned(e))
  BY ONLY <1>4, <1>5, <1>9 DEF D!Seq
<1>10. (SeqFirst => D!SeqFirst) /\ (SeqLast => D!SeqLast)
  BY ONLY <1>3, <1>9 DEF SeqAgrees, SeqFirst, SeqLast, D!SeqFirst, D!SeqLast
<1>11. \A k \in Key : SeqCursor(k) => D!SeqCursor(k)
  BY ONLY <1>3, <1>9 DEF SeqAgrees, SeqCursor, D!SeqCursor
<1>12. /\ SeqNext /\ ~PutAgain => D!SeqNext
       /\ SeqPrev /\ ~t.cursor.acquire => D!SeqPrev
  BY ONLY <1>3, <1>9 DEF SeqAgrees, SeqNext, SeqPrev, D!SeqNext, D!SeqPrev
<1>13. (Sync => D!Same) /\ (Reopen => D!Reopen)
  BY ONLY <1>4, <1>5 DEF D!Same, D!Reopen
<1>14. QED
  BY ONLY <1>6, <1>7, <1>8, <1>10, <1>11, <1>12, <1>13 DEF OpsAgree

\* The B-tree is the dictionary of the manual: as long as it is undamaged,
\* every put, del, seq, sync, close and open, with whatever splits, removals of
\* pages and adjustments of the cursor it makes, does what that very operation
\* does to a dictionary, and each flag of seq returns the record the dictionary
\* has there, except R_NEXT from a record put again and R_PREV from one gone.
THEOREM Refinement == Spec => ImplementsDictionary
<1>1. Init => DInv
  BY InitDInv
<1>2. DInv /\ [Next]_vars => DInv'
  BY NextDInv
<1>3. Init => D!Init
  BY InitDict
<1>4. DInv => (Intact => SeqAgrees)
  <2>1. SUFFICES ASSUME DInv, Intact PROVE SeqAgrees
    OBVIOUS
  <2>2. Running /\ Marked(t.cursor, at)
    BY ONLY <2>1, RunningInv DEF DInv
  <2>3. QED
    BY ONLY <2>2, SeqReturns
<1>5. DInv /\ [Next]_vars => [Intact' => OpsAgree]_vars
  BY NextOps
<1>6. QED
  BY <1>1, <1>2, <1>3, <1>4, <1>5, PTL DEF Spec, ImplementsDictionary

-----------------------------------------------------------------------------
(* The levels of the tree from left to right *)

\* The table of FlattenSeq.
IsFlat(ss, n, f) == f = [i \in 1 .. n |-> IF i = 1 THEN ss[i] ELSE f[i - 1] \o ss[i]]

\* The table that FlattenSeq builds exists.
LEMMA FlatExists ==
  ASSUME NEW ss, NEW n \in Nat
  PROVE  \E f : IsFlat(ss, n, f)
<1> DEFINE S == {m \in Nat : \E f : IsFlat(ss, m, f)}
<1>1. 0 \in S
  <2>1. PICK f : f = [j \in 1 .. 0 |-> ss[j]]
    OBVIOUS
  <2>2. f = [j \in 1 .. 0 |-> IF j = 1 THEN ss[j] ELSE f[j - 1] \o ss[j]]
    BY ONLY <2>1
  <2>3. IsFlat(ss, 0, f)
    BY ONLY <2>2 DEF IsFlat
  <2>4. QED
    BY <2>3
<1>2. ASSUME NEW m \in 0 .. n, m # n, m \in S PROVE m + 1 \in S
  <2>1. PICK f : IsFlat(ss, m, f)
    BY <1>2
  <2>2. m \in Nat /\ m + 1 \in Nat
    BY <1>2
  <2>3. PICK h : h = [j \in 1 .. m + 1 |-> f[j - 1] \o ss[j]]
    OBVIOUS
  <2>4. PICK g : g = [j \in 1 .. m + 1 |-> IF j \in 1 .. m THEN f[j] ELSE IF j = 1 THEN ss[j] ELSE h[j]]
    OBVIOUS
  <2>5. \A j \in 1 .. m + 1 : j # 1 => j - 1 \in 1 .. m /\ j - 1 \in 1 .. m + 1
    BY ONLY <2>2
  <2>6. \A j \in 1 .. m + 1 : j # 1 => g[j - 1] = f[j - 1]
    BY ONLY <2>4, <2>5
  <2>7. f = [j \in 1 .. m |-> IF j = 1 THEN ss[j] ELSE f[j - 1] \o ss[j]]
    BY ONLY <2>1 DEF IsFlat
  <2>8. \A j \in 1 .. m : j \in 1 .. m + 1 /\ f[j] = IF j = 1 THEN ss[j] ELSE h[j]
    <3>1. \A j \in 1 .. m : j \in 1 .. m + 1
      BY ONLY <2>2
    <3>2. \A j \in 1 .. m + 1 : h[j] = f[j - 1] \o ss[j]
      BY ONLY <2>3
    <3>3. \A j \in 1 .. m : f[j] = IF j = 1 THEN ss[j] ELSE f[j - 1] \o ss[j]
      BY ONLY <2>7
    <3>4. QED
      BY ONLY <3>1, <3>2, <3>3
  <2>9. \A j \in 1 .. m + 1 : g[j] = IF j = 1 THEN ss[j] ELSE h[j]
    BY ONLY <2>4, <2>8
  <2>10. \A j \in 1 .. m + 1 : j # 1 => h[j] = g[j - 1] \o ss[j]
    BY ONLY <2>3, <2>6
  <2>11. g = [j \in 1 .. m + 1 |-> IF j = 1 THEN ss[j] ELSE g[j - 1] \o ss[j]]
    BY ONLY <2>4, <2>9, <2>10
  <2>12. IsFlat(ss, m + 1, g)
    BY ONLY <2>11 DEF IsFlat
  <2>13. QED
    BY <2>2, <2>12
<1>3. n \in S
  <2> HIDE DEF S
  <2>1. \A m \in 0 .. n : m \in S
    BY <1>1, <1>2, Counting
  <2>2. QED
    BY <2>1
<1>4. QED
  BY <1>3

\* FlattenSeq is its last entry.
LEMMA FlatIs ==
  ASSUME NEW ss, Len(ss) \in Nat, Len(ss) # 0
  PROVE  \E f : IsFlat(ss, Len(ss), f) /\ FlattenSeq(ss) = f[Len(ss)]
<1> DEFINE f == CHOOSE g : IsFlat(ss, Len(ss), g)
<1>1. IsFlat(ss, Len(ss), f)
  <2>1. \E g : IsFlat(ss, Len(ss), g)
    BY FlatExists
  <2>2. QED
    BY <2>1
<1>2. FlattenSeq(ss) = f[Len(ss)]
  BY DEF FlattenSeq, IsFlat
<1> HIDE DEF f
<1>3. QED
  BY <1>1, <1>2

\* An invariant of the concatenation holds of the whole.
LEMMA FlatInd ==
  ASSUME NEW ss, NEW n \in Nat, Len(ss) = n, n # 0, NEW Q, ss[1] \in Q[1],
         \A i \in 1 .. n : i # n => \A x \in Q[i] : x \o ss[i + 1] \in Q[i + 1]
  PROVE  FlattenSeq(ss) \in Q[n]
<1>1. PICK f : IsFlat(ss, n, f) /\ FlattenSeq(ss) = f[n]
  BY FlatIs
<1>2. \A i \in 1 .. n : f[i] = IF i = 1 THEN ss[i] ELSE f[i - 1] \o ss[i]
  BY ONLY <1>1 DEF IsFlat
<1> DEFINE S == {i \in Nat : i # 0 => f[i] \in Q[i]}
<1>3. 0 \in S
  OBVIOUS
<1>4. ASSUME NEW m \in 0 .. n, m # n, m \in S PROVE m + 1 \in S
  <2>1. m \in Nat /\ m + 1 \in Nat /\ m + 1 \in 1 .. n /\ (m + 1) - 1 = m
    BY <1>4
  <2>2. CASE m = 0
    <3>1. m + 1 = 1 /\ 1 \in 1 .. n
      BY ONLY <2>1, <2>2
    <3>2. f[1] = ss[1]
      BY ONLY <1>2, <3>1
    <3>3. f[1] \in Q[1]
      BY <3>2
    <3>4. QED
      BY <3>1, <3>3
  <2>3. CASE m # 0
    <3>1. m + 1 # 1 /\ m \in 1 .. n
      BY ONLY <2>1, <2>3, <1>4, n \in Nat
    <3>2. f[m + 1] = f[m] \o ss[m + 1]
      BY ONLY <1>2, <2>1, <3>1
    <3>3. f[m] \in Q[m]
      BY <1>4, <2>3
    <3>4. f[m + 1] \in Q[m + 1]
      BY <1>4, <3>1, <3>2, <3>3
    <3>5. QED
      BY <2>1, <3>4
  <2>4. QED
    BY ONLY <2>2, <2>3
<1>5. n \in S
  <2> HIDE DEF S
  <2>1. \A m \in 0 .. n : m \in S
    BY <1>3, <1>4, Counting
  <2>2. QED
    BY <2>1
<1>6. QED
  BY <1>1, <1>5

\* Pages of level l one after the other, from key a up to key b.
InRow(R, lv, lo, hi, l, a, b, ps) ==
  /\ ps \in Seq(PageNo) /\ Len(ps) # 0
  /\ \A i \in 1 .. Len(ps) : ps[i] \in R /\ lv[ps[i]] = l /\ a <= lo[ps[i]] /\ hi[ps[i]] <= b
  /\ \A i, j \in 1 .. Len(ps) : i < j => hi[ps[i]] <= lo[ps[j]]
  /\ \A i \in 1 .. Len(ps) : i # Len(ps) => hi[ps[i]] = lo[ps[i + 1]]
  /\ lo[ps[1]] = a /\ hi[ps[Len(ps)]] = b

\* Their intervals.
Bounds(R, lo, hi) == \A p \in R : lo[p] \in Nat /\ hi[p] \in Nat /\ lo[p] < hi[p]

\* A row of pages and one that begins where it ends are a row.
LEMMA RowJoin ==
  ASSUME NEW R, NEW lv, NEW lo, NEW hi, NEW l, NEW a \in Nat, NEW b \in Nat, NEW c \in Nat, NEW x, NEW y,
         Bounds(R, lo, hi), a <= b, b <= c,
         InRow(R, lv, lo, hi, l, a, b, x), InRow(R, lv, lo, hi, l, b, c, y)
  PROVE  InRow(R, lv, lo, hi, l, a, c, x \o y)
<1>1. x \in Seq(PageNo) /\ Len(x) # 0 /\ lo[x[1]] = a /\ hi[x[Len(x)]] = b
  BY DEF InRow
<1>2. y \in Seq(PageNo) /\ Len(y) # 0 /\ lo[y[1]] = b /\ hi[y[Len(y)]] = c
  BY DEF InRow
<1>3. \A i \in 1 .. Len(x) : x[i] \in R /\ lv[x[i]] = l /\ a <= lo[x[i]] /\ hi[x[i]] <= b
  BY DEF InRow
<1>4. \A i \in 1 .. Len(y) : y[i] \in R /\ lv[y[i]] = l /\ b <= lo[y[i]] /\ hi[y[i]] <= c
  BY DEF InRow
<1>5. \A i, j \in 1 .. Len(x) : i < j => hi[x[i]] <= lo[x[j]]
  BY DEF InRow
<1>6. \A i, j \in 1 .. Len(y) : i < j => hi[y[i]] <= lo[y[j]]
  BY DEF InRow
<1>7. \A i \in 1 .. Len(x) : i # Len(x) => hi[x[i]] = lo[x[i + 1]]
  BY DEF InRow
<1>8. \A i \in 1 .. Len(y) : i # Len(y) => hi[y[i]] = lo[y[i + 1]]
  BY DEF InRow
<1>9. PICK z : z = x \o y
  OBVIOUS
<1>10. PICK m, n : m = Len(x) /\ n = Len(y) /\ m \in Nat /\ n \in Nat /\ m >= 1 /\ n >= 1
  <2>1. Len(x) \in Nat /\ Len(y) \in Nat
    BY ONLY <1>1, <1>2, SeqFacts
  <2>2. Len(x) >= 1 /\ Len(y) >= 1
    BY ONLY <1>1, <1>2, <2>1
  <2>3. QED
    BY ONLY <2>1, <2>2
<1>11. /\ z \in Seq(PageNo) /\ Len(z) = m + n
       /\ \A i \in 1 .. m : z[i] = x[i]
       /\ \A i \in 1 .. n : z[m + i] = y[i]
  BY ONLY <1>1, <1>2, <1>9, <1>10, Both
<1>12. \A i \in 1 .. m + n : i \in 1 .. m \/ (i - m \in 1 .. n /\ i = m + (i - m))
  BY ONLY <1>10
<1>13. \A i \in 1 .. m + n : i \in 1 .. m \/ (i - m \in 1 .. n /\ z[i] = y[i - m])
  BY ONLY <1>11, <1>12
<1>14. ASSUME NEW i \in 1 .. m + n PROVE z[i] \in R /\ lv[z[i]] = l /\ a <= lo[z[i]] /\ hi[z[i]] <= c
  <2>1. CASE i \in 1 .. m
    <3>1. x[i] \in R /\ lv[x[i]] = l /\ a <= lo[x[i]] /\ hi[x[i]] <= b /\ hi[x[i]] \in Nat
      BY ONLY <1>3, <1>10, <2>1, Bounds(R, lo, hi) DEF Bounds
    <3>2. hi[x[i]] <= c
      BY <3>1
    <3>3. QED
      BY ONLY <1>11, <2>1, <3>1, <3>2
  <2>2. CASE i - m \in 1 .. n /\ z[i] = y[i - m]
    <3>1. y[i - m] \in R /\ lv[y[i - m]] = l /\ b <= lo[y[i - m]] /\ hi[y[i - m]] <= c /\ lo[y[i - m]] \in Nat
      BY ONLY <1>4, <1>10, <2>2, Bounds(R, lo, hi) DEF Bounds
    <3>2. a <= lo[y[i - m]]
      BY <3>1
    <3>3. QED
      BY ONLY <2>2, <3>1, <3>2
  <2>3. QED
    BY ONLY <1>13, <1>14, <2>1, <2>2
<1>15. ASSUME NEW i \in 1 .. m + n, NEW j \in 1 .. m + n, i < j PROVE hi[z[i]] <= lo[z[j]]
  <2>1. CASE j \in 1 .. m
    <3>1. i \in 1 .. m
      BY ONLY <1>10, <1>15, <2>1
    <3>2. QED
      BY ONLY <1>5, <1>10, <1>11, <1>15, <2>1, <3>1
  <2>2. CASE i \in 1 .. m /\ j - m \in 1 .. n /\ z[j] = y[j - m]
    <3>1. hi[x[i]] <= b /\ b <= lo[y[j - m]] /\ x[i] \in R /\ y[j - m] \in R
      BY ONLY <1>3, <1>4, <1>10, <2>2
    <3>2. hi[x[i]] \in Nat /\ lo[y[j - m]] \in Nat
      BY ONLY <3>1, Bounds(R, lo, hi) DEF Bounds
    <3>3. hi[x[i]] <= lo[y[j - m]]
      BY ONLY <3>1, <3>2, b \in Nat
    <3>4. QED
      BY ONLY <1>11, <2>2, <3>3
  <2>3. CASE i - m \in 1 .. n /\ z[i] = y[i - m] /\ j - m \in 1 .. n /\ z[j] = y[j - m]
    <3>1. i - m < j - m
      BY ONLY <1>10, <1>15
    <3>2. QED
      BY ONLY <1>6, <1>10, <2>3, <3>1
  <2>4. QED
    BY ONLY <1>13, <1>15, <2>1, <2>2, <2>3
<1>16. ASSUME NEW i \in 1 .. m + n, i # m + n PROVE hi[z[i]] = lo[z[i + 1]]
  <2>1. CASE i \in 1 .. m /\ i # m
    <3>1. i + 1 \in 1 .. m
      BY ONLY <1>10, <2>1
    <3>2. QED
      BY ONLY <1>7, <1>10, <1>11, <2>1, <3>1
  <2>2. CASE i = m
    <3>1. 1 \in 1 .. n /\ m \in 1 .. m
      BY ONLY <1>10
    <3>2. z[m + 1] = y[1] /\ z[m] = x[m]
      BY ONLY <1>11, <3>1
    <3>3. QED
      BY ONLY <1>1, <1>2, <1>10, <2>2, <3>2
  <2>3. CASE i - m \in 1 .. n /\ z[i] = y[i - m]
    <3>1. i - m # n /\ (i - m) + 1 \in 1 .. n /\ m + ((i - m) + 1) = i + 1
      BY ONLY <1>10, <1>16, <2>3
    <3>2. z[i + 1] = y[(i - m) + 1]
      BY ONLY <1>11, <3>1
    <3>3. hi[y[i - m]] = lo[y[(i - m) + 1]]
      BY ONLY <1>8, <1>10, <2>3, <3>1
    <3>4. QED
      BY ONLY <2>3, <3>2, <3>3
  <2>4. QED
    BY ONLY <1>13, <1>16, <2>1, <2>2, <2>3
<1>17. lo[z[1]] = a /\ hi[z[m + n]] = c
  <2>1. 1 \in 1 .. m /\ n \in 1 .. n
    BY ONLY <1>10
  <2>2. z[1] = x[1] /\ z[m + n] = y[n]
    BY ONLY <1>11, <2>1
  <2>3. QED
    BY ONLY <1>1, <1>2, <1>10, <2>2
<1>18. Len(z) # 0
  BY ONLY <1>10, <1>11
<1>19. InRow(R, lv, lo, hi, l, a, c, z)
  BY ONLY <1>11, <1>14, <1>15, <1>16, <1>17, <1>18 DEF InRow
<1>20. QED
  BY ONLY <1>9, <1>19

\* The children of a page, from left to right.
Kids(page, p) == [i \in DOMAIN page[p].ents |-> page[p].ents[i].v]

\* The children of a page are a row of its keys.
LEMMA KidsRow ==
  ASSUME NEW page, NEW R, NEW lv, NEW lo, NEW hi, TreeOK(page, R, lv, lo, hi, P_INVALID),
         NEW p \in R, lv[p] # 0
  PROVE  InRow(R, lv, lo, hi, lv[p] - 1, lo[p], hi[p], Kids(page, p))
<1>1. /\ lv[p] \in Nat /\ lo[p] \in Nat /\ hi[p] \in Nat /\ lo[p] < hi[p]
      /\ Len(page[p].ents) \in Nat /\ DOMAIN page[p].ents = 1 .. Len(page[p].ents)
      /\ \A i \in 1 .. Len(page[p].ents) : page[p].ents[i].k \in Nat /\ page[p].ents[i].v \in PageNo
  BY InTree
<1>2. Down(page, R, lv, lo, hi) /\ Ordered(page, R, lv) /\ Within(page, R, lv, lo, hi) /\ Filled(page, R, lv)
  BY DEF TreeOK
<1>3. PICK n : n = Len(page[p].ents)
  OBVIOUS
<1>4. n \in Nat /\ n # 0
  BY <1>1, <1>2, <1>3 DEF Filled
<1>5. PICK key : key = [i \in 1 .. n |-> page[p].ents[i].k]
  OBVIOUS
<1>6. PICK ps : ps = Kids(page, p)
  OBVIOUS
<1>7. ps = [i \in 1 .. n |-> page[p].ents[i].v]
  BY ONLY <1>1, <1>3, <1>6 DEF Kids
<1>8. ps \in Seq(PageNo) /\ Len(ps) = n
  BY ONLY <1>1, <1>3, <1>4, <1>7
<1>9. \A i \in 1 .. n : /\ ps[i] \in R /\ lv[ps[i]] = lv[p] - 1
                        /\ lo[ps[i]] = IF i = 1 THEN lo[p] ELSE key[i]
                        /\ hi[ps[i]] = IF i = n THEN hi[p] ELSE key[i + 1]
  <2>1. ASSUME NEW i \in 1 .. n PROVE /\ page[p].ents[i].v \in R /\ lv[page[p].ents[i].v] = lv[p] - 1
                                      /\ lo[page[p].ents[i].v] = IF i = 1 THEN lo[p] ELSE page[p].ents[i].k
                                      /\ hi[page[p].ents[i].v] = IF i = n THEN hi[p] ELSE page[p].ents[i + 1].k
    BY <1>2, <1>3, <2>1 DEF Down
  <2>2. ASSUME NEW i \in 1 .. n PROVE i # n => i + 1 \in 1 .. n
    BY ONLY <1>4, <2>2
  <2>3. QED
    BY ONLY <1>5, <1>7, <2>1, <2>2
<1>10. \A i \in 1 .. n : key[i] \in Nat /\ (i # 1 => lo[p] < key[i] /\ key[i] < hi[p])
  BY <1>1, <1>2, <1>3, <1>5 DEF Within
<1>11. \A i, j \in 1 .. n : i # 1 /\ i < j => key[i] < key[j]
  BY ONLY <1>2, <1>3, <1>5, p \in R DEF Ordered
<1>12. ASSUME NEW i \in 1 .. n PROVE lo[p] <= lo[ps[i]] /\ hi[ps[i]] <= hi[p]
  <2>1. i # n => i + 1 \in 1 .. n /\ i + 1 # 1
    BY ONLY <1>4, <1>12
  <2>2. QED
    BY ONLY <1>1, <1>9, <1>10, <1>12, <2>1
<1>13. ASSUME NEW i \in 1 .. n, NEW j \in 1 .. n, i < j PROVE hi[ps[i]] <= lo[ps[j]]
  <2>1. i # n /\ i + 1 \in 1 .. n /\ i + 1 # 1 /\ j # 1 /\ i + 1 <= j
    BY ONLY <1>4, <1>13
  <2>2. hi[ps[i]] = key[i + 1] /\ lo[ps[j]] = key[j]
    BY ONLY <1>9, <1>13, <2>1
  <2>3. key[i + 1] \in Nat /\ key[j] \in Nat /\ (i + 1 < j => key[i + 1] < key[j])
    BY ONLY <1>10, <1>11, <1>13, <2>1
  <2>4. i + 1 = j \/ i + 1 < j
    BY ONLY <1>4, <1>13
  <2>5. QED
    BY ONLY <2>2, <2>3, <2>4
<1>14. ASSUME NEW i \in 1 .. n, i # n PROVE hi[ps[i]] = lo[ps[i + 1]]
  <2>1. i + 1 \in 1 .. n /\ i + 1 # 1
    BY ONLY <1>4, <1>14
  <2>2. QED
    BY ONLY <1>9, <1>14, <2>1
<1>15. lo[ps[1]] = lo[p] /\ hi[ps[n]] = hi[p]
  <2>1. 1 \in 1 .. n /\ n \in 1 .. n
    BY ONLY <1>4
  <2>2. QED
    BY ONLY <1>9, <2>1
<1>16. InRow(R, lv, lo, hi, lv[p] - 1, lo[p], hi[p], ps)
  BY ONLY <1>4, <1>8, <1>9, <1>12, <1>13, <1>14, <1>15 DEF InRow
<1>17. QED
  BY ONLY <1>6, <1>16

\* The level below the pages ps.
Row(page, ps) == FlattenSeq([i \in DOMAIN ps |-> Kids(page, ps[i])])

LEMMA TreeBounds ==
  ASSUME NEW page, NEW R, NEW lv, NEW lo, NEW hi, TreeOK(page, R, lv, lo, hi, P_INVALID)
  PROVE  Bounds(R, lo, hi)
BY InTree DEF Bounds

\* The children of a row are a row of the same keys, one level down.
LEMMA RowIs ==
  ASSUME NEW page, NEW R, NEW lv, NEW lo, NEW hi, TreeOK(page, R, lv, lo, hi, P_INVALID),
         NEW l, l # 0, NEW a \in Nat, NEW b \in Nat, NEW ps, InRow(R, lv, lo, hi, l, a, b, ps)
  PROVE  InRow(R, lv, lo, hi, l - 1, a, b, Row(page, ps))
<1>1. ps \in Seq(PageNo) /\ Len(ps) # 0 /\ lo[ps[1]] = a /\ hi[ps[Len(ps)]] = b
  BY DEF InRow
<1>2. PICK n : n = Len(ps) /\ n \in Nat /\ n # 0 /\ DOMAIN ps = 1 .. n /\ 1 \in 1 .. n /\ n \in 1 .. n
  <2>1. Len(ps) \in Nat /\ DOMAIN ps = 1 .. Len(ps)
    BY ONLY <1>1, SeqFacts
  <2>2. QED
    BY ONLY <1>1, <2>1
<1>3. \A i \in 1 .. n : ps[i] \in R /\ lv[ps[i]] = l /\ a <= lo[ps[i]] /\ hi[ps[i]] <= b
  BY <1>2 DEF InRow
<1>4. \A i \in 1 .. n : i # n => hi[ps[i]] = lo[ps[i + 1]]
  BY <1>2 DEF InRow
<1>5. PICK ss : ss = [i \in 1 .. n |-> Kids(page, ps[i])]
  OBVIOUS
<1>6. \A i \in 1 .. n : InRow(R, lv, lo, hi, l - 1, lo[ps[i]], hi[ps[i]], ss[i])
  <2>1. ASSUME NEW i \in 1 .. n PROVE InRow(R, lv, lo, hi, l - 1, lo[ps[i]], hi[ps[i]], ss[i])
    <3>1. PICK p : p = ps[i] /\ p \in R /\ lv[p] = l /\ lv[p] # 0
      BY <1>3, <2>1
    <3>2. InRow(R, lv, lo, hi, lv[p] - 1, lo[p], hi[p], Kids(page, p))
      BY ONLY <3>1, TreeOK(page, R, lv, lo, hi, P_INVALID), KidsRow
    <3>3. ss[i] = Kids(page, p)
      BY ONLY <1>5, <2>1, <3>1
    <3>4. QED
      BY ONLY <3>1, <3>2, <3>3
  <2>2. QED
    BY ONLY <2>1
<1>7. Bounds(R, lo, hi)
  BY TreeBounds
<1> DEFINE Q == [i \in 1 .. n |-> {x \in Seq(PageNo) : InRow(R, lv, lo, hi, l - 1, a, hi[ps[i]], x)}]
<1>8. ss[1] \in Q[1]
  <2>1. InRow(R, lv, lo, hi, l - 1, a, hi[ps[1]], ss[1])
    BY ONLY <1>1, <1>2, <1>6
  <2>2. ss[1] \in Seq(PageNo)
    BY ONLY <2>1 DEF InRow
  <2>3. QED
    BY ONLY <1>2, <2>1, <2>2
<1>9. ASSUME NEW i \in 1 .. n, i # n, NEW x \in Q[i] PROVE x \o ss[i + 1] \in Q[i + 1]
  <2>1. InRow(R, lv, lo, hi, l - 1, a, hi[ps[i]], x)
    BY ONLY <1>9
  <2>2. i + 1 \in 1 .. n
    BY ONLY <1>2, <1>9
  <2>3. InRow(R, lv, lo, hi, l - 1, lo[ps[i + 1]], hi[ps[i + 1]], ss[i + 1])
    BY ONLY <1>6, <2>2
  <2>4. PICK u, w, y : u = hi[ps[i]] /\ w = hi[ps[i + 1]] /\ y = ss[i + 1]
    OBVIOUS
  <2>5. lo[ps[i + 1]] = u
    BY ONLY <1>4, <1>9, <2>4
  <2>6. u \in Nat /\ w \in Nat /\ u <= w /\ a <= u
    <3>1. /\ ps[i] \in R /\ ps[i + 1] \in R /\ a <= lo[ps[i]]
      BY ONLY <1>3, <1>9, <2>2
    <3>2. lo[ps[i]] \in Nat /\ lo[ps[i + 1]] \in Nat /\ u \in Nat /\ w \in Nat /\ lo[ps[i]] < u /\ lo[ps[i + 1]] < w
      BY ONLY <1>7, <2>4, <3>1 DEF Bounds
    <3>3. QED
      BY ONLY <2>5, <3>1, <3>2, a \in Nat
  <2>7. InRow(R, lv, lo, hi, l - 1, a, u, x) /\ InRow(R, lv, lo, hi, l - 1, u, w, y)
    BY ONLY <2>1, <2>3, <2>4, <2>5
  <2>8. PICK h : h = l - 1
    OBVIOUS
  <2>9. InRow(R, lv, lo, hi, h, a, w, x \o y)
    BY ONLY <1>7, <2>6, <2>7, <2>8, a \in Nat, RowJoin
  <2>10. x \o y \in Seq(PageNo)
    BY ONLY <2>9 DEF InRow
  <2>11. InRow(R, lv, lo, hi, l - 1, a, hi[ps[i + 1]], x \o ss[i + 1]) /\ x \o ss[i + 1] \in Seq(PageNo)
    BY ONLY <2>4, <2>8, <2>9, <2>10
  <2>12. QED
    BY ONLY <2>2, <2>11
<1>10. PICK QQ : QQ = Q
  OBVIOUS
<1>11. Len(ss) = n
  BY ONLY <1>2, <1>5
<1>12. /\ ss[1] \in QQ[1]
       /\ \A i \in 1 .. n : i # n => \A x \in QQ[i] : x \o ss[i + 1] \in QQ[i + 1]
  BY ONLY <1>8, <1>9, <1>10
<1>13. FlattenSeq(ss) \in QQ[n]
  <2> HIDE DEF Q
  <2>1. QED
    BY ONLY <1>2, <1>11, <1>12, FlatInd
<1>14. FlattenSeq(ss) \in Q[n]
  BY ONLY <1>10, <1>13
<1>15. InRow(R, lv, lo, hi, l - 1, a, hi[ps[n]], FlattenSeq(ss))
  BY ONLY <1>2, <1>14
<1>16. Row(page, ps) = FlattenSeq(ss)
  BY ONLY <1>2, <1>5 DEF Row
<1>17. QED
  BY ONLY <1>1, <1>2, <1>15, <1>16

\* The table of Level.
IsLevels(page, n, f) == f = [m \in 0 .. n |-> IF m = 0 THEN <<P_ROOT>> ELSE Row(page, f[m - 1])]

\* The table of the rows of children from the root down exists.
LEMMA LevelsExist ==
  ASSUME NEW page, NEW n \in Nat
  PROVE  \E f : IsLevels(page, n, f)
<1> DEFINE S == {m \in Nat : \E f : IsLevels(page, m, f)}
<1>1. 0 \in S
  <2>1. PICK f : f = [j \in 0 .. 0 |-> <<P_ROOT>>]
    OBVIOUS
  <2>2. f = [j \in 0 .. 0 |-> IF j = 0 THEN <<P_ROOT>> ELSE Row(page, f[j - 1])]
    BY ONLY <2>1
  <2>3. IsLevels(page, 0, f)
    BY ONLY <2>2 DEF IsLevels
  <2>4. QED
    BY <2>3
<1>2. ASSUME NEW m \in 0 .. n, m # n, m \in S PROVE m + 1 \in S
  <2>1. PICK f : IsLevels(page, m, f)
    BY <1>2
  <2>2. m \in Nat /\ m + 1 \in Nat
    BY <1>2
  <2>3. PICK h : h = [j \in 0 .. m + 1 |-> Row(page, f[j - 1])]
    OBVIOUS
  <2>4. PICK g : g = [j \in 0 .. m + 1 |-> IF j \in 0 .. m THEN f[j] ELSE h[j]]
    OBVIOUS
  <2>5. \A j \in 0 .. m + 1 : j # 0 => j - 1 \in 0 .. m /\ j - 1 \in 0 .. m + 1
    BY ONLY <2>2
  <2>6. \A j \in 0 .. m + 1 : j # 0 => g[j - 1] = f[j - 1]
    BY ONLY <2>4, <2>5
  <2>7. \A j \in 0 .. m : j \in 0 .. m + 1
    BY ONLY <2>2
  <2>8. \A j \in 0 .. m : f[j] = IF j = 0 THEN <<P_ROOT>> ELSE Row(page, f[j - 1])
    BY ONLY <2>1 DEF IsLevels
  <2>9. \A j \in 0 .. m + 1 : h[j] = Row(page, f[j - 1])
    BY ONLY <2>3
  <2>10. 0 \in 0 .. m
    BY ONLY <2>2
  <2>11. \A j \in 0 .. m + 1 : g[j] = IF j = 0 THEN <<P_ROOT>> ELSE h[j]
    BY ONLY <2>4, <2>7, <2>8, <2>9, <2>10
  <2>12. \A j \in 0 .. m + 1 : j # 0 => h[j] = Row(page, g[j - 1])
    BY ONLY <2>6, <2>9
  <2>13. g = [j \in 0 .. m + 1 |-> IF j = 0 THEN <<P_ROOT>> ELSE Row(page, g[j - 1])]
    BY ONLY <2>4, <2>11, <2>12
  <2>14. IsLevels(page, m + 1, g)
    BY ONLY <2>13 DEF IsLevels
  <2>15. QED
    BY <2>2, <2>14
<1>3. n \in S
  <2> HIDE DEF S
  <2>1. \A m \in 0 .. n : m \in S
    BY <1>1, <1>2, Counting
  <2>2. QED
    BY <2>1
<1>4. QED
  BY <1>3

\* Level(n) is its last entry.
LEMMA LevelTable ==
  ASSUME NEW n \in Nat
  PROVE  \E f : IsLevels(t.page, n, f) /\ Level(n) = f[n]
<1> DEFINE f == CHOOSE g : IsLevels(t.page, n, g)
<1>1. IsLevels(t.page, n, f)
  <2>1. \E g : IsLevels(t.page, n, g)
    BY LevelsExist
  <2>2. QED
    BY <2>1
<1>2. Level(n) = f[n]
  BY DEF Level, IsLevels, Row, Kids
<1> HIDE DEF f
<1>3. QED
  BY <1>1, <1>2

\* Every level has all keys.
LEMMA LevelIs ==
  ASSUME NEW R, NEW lv, NEW lo, NEW hi, TreeOK(t.page, R, lv, lo, hi, P_INVALID), NEW n \in 0 .. lv[P_ROOT]
  PROVE  InRow(R, lv, lo, hi, lv[P_ROOT] - n, 0, MaxKey + 1, Level(n))
<1>1. PICK page, h, b : page = t.page /\ h = lv[P_ROOT] /\ b = MaxKey + 1
  OBVIOUS
<1>2. TreeOK(page, R, lv, lo, hi, P_INVALID)
  BY ONLY <1>1, TreeOK(t.page, R, lv, lo, hi, P_INVALID)
<1>3. h \in Nat /\ P_ROOT \in R /\ P_ROOT \in PageNo /\ lo[P_ROOT] = 0 /\ hi[P_ROOT] = b /\ b \in Nat
  BY ONLY <1>1, <1>2, RootAlone, Numbers
<1>4. n \in Nat /\ n <= h
  BY <1>1, <1>3
<1>5. PICK f : IsLevels(page, n, f) /\ Level(n) = f[n]
  BY ONLY <1>1, <1>4, LevelTable
<1>6. \A m \in 0 .. n : f[m] = IF m = 0 THEN <<P_ROOT>> ELSE Row(page, f[m - 1])
  BY ONLY <1>5 DEF IsLevels
<1> DEFINE S == {m \in Nat : InRow(R, lv, lo, hi, h - m, 0, b, f[m])}
<1>7. 0 \in S
  <2>1. f[0] = <<P_ROOT>>
    BY ONLY <1>4, <1>6
  <2>2. <<P_ROOT>> \in Seq(PageNo) /\ Len(<<P_ROOT>>) = 1 /\ <<P_ROOT>>[1] = P_ROOT
    BY ONLY <1>3, Single
  <2>3. PICK ps : ps = <<P_ROOT>>
    OBVIOUS
  <2>4. ps \in Seq(PageNo) /\ Len(ps) = 1 /\ ps[1] = P_ROOT
    BY ONLY <2>2, <2>3
  <2>5. \A i \in 1 .. 1 : i = 1
    OBVIOUS
  <2>6. h - 0 = h /\ lv[P_ROOT] = h /\ 0 <= lo[P_ROOT] /\ hi[P_ROOT] <= b
    BY ONLY <1>1, <1>3
  <2>7. InRow(R, lv, lo, hi, h, 0, b, ps)
    BY ONLY <1>3, <2>4, <2>5, <2>6 DEF InRow
  <2>8. QED
    BY ONLY <2>1, <2>3, <2>6, <2>7
<1>8. ASSUME NEW m \in 0 .. n, m # n, m \in S PROVE m + 1 \in S
  <2>1. m \in Nat /\ m + 1 \in Nat /\ m + 1 \in 0 .. n /\ m + 1 # 0 /\ (m + 1) - 1 = m
    BY ONLY <1>4, <1>8
  <2>2. InRow(R, lv, lo, hi, h - m, 0, b, f[m])
    BY ONLY <1>8
  <2>3. f[m + 1] = Row(page, f[m])
    BY ONLY <1>6, <2>1
  <2>4. PICK l, ps : l = h - m /\ ps = f[m]
    OBVIOUS
  <2>5. l # 0 /\ l - 1 = h - (m + 1)
    BY ONLY <1>3, <1>4, <1>8, <2>1, <2>4
  <2>6. InRow(R, lv, lo, hi, l, 0, b, ps) /\ 0 \in Nat
    BY ONLY <2>2, <2>4
  <2>7. InRow(R, lv, lo, hi, l - 1, 0, b, Row(page, ps))
    BY ONLY <1>2, <1>3, <2>5, <2>6, RowIs
  <2>8. InRow(R, lv, lo, hi, h - (m + 1), 0, b, f[m + 1])
    BY ONLY <2>3, <2>4, <2>5, <2>7
  <2>9. QED
    BY ONLY <2>1, <2>8
<1>9. n \in S
  <2> HIDE DEF S
  <2>1. \A m \in 0 .. n : m \in S
    BY ONLY <1>4, <1>7, <1>8, Counting
  <2>2. n \in 0 .. n
    BY ONLY <1>4
  <2>3. QED
    BY ONLY <2>1, <2>2
<1>10. InRow(R, lv, lo, hi, h - n, 0, b, f[n])
  BY ONLY <1>9
<1>11. QED
  BY ONLY <1>1, <1>5, <1>10

\* The pages of a level are linked in their order.
LEMMA RowLinks ==
  ASSUME NEW page, NEW R, NEW lv, NEW lo, NEW hi, TreeOK(page, R, lv, lo, hi, P_INVALID),
         NEW l, NEW ps, InRow(R, lv, lo, hi, l, 0, MaxKey + 1, ps), NEW i \in 1 .. Len(ps)
  PROVE  /\ page[ps[i]].prev = (IF i = 1 THEN P_INVALID ELSE ps[i - 1])
         /\ page[ps[i]].next = (IF i = Len(ps) THEN P_INVALID ELSE ps[i + 1])
<1>1. Linked(page, R, lv, lo, hi) /\ Apart(R, lv, lo, hi)
  BY DEF TreeOK
<1>2. Bounds(R, lo, hi)
  BY TreeBounds
<1>3. PICK p, n : p = ps[i] /\ n = Len(ps)
  OBVIOUS
<1>4. /\ \A j \in 1 .. n : ps[j] \in R /\ lv[ps[j]] = l
      /\ \A j \in 1 .. n : j # n => hi[ps[j]] = lo[ps[j + 1]]
      /\ lo[ps[1]] = 0 /\ hi[ps[n]] = MaxKey + 1 /\ ps \in Seq(PageNo)
  BY ONLY <1>3, InRow(R, lv, lo, hi, l, 0, MaxKey + 1, ps) DEF InRow
<1>5. n \in Nat /\ MaxKey \in Nat /\ i \in 1 .. n
  BY <1>3, <1>4, SeqFacts, Numbers
<1>6. p \in R /\ lv[p] = l /\ lo[p] \in Nat /\ hi[p] \in Nat
  BY ONLY <1>2, <1>3, <1>4, <1>5 DEF Bounds
<1>7. \A q \in R : lo[q] \in Nat /\ hi[q] \in Nat /\ lo[q] < hi[q]
  BY ONLY <1>2 DEF Bounds
<1>8. \A q \in R : hi[q] <= MaxKey + 1
  BY Bounded
<1>9. \A q, r \in R : lv[q] = lv[r] /\ (lo[q] = lo[r] \/ hi[q] = hi[r]) => q = r
  <2>1. SUFFICES ASSUME NEW q \in R, NEW r \in R, lv[q] = lv[r], lo[q] = lo[r] \/ hi[q] = hi[r], q # r PROVE FALSE
    BY Zenon
  <2>2. hi[q] <= lo[r] \/ hi[r] <= lo[q]
    BY ONLY <1>1, <2>1 DEF Apart
  <2>3. lo[q] \in Nat /\ hi[q] \in Nat /\ lo[q] < hi[q] /\ lo[r] \in Nat /\ hi[r] \in Nat /\ lo[r] < hi[r]
    BY ONLY <1>7, <2>1
  <2>4. QED
    BY ONLY <2>1, <2>2, <2>3
<1>10. \/ page[p].next = P_INVALID /\ hi[p] = MaxKey + 1
       \/ page[p].next \in R /\ lv[page[p].next] = lv[p] /\ lo[page[p].next] = hi[p]
  BY ONLY <1>1, <1>6 DEF Linked
<1>11. \/ page[p].prev = P_INVALID /\ lo[p] = 0
       \/ page[p].prev \in R /\ lv[page[p].prev] = lv[p] /\ hi[page[p].prev] = lo[p]
  BY ONLY <1>1, <1>6 DEF Linked
<1>12. page[p].prev = (IF i = 1 THEN P_INVALID ELSE ps[i - 1])
  <2>1. CASE i = 1
    <3>1. lo[p] = 0
      BY ONLY <1>3, <1>4, <2>1
    <3>2. page[p].prev \notin R \/ hi[page[p].prev] # lo[p]
      BY ONLY <1>7, <3>1
    <3>3. QED
      BY ONLY <1>11, <2>1, <3>2
  <2>2. CASE i # 1
    <3>1. i - 1 \in 1 .. n /\ i - 1 # n /\ (i - 1) + 1 = i
      BY ONLY <1>5, <2>2
    <3>2. PICK q : q = ps[i - 1]
      OBVIOUS
    <3>3. hi[q] = lo[p] /\ q \in R /\ lv[q] = l
      BY ONLY <1>3, <1>4, <3>1, <3>2
    <3>4. lo[p] # 0
      BY ONLY <1>7, <3>3
    <3>5. page[p].prev \in R /\ lv[page[p].prev] = lv[q] /\ hi[page[p].prev] = hi[q]
      BY ONLY <1>6, <1>11, <3>3, <3>4
    <3>6. page[p].prev = q
      BY ONLY <1>9, <3>3, <3>5
    <3>7. QED
      BY ONLY <2>2, <3>2, <3>6
  <2>3. QED
    BY ONLY <2>1, <2>2
<1>13. page[p].next = (IF i = n THEN P_INVALID ELSE ps[i + 1])
  <2>1. CASE i = n
    <3>1. hi[p] = MaxKey + 1
      BY ONLY <1>3, <1>4, <2>1
    <3>2. page[p].next \notin R \/ lo[page[p].next] # hi[p]
      <4>1. SUFFICES ASSUME page[p].next \in R, lo[page[p].next] = hi[p] PROVE FALSE
        OBVIOUS
      <4>2. PICK q : q = page[p].next
        OBVIOUS
      <4>3. q \in R /\ lo[q] = MaxKey + 1
        BY ONLY <3>1, <4>1, <4>2
      <4>4. lo[q] < hi[q] /\ hi[q] <= MaxKey + 1 /\ hi[q] \in Nat
        BY ONLY <1>7, <1>8, <4>3
      <4>5. QED
        BY ONLY <1>5, <4>3, <4>4
    <3>3. QED
      BY ONLY <1>10, <2>1, <3>2
  <2>2. CASE i # n
    <3>1. i + 1 \in 1 .. n
      BY ONLY <1>5, <2>2
    <3>2. PICK q : q = ps[i + 1]
      OBVIOUS
    <3>3. lo[q] = hi[p] /\ q \in R /\ lv[q] = l
      BY ONLY <1>3, <1>4, <1>5, <2>2, <3>1, <3>2
    <3>4. hi[p] # MaxKey + 1
      <4>1. lo[q] < hi[q] /\ hi[q] <= MaxKey + 1 /\ hi[q] \in Nat /\ lo[q] \in Nat
        BY ONLY <1>7, <1>8, <3>3
      <4>2. QED
        BY ONLY <1>5, <3>3, <4>1
    <3>5. page[p].next \in R /\ lv[page[p].next] = lv[q] /\ lo[page[p].next] = lo[q]
      BY ONLY <1>6, <1>10, <3>3, <3>4
    <3>6. page[p].next = q
      BY ONLY <1>9, <3>3, <3>5
    <3>7. QED
      BY ONLY <2>2, <3>2, <3>6
  <2>3. QED
    BY ONLY <2>1, <2>2
<1>14. QED
  BY ONLY <1>3, <1>12, <1>13

\* No page is twice in a row.
LEMMA RowInjective ==
  ASSUME NEW R, NEW lv, NEW lo, NEW hi, Bounds(R, lo, hi), NEW l, NEW a, NEW b, NEW ps, InRow(R, lv, lo, hi, l, a, b, ps)
  PROVE  IsInjective(ps)
<1>1. /\ ps \in Seq(PageNo) /\ \A i \in 1 .. Len(ps) : ps[i] \in R
      /\ \A i, j \in 1 .. Len(ps) : i < j => hi[ps[i]] <= lo[ps[j]]
  BY DEF InRow
<1>2. Len(ps) \in Nat /\ DOMAIN ps = 1 .. Len(ps)
  BY ONLY <1>1, SeqFacts
<1>3. \A i, j \in 1 .. Len(ps) : i < j => ps[i] # ps[j]
  <2>1. SUFFICES ASSUME NEW i \in 1 .. Len(ps), NEW j \in 1 .. Len(ps), i < j, ps[i] = ps[j] PROVE FALSE
    OBVIOUS
  <2>2. hi[ps[i]] <= lo[ps[i]] /\ ps[i] \in R
    BY ONLY <1>1, <2>1
  <2>3. QED
    BY ONLY <2>2, Bounds(R, lo, hi) DEF Bounds
<1>4. \A i, j \in 1 .. Len(ps) : i < j \/ j < i \/ i = j
  BY ONLY <1>2
<1>5. QED
  BY ONLY <1>2, <1>3, <1>4 DEF IsInjective

\* The depth that the leftmost way down has is the level of the root.
LEMMA DepthIs ==
  ASSUME NEW R, NEW lv, NEW lo, NEW hi, TreeOK(t.page, R, lv, lo, hi, P_INVALID)
  PROVE  Depth = lv[P_ROOT] /\ lv[P_ROOT] \in Nat
<1>1. lv[P_ROOT] \in Nat
  BY RootAlone
<1>2. 1 \in Key
  BY Numbers DEF Key
<1>3. IsPath(t.page, R, lv, lo, hi, P_ROOT, 1, Path(t, 1))
  BY ONLY <1>2, TreeOK(t.page, R, lv, lo, hi, P_INVALID), PathIs
<1>4. Len(Path(t, 1)) = lv[P_ROOT] + 1
  BY ONLY <1>3 DEF IsPath
<1>5. QED
  BY ONLY <1>1, <1>4 DEF Depth

LEMMA ShapeAll ==
  ASSUME Running
  PROVE  TypeOK /\ \A n \in 0 .. Depth :
           LET ps == Level(n) IN
           /\ \A i \in DOMAIN ps :
                LET pg == t.page[ps[i]] IN
                /\ pg.leaf = (n = Depth)
                /\ pg.prev = (IF i = 1 THEN P_INVALID ELSE ps[i - 1])
                /\ pg.next = (IF i = Len(ps) THEN P_INVALID ELSE ps[i + 1])
                /\ pg.ents = <<>> => ps[i] = P_ROOT
                /\ Fits(Sizes(pg.leaf, Len(pg.ents)))
           /\ IsInjective(ps)
<1>1. TypeOK
  BY DEF Running
<1>2. PICK R, lv, lo, hi : Sound(t, R, lv, lo, hi, contents)
  BY NowIs
<1>3. TreeOK(t.page, R, lv, lo, hi, P_INVALID)
  BY ONLY <1>2 DEF Sound
<1>4. PICK h : h = lv[P_ROOT] /\ h \in Nat /\ Depth = h
  BY ONLY <1>3, DepthIs
<1>5. ASSUME NEW n \in 0 .. Depth, NEW ps, ps = Level(n)
      PROVE  /\ \A i \in DOMAIN ps :
                  /\ t.page[ps[i]].leaf = (n = Depth)
                  /\ t.page[ps[i]].prev = (IF i = 1 THEN P_INVALID ELSE ps[i - 1])
                  /\ t.page[ps[i]].next = (IF i = Len(ps) THEN P_INVALID ELSE ps[i + 1])
                  /\ t.page[ps[i]].ents = <<>> => ps[i] = P_ROOT
                  /\ Fits(Sizes(t.page[ps[i]].leaf, Len(t.page[ps[i]].ents)))
             /\ IsInjective(ps)
  <2>1. PICK l : l = h - n /\ (l = 0 <=> n = Depth)
    BY ONLY <1>4, <1>5
  <2>2. InRow(R, lv, lo, hi, l, 0, MaxKey + 1, ps)
    BY ONLY <1>3, <1>4, <1>5, <2>1, LevelIs
  <2>3. Bounds(R, lo, hi)
    BY ONLY <1>3, TreeBounds
  <2>4. IsInjective(ps)
    BY ONLY <2>2, <2>3, RowInjective
  <2>5. ps \in Seq(PageNo) /\ \A i \in 1 .. Len(ps) : ps[i] \in R /\ lv[ps[i]] = l
    BY ONLY <2>2 DEF InRow
  <2>6. DOMAIN ps = 1 .. Len(ps)
    BY ONLY <2>5, SeqFacts
  <2>7. ASSUME NEW i \in DOMAIN ps
        PROVE  /\ t.page[ps[i]].leaf = (n = Depth)
               /\ t.page[ps[i]].prev = (IF i = 1 THEN P_INVALID ELSE ps[i - 1])
               /\ t.page[ps[i]].next = (IF i = Len(ps) THEN P_INVALID ELSE ps[i + 1])
               /\ t.page[ps[i]].ents = <<>> => ps[i] = P_ROOT
               /\ Fits(Sizes(t.page[ps[i]].leaf, Len(t.page[ps[i]].ents)))
    <3>1. i \in 1 .. Len(ps)
      BY ONLY <2>6, <2>7
    <3>2. PICK page : page = t.page
      OBVIOUS
    <3>3. TreeOK(page, R, lv, lo, hi, P_INVALID)
      BY ONLY <1>3, <3>2
    <3>4. /\ page[ps[i]].prev = (IF i = 1 THEN P_INVALID ELSE ps[i - 1])
          /\ page[ps[i]].next = (IF i = Len(ps) THEN P_INVALID ELSE ps[i + 1])
      BY ONLY <2>2, <3>1, <3>3, RowLinks
    <3>5. PICK p : p = ps[i] /\ p \in R /\ lv[p] = l
      BY ONLY <2>5, <3>1
    <3>6. page[p].leaf \in BOOLEAN /\ (page[p].leaf <=> lv[p] = 0) /\ p # P_INVALID
      BY ONLY <3>3, <3>5, InTree
    <3>7. page[p].leaf = (n = Depth)
      BY ONLY <2>1, <3>5, <3>6
    <3>8. Filled(page, R, lv) /\ Fitting(page, R, P_INVALID)
      BY ONLY <3>3 DEF TreeOK
    <3>9. Fits(Sizes(page[p].leaf, Len(page[p].ents)))
      BY ONLY <3>5, <3>6, <3>8 DEF Fitting
    <3>10. page[p].ents = <<>> => p = P_ROOT
      <4>1. Len(<<>>) = 0
        OBVIOUS
      <4>2. QED
        BY ONLY <3>5, <3>8, <4>1 DEF Filled
    <3>11. QED
      BY ONLY <3>2, <3>4, <3>5, <3>7, <3>9, <3>10
  <2>8. QED
    BY ONLY <2>4, <2>7
<1>6. QED
  BY ONLY <1>1, <1>5

\* After any splits (bt_page, bt_root, bt_broot) and removals of pages
\* (__bt_pdelete, __bt_relink) the leaves are at one depth, every level is
\* linked in the order in which the parents name its pages, no page is named
\* twice, only the root can be empty, and no page is overfull.
THEOREM ShapeCorrect == Spec => []Shape
<1>1. IInv => Shape
  <2>1. SUFFICES ASSUME IInv, Intact PROVE Shape
    BY DEF Shape
  <2>2. Running
    BY ONLY <2>1, RunningInv
  <2>3. QED
    BY ONLY <2>2, ShapeAll DEF Shape
<1>2. QED
  BY <1>1, Invariance, PTL
-----------------------------------------------------------------------------
(* The records from left to right *)

\* Records in order, from key a up to key b.
InOrder(a, b, es) ==
  /\ es \in Seq(Ent)
  /\ \A i \in 1 .. Len(es) : es[i].k \in Nat /\ a <= es[i].k /\ es[i].k < b
  /\ \A i, j \in 1 .. Len(es) : i < j => es[i].k < es[j].k

\* Records in order and those of higher keys behind them are in order.
LEMMA OrderJoin ==
  ASSUME NEW a \in Nat, NEW b \in Nat, NEW c \in Nat, a <= b, b <= c, NEW x, NEW y, InOrder(a, b, x), InOrder(b, c, y)
  PROVE  InOrder(a, c, x \o y)
<1>1. /\ x \in Seq(Ent) /\ \A i \in 1 .. Len(x) : x[i].k \in Nat /\ a <= x[i].k /\ x[i].k < b
      /\ \A i, j \in 1 .. Len(x) : i < j => x[i].k < x[j].k
  BY DEF InOrder
<1>2. /\ y \in Seq(Ent) /\ \A i \in 1 .. Len(y) : y[i].k \in Nat /\ b <= y[i].k /\ y[i].k < c
      /\ \A i, j \in 1 .. Len(y) : i < j => y[i].k < y[j].k
  BY DEF InOrder
<1>3. PICK z : z = x \o y
  OBVIOUS
<1>4. PICK m, n : m = Len(x) /\ n = Len(y) /\ m \in Nat /\ n \in Nat
  BY ONLY <1>1, <1>2, SeqFacts
<1>5. z \in Seq(Ent) /\ Len(z) = m + n /\ (\A i \in 1 .. m : z[i] = x[i]) /\ \A i \in 1 .. n : z[m + i] = y[i]
  BY ONLY <1>1, <1>2, <1>3, <1>4, Both
<1>6. \A i \in 1 .. m + n : i \in 1 .. m \/ (i - m \in 1 .. n /\ i = m + (i - m))
  BY ONLY <1>4
<1>7. \A i \in 1 .. m + n : i \in 1 .. m \/ (i - m \in 1 .. n /\ z[i] = y[i - m])
  BY ONLY <1>5, <1>6
<1>8. ASSUME NEW i \in 1 .. m + n PROVE z[i].k \in Nat /\ a <= z[i].k /\ z[i].k < c
  <2>1. CASE i \in 1 .. m
    <3>1. x[i].k \in Nat /\ a <= x[i].k /\ x[i].k < b /\ z[i] = x[i]
      BY ONLY <1>1, <1>4, <1>5, <2>1
    <3>2. QED
      BY <3>1
  <2>2. CASE i - m \in 1 .. n /\ z[i] = y[i - m]
    <3>1. y[i - m].k \in Nat /\ b <= y[i - m].k /\ y[i - m].k < c
      BY ONLY <1>2, <1>4, <2>2
    <3>2. QED
      BY <2>2, <3>1
  <2>3. QED
    BY ONLY <1>7, <1>8, <2>1, <2>2
<1>9. ASSUME NEW i \in 1 .. m + n, NEW j \in 1 .. m + n, i < j PROVE z[i].k < z[j].k
  <2>1. CASE j \in 1 .. m
    <3>1. i \in 1 .. m
      BY ONLY <1>4, <1>9, <2>1
    <3>2. QED
      BY ONLY <1>1, <1>4, <1>5, <1>9, <2>1, <3>1
  <2>2. CASE i \in 1 .. m /\ j - m \in 1 .. n /\ z[j] = y[j - m]
    <3>1. x[i].k \in Nat /\ x[i].k < b /\ y[j - m].k \in Nat /\ b <= y[j - m].k /\ z[i] = x[i]
      BY ONLY <1>1, <1>2, <1>4, <1>5, <2>2
    <3>2. QED
      BY ONLY <2>2, <3>1, b \in Nat
  <2>3. CASE i - m \in 1 .. n /\ z[i] = y[i - m] /\ j - m \in 1 .. n /\ z[j] = y[j - m]
    <3>1. i - m < j - m
      BY ONLY <1>4, <1>9
    <3>2. QED
      BY ONLY <1>2, <1>4, <2>3, <3>1
  <2>4. QED
    BY ONLY <1>7, <1>9, <2>1, <2>2, <2>3
<1>10. QED
  BY ONLY <1>3, <1>5, <1>8, <1>9 DEF InOrder

\* The records of the leaves.
Whole(page, ps) == FlattenSeq([i \in DOMAIN ps |-> page[ps[i]].ents])

\* The records of a row of leaves are in order.
LEMMA WholeIs ==
  ASSUME NEW page, NEW R, NEW lv, NEW lo, NEW hi, TreeOK(page, R, lv, lo, hi, P_INVALID),
         NEW ps, NEW b \in Nat, InRow(R, lv, lo, hi, 0, 0, b, ps)
  PROVE  InOrder(0, b, Whole(page, ps))
<1>1. ps \in Seq(PageNo) /\ Len(ps) # 0 /\ lo[ps[1]] = 0 /\ hi[ps[Len(ps)]] = b
  BY DEF InRow
<1>2. PICK n : n = Len(ps) /\ n \in Nat /\ n # 0 /\ DOMAIN ps = 1 .. n /\ 1 \in 1 .. n /\ n \in 1 .. n
  <2>1. Len(ps) \in Nat /\ DOMAIN ps = 1 .. Len(ps)
    BY ONLY <1>1, SeqFacts
  <2>2. QED
    BY ONLY <1>1, <2>1
<1>3. \A i \in 1 .. n : ps[i] \in R /\ lv[ps[i]] = 0
  BY <1>2 DEF InRow
<1>4. \A i \in 1 .. n : i # n => hi[ps[i]] = lo[ps[i + 1]]
  BY <1>2 DEF InRow
<1>5. PICK ss : ss = [i \in 1 .. n |-> page[ps[i]].ents]
  OBVIOUS
<1>6. ASSUME NEW i \in 1 .. n PROVE InOrder(lo[ps[i]], hi[ps[i]], ss[i]) /\ lo[ps[i]] \in Nat /\ hi[ps[i]] \in Nat /\ lo[ps[i]] <= hi[ps[i]]
  <2>1. PICK p : p = ps[i] /\ p \in R /\ lv[p] = 0
    BY ONLY <1>3, <1>6
  <2>2. /\ page[p].ents \in Seq(Ent) /\ \A j \in 1 .. Len(page[p].ents) : page[p].ents[j].k \in Nat
        /\ lo[p] \in Nat /\ hi[p] \in Nat /\ lo[p] < hi[p]
    BY ONLY <2>1, TreeOK(page, R, lv, lo, hi, P_INVALID), InTree
  <2>3. Ordered(page, R, lv) /\ Within(page, R, lv, lo, hi)
    BY ONLY TreeOK(page, R, lv, lo, hi, P_INVALID) DEF TreeOK
  <2>4. \A j \in 1 .. Len(page[p].ents) : lo[p] <= page[p].ents[j].k /\ page[p].ents[j].k < hi[p]
    BY ONLY <2>1, <2>3 DEF Within
  <2>5. \A j, m \in 1 .. Len(page[p].ents) : j < m => page[p].ents[j].k < page[p].ents[m].k
    BY ONLY <2>1, <2>3 DEF Ordered
  <2>6. InOrder(lo[p], hi[p], page[p].ents)
    BY ONLY <2>2, <2>4, <2>5 DEF InOrder
  <2>7. ss[i] = page[p].ents /\ lo[p] <= hi[p]
    BY ONLY <1>5, <1>6, <2>1, <2>2
  <2>8. QED
    BY ONLY <2>1, <2>2, <2>6, <2>7
<1> DEFINE Q == [i \in 1 .. n |-> {x \in Seq(Ent) : InOrder(0, hi[ps[i]], x)}]
<1>7. ss[1] \in Q[1]
  <2>1. InOrder(0, hi[ps[1]], ss[1])
    BY ONLY <1>1, <1>2, <1>6
  <2>2. ss[1] \in Seq(Ent)
    BY ONLY <2>1 DEF InOrder
  <2>3. QED
    BY ONLY <1>2, <2>1, <2>2
<1>8. ASSUME NEW i \in 1 .. n, i # n, NEW x \in Q[i] PROVE x \o ss[i + 1] \in Q[i + 1]
  <2>1. InOrder(0, hi[ps[i]], x)
    BY ONLY <1>8
  <2>2. i + 1 \in 1 .. n
    BY ONLY <1>2, <1>8
  <2>3. PICK u, w, y : u = hi[ps[i]] /\ w = hi[ps[i + 1]] /\ y = ss[i + 1]
    OBVIOUS
  <2>4. lo[ps[i + 1]] = u
    BY ONLY <1>4, <1>8, <2>3
  <2>5. u \in Nat /\ w \in Nat /\ u <= w /\ InOrder(u, w, y)
    BY ONLY <1>6, <1>8, <2>2, <2>3, <2>4
  <2>6. InOrder(0, u, x) /\ 0 <= u /\ 0 \in Nat
    BY ONLY <2>1, <2>3, <2>5
  <2>7. InOrder(0, w, x \o y)
    BY ONLY <2>5, <2>6, OrderJoin
  <2>8. x \o y \in Seq(Ent)
    BY ONLY <2>7 DEF InOrder
  <2>9. InOrder(0, hi[ps[i + 1]], x \o ss[i + 1]) /\ x \o ss[i + 1] \in Seq(Ent)
    BY ONLY <2>3, <2>7, <2>8
  <2>10. QED
    BY ONLY <2>2, <2>9
<1>9. PICK QQ : QQ = Q
  OBVIOUS
<1>10. Len(ss) = n
  BY ONLY <1>2, <1>5
<1>11. /\ ss[1] \in QQ[1]
       /\ \A i \in 1 .. n : i # n => \A x \in QQ[i] : x \o ss[i + 1] \in QQ[i + 1]
  BY ONLY <1>7, <1>8, <1>9
<1>12. FlattenSeq(ss) \in QQ[n]
  <2> HIDE DEF Q
  <2>1. QED
    BY ONLY <1>2, <1>10, <1>11, FlatInd
<1>13. FlattenSeq(ss) \in Q[n]
  BY ONLY <1>9, <1>12
<1>14. InOrder(0, hi[ps[n]], FlattenSeq(ss))
  BY ONLY <1>2, <1>13
<1>15. Whole(page, ps) = FlattenSeq(ss)
  BY ONLY <1>2, <1>5 DEF Whole
<1>16. QED
  BY ONLY <1>1, <1>2, <1>14, <1>15

LEMMA ScanAll ==
  ASSUME Running
  PROVE  \A i \in 1 .. Len(AllRecords) - 1 : AllRecords[i].k < AllRecords[i + 1].k
<1>1. PICK R, lv, lo, hi : Sound(t, R, lv, lo, hi, contents)
  BY NowIs
<1>2. TreeOK(t.page, R, lv, lo, hi, P_INVALID)
  BY ONLY <1>1 DEF Sound
<1>3. PICK h : h = lv[P_ROOT] /\ h \in Nat /\ Depth = h
  BY ONLY <1>2, DepthIs
<1>4. PICK page, ps, b : page = t.page /\ ps = Leaves /\ b = MaxKey + 1
  OBVIOUS
<1>5. InRow(R, lv, lo, hi, 0, 0, b, ps)
  <2>1. ps = Level(h)
    BY ONLY <1>3, <1>4 DEF Leaves
  <2>2. h \in 0 .. lv[P_ROOT] /\ h - h = 0 /\ lv[P_ROOT] - h = 0
    BY ONLY <1>3
  <2>3. InRow(R, lv, lo, hi, lv[P_ROOT] - h, 0, MaxKey + 1, Level(h))
    BY ONLY <1>2, <2>2, LevelIs
  <2>4. QED
    BY ONLY <1>4, <2>1, <2>2, <2>3
<1>6. b \in Nat
  BY <1>4, Numbers
<1>7. TreeOK(page, R, lv, lo, hi, P_INVALID)
  BY ONLY <1>2, <1>4
<1>8. InOrder(0, b, Whole(page, ps))
  BY ONLY <1>5, <1>6, <1>7, WholeIs
<1>9. AllRecords = Whole(page, ps)
  BY ONLY <1>4 DEF AllRecords, Whole
<1>10. PICK es : es = AllRecords
  OBVIOUS
<1>11. es \in Seq(Ent) /\ \A i, j \in 1 .. Len(es) : i < j => es[i].k < es[j].k
  BY ONLY <1>8, <1>9, <1>10 DEF InOrder
<1>12. Len(es) \in Nat
  BY ONLY <1>11, SeqFacts
<1>13. \A i \in 1 .. Len(es) - 1 : i \in 1 .. Len(es) /\ i + 1 \in 1 .. Len(es) /\ i < i + 1
  BY ONLY <1>12
<1>14. \A i \in 1 .. Len(es) - 1 : es[i].k < es[i + 1].k
  BY ONLY <1>11, <1>13
<1>15. QED
  BY ONLY <1>10, <1>14

\* The leaves from left to right have the records in the order of their keys,
\* which is the order in which __bt_seq meets them.
THEOREM ScanCorrect == Spec => []ScanIsSorted
<1>1. IInv => ScanIsSorted
  <2>1. SUFFICES ASSUME IInv, Intact PROVE ScanIsSorted
    BY DEF ScanIsSorted
  <2>2. Running
    BY ONLY <2>1, RunningInv
  <2>3. QED
    BY ONLY <2>2, ScanAll DEF ScanIsSorted
<1>2. QED
  BY <1>1, Invariance, PTL
=============================================================================
