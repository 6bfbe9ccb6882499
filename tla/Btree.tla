------------------------------- MODULE Btree --------------------------------
(***************************************************************************)
(* The B+tree of db.1.85 without duplicates (B_NODUPS), as samdb opens it: *)
(* put with its insertion hint, splits up to the root, delete with the     *)
(* removal of empty pages, the cursor, the free list, and what survives a  *)
(* close and the next open.  The pages are those of the buffer pool, which *)
(* is transparent (Mpool) and in which no read fails.  Records have one    *)
(* size per kind of page, and keys are numbers; indices count from 1.      *)
(*                                                                         *)
(* t is the BTREE structure with the pages of the file.  The operators     *)
(* below take a tree and return the tree the code makes of it.             *)
(***************************************************************************)
EXTENDS PageLayout, SequencesExt, FiniteSets, FiniteSetsExt

CONSTANTS MaxKey,     \* keys are 1 .. MaxKey
          Data,       \* what a record may hold
          LeafSize,   \* the bytes of a record on a leaf page
          IntSize,    \* the bytes of a record on an internal page
          MaxPages,   \* MAX_PAGE_NUMBER: mpool_new fails there
          Memory,     \* how many pages the buffer pool may find memory for in a put
          Ops,        \* the operations the user makes
          None        \* no data, no key, no file

ASSUME BtreeAssumption == /\ MaxKey \in Nat \ {0}
                          /\ LeafSize \in Nat \ {0} /\ IntSize \in Nat \ {0}
                          /\ MaxPages \in Nat \ {0, 1}
                          /\ Memory \subseteq Nat
                          /\ None \notin Data \cup Nat

\* Two records fit on a page (bt_open.c refuses a minkeypage below 2, and longer
\* records go to overflow pages), and a page without room for another one has
\* half of its bytes in use: a record is at least three times as long as its
\* place in linp.
ASSUME RecordAssumption == \A s \in {LeafSize, IntSize} :
  /\ 2 * (s + Slot) <= Full
  /\ \A n \in 1 .. Full : n * (s + Slot) <= Full /\ Full < (n + 1) * (s + Slot)
                            => n * s >= Full \div 2

Key == 1 .. MaxKey
P_INVALID == 0
P_ROOT == 1
PageNo == 1 .. MaxPages - 1

VARIABLES t,          \* the BTREE structure
          meta,       \* the head of the free list in the file, or None: no file yet
          metadirty,  \* B_METADIRTY
          modified,   \* B_MODIFIED
          panic,      \* __dbpanic was called
          contents,   \* what the user was told is in the database
          at,         \* the key the last seq returned, or None
          flaw        \* how the tree was damaged, or "none"; it stays damaged

vars == <<t, meta, metadirty, modified, panic, contents, at, flaw>>

(* A page of the tree.  A leaf record has data, an internal one the number  *)
(* of a child.                                                              *)
Page == [leaf : {TRUE}, prev : 0 .. MaxPages - 1, next : 0 .. MaxPages - 1,
         ents : Seq([k : Key, v : Data])]
        \cup
        [leaf : {FALSE}, prev : 0 .. MaxPages - 1, next : 0 .. MaxPages - 1,
         ents : Seq([k : 0 .. MaxKey, v : PageNo])]

LeafPage(ents) == [leaf |-> TRUE, prev |-> P_INVALID, next |-> P_INVALID, ents |-> ents]

(* The hint of put, bt_order and bt_last.  When the page of the hint is     *)
(* emptied, linp[0] still points to the record deleted last: its key is     *)
(* stale.  bt_last is not looked at when the order is "not".                *)
Hint == [order : {"not", "forward", "back"}, pgno : 0 .. MaxPages - 1, index : Nat,
         stale : 0 .. MaxKey]
NoHint == [order |-> "not", pgno |-> 0, index |-> 0, stale |-> 0]
Cursor == [init : BOOLEAN, acquire : BOOLEAN, key : Key \cup {None},
           pgno : 0 .. MaxPages - 1, index : Nat]

Tree == [page : [PageNo -> Page], npages : 2 .. MaxPages, free : 0 .. MaxPages - 1,
         memory : {0}, cursor : Cursor, last : Hint]

NoCursor == [init |-> FALSE, acquire |-> FALSE, key |-> None, pgno |-> 0, index |-> 0]
Nowhere == [pgno |-> 0, index |-> 0]

\* The tree __bt_open makes of an empty file (nroot).
NewTree == [page |-> [p \in PageNo |-> LeafPage(<<>>)], npages |-> 2, free |-> P_INVALID,
            memory |-> 0, cursor |-> NoCursor, last |-> NoHint]

TypeOK == /\ t \in Tree
          /\ meta \in 0 .. MaxPages - 1 \cup {None}
          /\ metadirty \in BOOLEAN /\ modified \in BOOLEAN /\ panic \in BOOLEAN
          /\ contents \in [Key -> Data \cup {None}]
          /\ at \in Key \cup {None}
          /\ flaw \in {"none", "astray", "freelist", "cursor"}
-----------------------------------------------------------------------------
(* Searching *)

Size(leaf) == IF leaf THEN LeafSize ELSE IntSize
Sizes(leaf, n) == [i \in 1 .. n |-> Size(leaf)]
HasRoom(pg) == Fits(Sizes(pg.leaf, Len(pg.ents) + 1))

\* __bt_cmp: the left-most key of a level above the leaves is below any key.
AtMost(pg, i, k) == \/ pg.ents[i].k <= k
                    \/ i = 1 /\ pg.prev = P_INVALID /\ ~pg.leaf

\* Mutant: a key equal to that of a page goes to the page before it.
BranchBelow(pg, k) == Max({1} \cup {i \in DOMAIN pg.ents : pg.ents[i].k < k})

\* Where the binary search of a page ends: on an internal page at the last
\* record that is not above the key, on a leaf page at the first that is not
\* below it.
Branch(pg, k) == Max({1} \cup {i \in DOMAIN pg.ents : AtMost(pg, i, k)})
Place(pg, k) == 1 + Cardinality({i \in DOMAIN pg.ents : pg.ents[i].k < k})
Exact(pg, k) == \E i \in DOMAIN pg.ents : pg.ents[i].k = k

\* The stack of __bt_search: the pages from the root to the leaf and the index
\* taken on each.
Path(T, k) ==
  LET down[p \in PageNo] ==
        LET pg == T.page[p]
            i == Branch(pg, k) IN
        IF pg.leaf THEN <<[pgno |-> p, index |-> Place(pg, k)]>>
        ELSE <<[pgno |-> p, index |-> i]>> \o down[pg.ents[i].v]
  IN down[P_ROOT]

\* __bt_get
Get(T, k) == LET e == Last(Path(T, k)) IN
             IF Exact(T.page[e.pgno], k) THEN T.page[e.pgno].ents[e.index].v ELSE None

\* The pages of the tree.
Reach(T) ==
  LET below[p \in PageNo] ==
        {p} \cup IF T.page[p].leaf THEN {}
                 ELSE UNION {below[T.page[p].ents[i].v] : i \in DOMAIN T.page[p].ents}
  IN below[P_ROOT]
\* The free list has no page of the tree and an end.
FreeListOK(T) ==
  LET next[n \in 0 .. MaxPages] ==
        IF n = 0 THEN T.free
        ELSE LET p == next[n - 1] IN IF p = P_INVALID THEN P_INVALID ELSE T.page[p].next
  IN /\ \A n \in 0 .. MaxPages : next[n] \notin Reach(T)
     /\ next[MaxPages] = P_INVALID
-----------------------------------------------------------------------------
(* Pages: __bt_new, __bt_free, __bt_relink *)

\* Mutant: the page taken stays at the head of the free list.
TakenStays(T) == LET S == [T EXCEPT !.memory = IF @ > 0 THEN @ - 1 ELSE 0] IN
                 IF T.free = P_INVALID /\ T.npages < MaxPages /\ T.memory > 0
                 THEN [S EXCEPT !.npages = @ + 1] ELSE S

\* The page __bt_new returns, or P_INVALID, and the tree without it.  memory is
\* the number of pages that can still be had; it is 0 between operations.  (If
\* the free page cannot be read a new one is made instead: see Overflow.)
Spare(T) == IF T.memory = 0 THEN P_INVALID
            ELSE IF T.free # P_INVALID THEN T.free
            ELSE IF T.npages < MaxPages THEN T.npages ELSE P_INVALID
Taken(T) == IF Spare(T) = P_INVALID THEN T
            ELSE IF T.free # P_INVALID
            THEN [T EXCEPT !.memory = @ - 1, !.free = T.page[T.free].next]
            ELSE [T EXCEPT !.memory = @ - 1, !.npages = @ + 1]

\* What a freed page holds is not looked at again, but for the hint.
Free(T, p) == [T EXCEPT !.page[p] = [LeafPage(<<>>) EXCEPT !.next = T.free], !.free = p]

\* Mutant: only the page before is linked around the deleted one.
RelinkNext(T, p) ==
  LET h == T.page[p] IN
  [T EXCEPT !.page = [q \in PageNo |->
     IF q = h.prev THEN [T.page[q] EXCEPT !.next = h.next] ELSE T.page[q]]]

Relink(T, p) ==
  LET h == T.page[p] IN
  [T EXCEPT !.page = [q \in PageNo |->
     IF q = h.next THEN [T.page[q] EXCEPT !.prev = h.prev]
     ELSE IF q = h.prev THEN [T.page[q] EXCEPT !.next = h.next] ELSE T.page[q]]]
-----------------------------------------------------------------------------
(* The cursor *)

On(c, p) == c.init /\ ~c.acquire /\ c.pgno = p

\* __bt_dleaf: delete record i of leaf p; a cursor on it keeps its key only
\* (__bt_curdel), a cursor after it moves down.
Dleaf(T, p, i) ==
  LET c == T.cursor
      gone == [T EXCEPT !.page[p].ents = RemoveAt(@, i),
                        !.last.stale = IF T.last.pgno = p /\ Len(T.page[p].ents) = 1
                                       THEN T.page[p].ents[i].k ELSE @] IN
  IF ~On(c, p) \/ c.index < i THEN gone
  ELSE IF c.index = i
       THEN [gone EXCEPT !.cursor.acquire = TRUE, !.cursor.key = T.page[p].ents[i].k]
       ELSE [gone EXCEPT !.cursor.index = @ - 1]

\* bt_psplit moves a cursor on the page it splits at skip, leaving cut records
\* on page l, the others on page r.
SplitCursor(c, p, l, r, skip, cut) ==
  LET nxt == IF skip <= cut THEN cut - 1 ELSE cut
      i == IF c.index >= skip THEN c.index + 1 ELSE c.index IN
  IF ~c.init \/ c.pgno # p THEN c
  ELSE IF i <= nxt THEN [c EXCEPT !.pgno = l, !.index = i]
       ELSE [c EXCEPT !.pgno = r, !.index = i - nxt]
-----------------------------------------------------------------------------
(* Splitting.  A step of a split is a record: the tree, the left and the    *)
(* right page, P_INVALID when no page was to be had, and whether it is the  *)
(* parent's turn.                                                           *)

\* A page of the same kind as h.
Sibling(h, prev, next, ents) == [leaf |-> h.leaf, prev |-> prev, next |-> next, ents |-> ents]

Failed(T) == [t |-> T, l |-> P_INVALID, r |-> P_INVALID, up |-> FALSE]

\* bt_page, a page at the right edge split because e is appended to it
SortSplit(T, p, e) ==
  LET r == Spare(T) IN
  IF r = P_INVALID THEN Failed(T)
  ELSE [t |-> [Taken(T) EXCEPT !.page[p].next = r,
                               !.page[r] = Sibling(T.page[p], p, P_INVALID, <<e>>)],
        l |-> p, r |-> r, up |-> TRUE]

\* bt_page, any other page: records up to the cut stay, the others move to a
\* new page between p and its right neighbour.
PageSplitAt(T, p, skip, e) ==
  LET r == Spare(T)
      h == T.page[p]
      all == InsertAt(h.ents, skip, e)
      cut == Cut(Sizes(h.leaf, Len(all)), skip)
      right == Sibling(h, p, h.next, SubSeq(all, cut + 1, Len(all))) IN
  IF r = P_INVALID THEN Failed(T)
  ELSE [t |-> [Taken(T) EXCEPT
                 !.page = [q \in PageNo |->
                    IF q = p THEN Sibling(h, h.prev, r, SubSeq(all, 1, cut))
                    ELSE IF q = r THEN right
                    ELSE IF q = h.next THEN [T.page[q] EXCEPT !.prev = r] ELSE T.page[q]],
                 !.cursor = SplitCursor(@, p, p, r, skip, cut)],
        l |-> p, r |-> r, up |-> TRUE]

\* bt_root and bt_broot: the records go to two new pages, the root becomes
\* their parent.  Its first key is never looked at.
RootSplit(T, skip, e) ==
  LET l == Spare(T)
      r == Spare(Taken(T))
      h == T.page[P_ROOT]
      all == InsertAt(h.ents, skip, e)
      cut == Cut(Sizes(h.leaf, Len(all)), skip) IN
  IF r = P_INVALID THEN Failed(Taken(T))
  ELSE [t |-> [Taken(Taken(T)) EXCEPT
                 !.page[l] = Sibling(h, P_INVALID, r, SubSeq(all, 1, cut)),
                 !.page[r] = Sibling(h, l, P_INVALID, SubSeq(all, cut + 1, Len(all))),
                 !.page[P_ROOT] = [h EXCEPT !.leaf = FALSE,
                                            !.ents = <<[k |-> 0, v |-> l],
                                                       [k |-> all[cut + 1].k, v |-> r]>>],
                 !.cursor = SplitCursor(@, P_ROOT, l, r, skip, cut)],
        l |-> l, r |-> r, up |-> FALSE]

SplitPage(T, p, skip, e) ==
  IF p = P_ROOT THEN RootSplit(T, skip, e)
  ELSE IF T.page[p].next = P_INVALID /\ skip = Len(T.page[p].ents) + 1
       THEN SortSplit(T, p, e)
       ELSE PageSplitAt(T, p, skip, e)

\* Splitting p moves the cursor off its record, because nxt does not count the
\* new record on the left page (PageSplit, CursorFollowsApart).
CursorSlips(T, p, skip) ==
  LET pg == T.page[p]
      cut == Cut(Sizes(pg.leaf, Len(pg.ents) + 1), skip)
      sorted == p # P_ROOT /\ pg.next = P_INVALID /\ skip = Len(pg.ents) + 1 IN
  /\ On(T.cursor, p) /\ ~sorted
  /\ skip <= cut /\ T.cursor.index >= skip /\ T.cursor.index >= cut - 1

\* The key for the new right page in its parent.  Above the leaves a prefix of
\* it will do, one that is above the last key on the left, except next to the
\* left-most key of a level: any key in between may come out, here (short) the
\* least.
Separator(T, l, r, parent, short) ==
  LET b == T.page[r].ents[1].k
      a == Last(T.page[l].ents).k
      usable == T.page[parent.pgno].prev # P_INVALID \/ parent.index > 1 IN
  IF T.page[r].leaf /\ short /\ usable THEN a + 1 ELSE b

\* The parent gets the new page, one after the index taken, or is split.
SplitParent(s, parent, short) ==
  LET e == [k |-> Separator(s.t, s.l, s.r, parent, short), v |-> s.r]
      h == s.t.page[parent.pgno] IN
  IF HasRoom(h)
  THEN [s EXCEPT !.t.page[parent.pgno].ents = InsertAt(@, parent.index + 1, e), !.up = FALSE]
  ELSE SplitPage(s.t, parent.pgno, parent.index + 1, e)

\* __bt_split: insert e at the end of the path, then walk up the path.
Split(T, path, e, short) ==
  LET n == Len(path)
      walk[j \in 0 .. n - 1] ==
        IF j = 0 THEN SplitPage(T, path[n].pgno, path[n].index, e)
        ELSE LET s == walk[j - 1] IN
             IF s.up THEN SplitParent(s, path[n - j], short) ELSE s
  IN walk[n - 1]
-----------------------------------------------------------------------------
(* Putting *)

\* bt_fast: put may go on at the edge of the tree where the last one was.  The
\* page is taken as it is, in the tree or not.
FastPage(T) == T.page[T.last.pgno]

\* Mutant: the key is not compared with the last one.
FastForwardUnsorted(T, k) == /\ T.last.order = "forward"
                             /\ HasRoom(FastPage(T))
                             /\ FastPage(T).next = P_INVALID
                             /\ FastPage(T).ents # <<>>
                             /\ T.last.index = Len(FastPage(T).ents)

FastForward(T, k) == /\ T.last.order = "forward"
                     /\ HasRoom(FastPage(T))
                     /\ FastPage(T).next = P_INVALID
                     /\ FastPage(T).ents # <<>> /\ T.last.index = Len(FastPage(T).ents)
                     /\ k >= Last(FastPage(T).ents).k
FastKey(T) == IF FastPage(T).ents = <<>> THEN T.last.stale ELSE FastPage(T).ents[1].k
FastBack(T, k) == /\ T.last.order = "back"
                  /\ HasRoom(FastPage(T))
                  /\ FastPage(T).prev = P_INVALID
                  /\ T.last.index = 1
                  /\ k <= FastKey(T)
Fast(T, k) == FastForward(T, k) \/ FastBack(T, k)

\* Where k goes, with the stack when the tree was searched for it.
Target(T, k) ==
  IF FastForward(T, k)
  THEN <<[pgno |-> T.last.pgno,
          index |-> IF k = Last(FastPage(T).ents).k THEN T.last.index ELSE T.last.index + 1]>>
  ELSE IF FastBack(T, k) THEN <<[pgno |-> T.last.pgno, index |-> 1]>>
  ELSE Path(T, k)

\* What bt_fast remembers.
Hinted(T, k) == IF Fast(T, k) THEN [T EXCEPT !.last.index = Target(T, k)[1].index]
                ELSE [T EXCEPT !.last = NoHint]

\* The hint that an insertion of record i into leaf p leaves behind.
Remember(T, p, i) ==
  LET pg == T.page[p]
      to(o) == [T EXCEPT !.last = [order |-> o, pgno |-> p, index |-> i, stale |-> 0]] IN
  IF T.last.order # "not" THEN T
  ELSE IF pg.next = P_INVALID THEN (IF i = Len(pg.ents) THEN to("forward") ELSE T)
  ELSE IF pg.prev = P_INVALID /\ i = 1 THEN to("back") ELSE T

\* Mutant: a cursor after the new record stays where it is.
InsertStill(T, p, i, e) ==
  Remember([T EXCEPT !.page[p].ents = InsertAt(@, i, e),
                     !.last.stale = IF T.last.pgno = p THEN 0 ELSE @], p, i)

\* Insert e into leaf p, which has room for it, as record i.
Insert(T, p, i, e) ==
  Remember([T EXCEPT !.page[p].ents = InsertAt(@, i, e),
                     !.last.stale = IF T.last.pgno = p THEN 0 ELSE @,
                     !.cursor.index = IF On(T.cursor, p) /\ @ >= i THEN @ + 1 ELSE @], p, i)

\* __bt_put of a record that is to go to the end of the path.  The split may
\* find fewer pages than it needs: when the first is missing the put fails,
\* when another one is the tree is inconsistent.
Store(T, path, k, d) ==
  LET e == [k |-> k, v |-> d]
      p == Last(path).pgno
      i == Last(path).index IN
  /\ \/ /\ HasRoom(T.page[p])
        /\ t' = Insert(T, p, i, e)
        /\ contents' = [contents EXCEPT ![k] = d]
        /\ modified' = TRUE
        /\ UNCHANGED <<panic, flaw>>
     \/ /\ ~HasRoom(T.page[p])
        /\ \E m \in Memory, short \in BOOLEAN :
             LET M == [T EXCEPT !.memory = m]
                 s == Split(M, path, e, short)
                 done == s.r # P_INVALID
                 begun == SplitPage(M, p, i, e).r # P_INVALID IN
             /\ t' = [s.t EXCEPT !.memory = 0]
             /\ contents' = IF done THEN [contents EXCEPT ![k] = d] ELSE contents
             /\ modified' = (modified \/ done)
             /\ panic' = (begun /\ ~done)
             /\ flaw' = IF begun /\ CursorSlips(T, p, i) THEN "cursor" ELSE flaw
  /\ UNCHANGED <<meta, metadirty, at>>

\* A put that bt_fast sends to a page that was freed: the record goes there or,
\* when its key is the one left behind there, R_NOOVERWRITE finds it or __bt_dleaf
\* deletes from the empty page, with lengths below 0.  That is undefined, and
\* nothing is said of the tree from here on, only of what the user was told.
PutAstray(T, p, k, d) ==
  /\ flaw' = "astray"
  /\ IF t.last.stale = k
     THEN /\ t' = T
          /\ \/ contents' = [contents EXCEPT ![k] = d] /\ modified' = TRUE
             \/ UNCHANGED <<contents, modified>>
     ELSE /\ t' = Insert(T, p, 1, [k |-> k, v |-> d])
          /\ contents' = [contents EXCEPT ![k] = d]
          /\ modified' = TRUE
  /\ UNCHANGED <<meta, metadirty, panic, at>>

\* __bt_put with flags 0, which replaces a record, or R_NOOVERWRITE, which
\* leaves it.
Put(k, d) ==
  LET path == Target(t, k)
      p == Last(path).pgno
      T == Hinted(t, k) IN
  IF p \notin Reach(t) THEN PutAstray(T, p, k, d)
  ELSE IF ~Exact(t.page[p], k) THEN Store(T, path, k, d)
  ELSE \/ Store(Dleaf(T, p, Last(path).index), path, k, d)
       \/ t' = T /\ UNCHANGED <<meta, metadirty, modified, panic, contents, at, flaw>>

\* __bt_put with R_CURSOR: replace the record under the cursor
PutCursor(d) ==
  /\ t.cursor.init /\ ~t.cursor.acquire
  /\ LET c == t.cursor IN
     Store(Dleaf(t, c.pgno, c.index), <<[pgno |-> c.pgno, index |-> c.index]>>, at, d)
-----------------------------------------------------------------------------
(* Deleting *)

\* __bt_pdelete: the leaf at the end of the path is empty.  Walk up, freeing
\* parents that lose their only record; the root becomes an empty leaf.
Pdelete(T, path) ==
  LET n == Len(path)
      drop(s, e) ==
        IF Len(s.t.page[e.pgno].ents) > 1
        THEN [t |-> [s.t EXCEPT !.page[e.pgno].ents = RemoveAt(@, e.index)], up |-> FALSE]
        ELSE IF e.pgno = P_ROOT
        THEN [t |-> [s.t EXCEPT !.page[P_ROOT].ents = <<>>, !.page[P_ROOT].leaf = TRUE],
              up |-> FALSE]
        ELSE [t |-> Free(Relink(s.t, e.pgno), e.pgno), up |-> TRUE]
      walk[j \in 0 .. n - 1] ==
        IF j = 0 THEN [t |-> T, up |-> TRUE]
        ELSE LET s == walk[j - 1] IN IF s.up THEN drop(s, path[n - j]) ELSE s
      leaf == path[n].pgno
      S == walk[n - 1].t
  IN IF leaf = P_ROOT THEN S ELSE Free(Relink(S, leaf), leaf)

\* Delete record i of the leaf at the end of the path, and the leaf if that
\* was its last record.
Erase(path, i) ==
  LET p == Last(path).pgno
      T == Dleaf(t, p, i)
      S == IF T.page[p].ents = <<>> THEN Pdelete(T, path) ELSE T IN
  /\ t' = S
  /\ contents' = [contents EXCEPT ![t.page[p].ents[i].k] = None]
  /\ modified' = TRUE
  /\ UNCHANGED <<meta, metadirty, panic, at, flaw>>

\* __bt_delete with flags 0 (__bt_bdelete); a key that is not there changes nothing
Del(k) == LET path == Path(t, k) IN
          /\ Exact(t.page[Last(path).pgno], k)
          /\ Erase(path, Last(path).index)

\* __bt_delete with R_CURSOR; __bt_stkacq finds the stack of the cursor's page.
DelCursor == /\ t.cursor.init /\ ~t.cursor.acquire
             /\ Erase(Path(t, t.page[t.cursor.pgno].ents[t.cursor.index].k), t.cursor.index)
-----------------------------------------------------------------------------
(* Scanning.  An end of the scan (RET_SPECIAL) is Nowhere. *)

\* Down the left-hand or the right-hand side of the tree.
Edge(T, right) ==
  LET side(p) == IF right THEN Len(T.page[p].ents) ELSE 1
      down[p \in PageNo] == IF T.page[p].leaf THEN p ELSE down[T.page[p].ents[side(p)].v]
      leaf == down[P_ROOT]
  IN IF T.page[leaf].ents = <<>> THEN Nowhere ELSE [pgno |-> leaf, index |-> side(leaf)]

\* The first record of the page after p, the last record of the page before it.
Following(T, p) == IF T.page[p].next = P_INVALID THEN Nowhere
                   ELSE [pgno |-> T.page[p].next, index |-> 1]
Preceding(T, p) == IF T.page[p].prev = P_INVALID THEN Nowhere
                   ELSE [pgno |-> T.page[p].prev, index |-> Len(T.page[T.page[p].prev].ents)]

\* __bt_first: the record of k, or the first one above it
First(T, k) == LET e == Last(Path(T, k)) IN
               IF e.index = Len(T.page[e.pgno].ents) + 1 THEN Following(T, e.pgno) ELSE e

\* __bt_seqset and __bt_seqadv; a cursor that has only its key is looked up,
\* whichever way the scan goes.
Step(T, forward) ==
  LET c == T.cursor IN
  IF ~c.init THEN Edge(T, ~forward)
  ELSE IF c.acquire THEN First(T, c.key)
  ELSE IF forward
  THEN IF c.index + 1 = Len(T.page[c.pgno].ents) + 1 THEN Following(T, c.pgno)
       ELSE [pgno |-> c.pgno, index |-> c.index + 1]
  ELSE IF c.index = 1 THEN Preceding(T, c.pgno) ELSE [pgno |-> c.pgno, index |-> c.index - 1]

\* __bt_seq: the cursor moves to the record found (__bt_setcur), if any.
SeqTo(e) == /\ e # Nowhere
            /\ t' = [t EXCEPT !.cursor = [init |-> TRUE, acquire |-> FALSE, key |-> None,
                                          pgno |-> e.pgno, index |-> e.index]]
            /\ at' = t.page[e.pgno].ents[e.index].k
            /\ UNCHANGED <<meta, metadirty, modified, panic, contents, flaw>>

SeqFirst == SeqTo(Edge(t, FALSE))
SeqLast == SeqTo(Edge(t, TRUE))
SeqCursor(k) == SeqTo(First(t, k))
SeqNext == SeqTo(Step(t, TRUE))
SeqPrev == SeqTo(Step(t, FALSE))
-----------------------------------------------------------------------------
(* __bt_sync, __bt_close and the next __bt_open *)

\* The free list head that a sync leaves in the file (bt_meta).
Saved == IF modified /\ metadirty THEN t.free ELSE meta

Sync == /\ modified
        /\ meta' = Saved
        /\ modified' = FALSE
        /\ UNCHANGED <<t, metadirty, panic, contents, at, flaw>>

Reopen == /\ t' = IF Saved = None THEN NewTree
                  ELSE [t EXCEPT !.free = Saved, !.cursor = NoCursor, !.last = NoHint]
          /\ meta' = Saved
          /\ metadirty' = (Saved = None)
          /\ modified' = FALSE
          /\ at' = None
          /\ flaw' = IF FreeListOK(t') THEN flaw ELSE "freelist"
          /\ UNCHANGED <<panic, contents>>
-----------------------------------------------------------------------------
Init == /\ t = NewTree
        /\ meta = None
        /\ metadirty = TRUE
        /\ modified = FALSE
        /\ panic = FALSE
        /\ contents = [k \in Key |-> None]
        /\ at = None
        /\ flaw = "none"

\* After __dbpanic every operation fails; the user goes on with Ops only.
Next == /\ ~panic
        /\ \/ "put" \in Ops /\ \E k \in Key, d \in Data : Put(k, d)
           \/ "del" \in Ops /\ \E k \in Key : Del(k)
           \/ /\ "cursor" \in Ops
              /\ \/ SeqFirst \/ SeqLast \/ SeqNext \/ SeqPrev
                 \/ \E k \in Key : SeqCursor(k)
                 \/ DelCursor
                 \/ \E d \in Data : PutCursor(d)
           \/ "open" \in Ops /\ (Sync \/ Reopen)

Spec == Init /\ [][Next]_vars

\* Runs stop at a damaged tree.
Undamaged == flaw = "none"
-----------------------------------------------------------------------------
(* What the tree promises, as long as it is undamaged and has not panicked *)

Intact == flaw = "none" /\ ~panic

\* The pages of level n, from left to right.
Level(n) ==
  LET children(p) == [i \in DOMAIN t.page[p].ents |-> t.page[p].ents[i].v]
      level[m \in 0 .. n] ==
        IF m = 0 THEN <<P_ROOT>>
        ELSE LET above == level[m - 1] IN
             FlattenSeq([i \in DOMAIN above |-> children(above[i])])
  IN level[n]

Depth == Len(Path(t, 1)) - 1
Leaves == Level(Depth)
AllRecords == FlattenSeq([i \in DOMAIN Leaves |-> t.page[Leaves[i]].ents])

\* Every leaf is at the same depth, the pages of a level are linked in the
\* order in which their parents name them, no page is named twice, and only a
\* root can be empty: after any splits and removals of pages.
Shape ==
  Intact => TypeOK /\ \A n \in 0 .. Depth :
    LET ps == Level(n) IN
    /\ \A i \in DOMAIN ps :
         LET pg == t.page[ps[i]] IN
         /\ pg.leaf = (n = Depth)
         /\ pg.prev = (IF i = 1 THEN P_INVALID ELSE ps[i - 1])
         /\ pg.next = (IF i = Len(ps) THEN P_INVALID ELSE ps[i + 1])
         /\ pg.ents = <<>> => ps[i] = P_ROOT
         /\ Fits(Sizes(pg.leaf, Len(pg.ents)))
    /\ IsInjective(ps)

\* No page is free and in the tree, and the free list ends, after any splits
\* and removals of pages.
FreePages == Intact => FreeListOK(t)

\* A search finds for every key what the user was told is there, wherever
\* splits, removals and hints have put it.
GetReturnsLatest == Intact => \A k \in Key : Get(t, k) = contents[k]

\* A scan meets the keys in order.
ScanIsSorted == Intact => \A i \in 1 .. Len(AllRecords) - 1 :
                            AllRecords[i].k < AllRecords[i + 1].k

\* "The default behavior of the put routines is to enter the new key/data pair"
\* (man/dbopen.3:234): a put that succeeds can be found.
PutEnters == ~panic /\ flaw # "freelist" => \A k \in Key : Get(t, k) = contents[k]

(* The tree is a dictionary (Dictionary): the records are what get finds,   *)
(* the cursor has the key of the record it is on, or its saved key.         *)

CursorKey == LET c == t.cursor IN
             IF ~c.init THEN None
             ELSE IF c.acquire THEN c.key ELSE t.page[c.pgno].ents[c.index].k

AsDict == [rec |-> [k \in Key |-> Get(t, k)], at |-> CursorKey, gone |-> t.cursor.acquire]

D == INSTANCE Dictionary WITH dict <- AsDict

\* The key of a record that a scan finds.
Returned(e) == IF e = Nowhere THEN None ELSE t.page[e.pgno].ents[e.index].k

\* The record under the cursor is gone and there is one with its key again.
PutAgain == t.cursor.acquire /\ Get(t, t.cursor.key) # None

\* What each flag of seq returns.  Left out are the two cases in which
\* __bt_seqadv does not do what dbopen.3:293-299 says because it has the key of
\* the cursor only and looks it up again (bt_seq.c:263): R_NEXT then returns a
\* record put again under the cursor's key, which is not "after the cursor",
\* and R_PREV goes forward.
SeqAgrees == /\ Returned(Edge(t, FALSE)) = D!First(AsDict)
             /\ Returned(Edge(t, TRUE)) = D!Last(AsDict)
             /\ \A k \in Key : Returned(First(t, k)) = D!From(AsDict, k)
             /\ ~PutAgain => Returned(Step(t, TRUE)) = D!Following(AsDict)
             /\ ~t.cursor.acquire => Returned(Step(t, FALSE)) = D!Preceding(AsDict)

\* What each operation leaves, those two cases apart.  A put that fails, or
\* finds the key with R_NOOVERWRITE, leaves everything as it was.
OpsAgree == /\ \A k \in Key, d \in Data :
                 Put(k, d) => D!Put(k, d) \/ (contents' = contents /\ D!Same)
            /\ \A d \in Data : PutCursor(d) => D!Put(at, d)
            /\ \A k \in Key : Del(k) => D!Del(k)
            /\ DelCursor => D!Del(at)
            /\ SeqFirst => D!SeqFirst
            /\ SeqLast => D!SeqLast
            /\ \A k \in Key : SeqCursor(k) => D!SeqCursor(k)
            /\ SeqNext /\ ~PutAgain => D!SeqNext
            /\ SeqPrev /\ ~t.cursor.acquire => D!SeqPrev
            /\ Sync => D!Same
            /\ Reopen => D!Reopen

\* The tree is the dictionary that the manual describes (man/dbopen.3:233-299):
\* every put, del, seq, sync, close and open changes records and cursor as it
\* says there, and every seq returns the record it says, whatever splits,
\* removals of pages and adjustments of the cursor came before.  It is not
\* where a tree is damaged (Intact; a cursor that bt_psplit moved is CursorStays)
\* and in the two cases of SeqAgrees.
ImplementsDictionary == /\ D!Init
                        /\ [](Intact => SeqAgrees)
                        /\ [][Intact' => OpsAgree]_vars

\* "the position of the ``cursor'' is not affected by calls to the del, get,
\* put, or sync routines" (man/dbopen.3:256-262): until its record is deleted or
\* replaced the cursor is on the record that seq returned last.
CursorStays == LET c == t.cursor IN
               ~panic /\ c.init /\ ~c.acquire =>
                 /\ c.index \in DOMAIN t.page[c.pgno].ents
                 /\ t.page[c.pgno].ents[c.index].k = at
=============================================================================
