---------------------------- MODULE MpoolProofs -----------------------------
(***************************************************************************)
(* The buffer pool for any number of pages, any size of the cache and any  *)
(* memory: the LRU list stays a list of the cached pages, a page in use    *)
(* stays in its bucket and, when the database has the byte order of the    *)
(* host, nothing is lost between the cache and the file.                   *)
(***************************************************************************)
EXTENDS Mpool, FiniteSetTheorems, TLAPS

\* Every non-empty set of natural numbers has a least element.
LEMMA LeastNumber ==
  ASSUME NEW S, S \subseteq Nat, S # {}
  PROVE  \E x \in S : \A y \in S : x <= y
<1> DEFINE R == {ss \in Nat \X Nat : ss[1] < ss[2]}
<1>1. IsWellFoundedOn(R, Nat)
  BY NatLessThanWellFounded, Zenon DEF OpToRel
<1>2. PICK x \in S : \A y \in S : ~(<<y, x>> \in R)
  <2> HIDE DEF R
  <2> QED
    BY <1>1, WFMin
<1>3. ASSUME NEW y \in S PROVE x <= y
  <2>1. x \in Nat /\ y \in Nat
    OBVIOUS
  <2>2. ~(<<y, x>>[1] < <<y, x>>[2])
    BY <1>2, <2>1
  <2>3. QED
    BY <2>1, <2>2
<1>4. QED
  BY <1>3

\* A list and the buckets it threads: each cached page is on it, once.
Threads(l, b) == /\ l \in Seq(PageNo)
                 /\ b \in [PageNo -> Bucket \cup {NoPage}]
                 /\ \A i, j \in DOMAIN l : l[i] = l[j] => i = j
                 /\ \A p \in PageNo : b[p] # NoPage <=> \E i \in DOMAIN l : l[i] = p

LEMMA ListThreads == ListIsCache <=> TypeOK /\ Threads(lru, bkt)
BY DEF ListIsCache, Threads, TypeOK, Cached

\* CIRCLEQ_INSERT_TAIL of the bucket of a page that was not cached
LEMMA AppendThreads ==
  ASSUME NEW l, NEW b, Threads(l, b),
         NEW p \in PageNo, b[p] = NoPage, NEW c \in Bucket
  PROVE  Threads(Append(l, p), [b EXCEPT ![p] = c])
<1> DEFINE m == Append(l, p)
           d == [b EXCEPT ![p] = c]
<1>1. m \in Seq(PageNo) /\ Len(m) = Len(l) + 1 /\ m[Len(m)] = p
  BY DEF Threads
<1>2. \A i \in DOMAIN l : m[i] = l[i] /\ l[i] # p
  BY DEF Threads
<1>3. d \in [PageNo -> Bucket \cup {NoPage}]
  BY DEF Threads
<1>4. DOMAIN m = 1 .. Len(l) + 1 /\ DOMAIN l = 1 .. Len(l) /\ Len(l) \in Nat
  BY <1>1 DEF Threads
<1>5. \A i, j \in DOMAIN m : m[i] = m[j] => i = j
  <2> HIDE DEF m
  <2> QED
    BY <1>1, <1>2, <1>4 DEF Threads
<1>6. \A q \in PageNo : d[q] # NoPage <=> \E i \in DOMAIN m : m[i] = q
  <2> SUFFICES ASSUME NEW q \in PageNo
               PROVE  d[q] # NoPage <=> \E i \in DOMAIN m : m[i] = q
    OBVIOUS
  <2>1. CASE q = p
    BY <2>1, <1>1, <1>4, NoPageAssumption DEF Threads
  <2>2. CASE q # p
    <3>1. d[q] = b[q]
      BY <2>2 DEF Threads
    <3>2. (\E i \in DOMAIN m : m[i] = q) <=> (\E i \in DOMAIN l : l[i] = q)
      <4> HIDE DEF m
      <4> QED
        BY <2>2, <1>1, <1>2, <1>4
    <3>3. QED
      BY <3>1, <3>2 DEF Threads
  <2>3. QED
    BY <2>1, <2>2
<1>7. QED
  BY <1>1, <1>3, <1>5, <1>6 DEF Threads

\* CIRCLEQ_REMOVE of the bucket of a cached page
LEMMA WithoutThreads ==
  ASSUME Threads(lru, bkt), NEW p \in PageNo, bkt[p] # NoPage
  PROVE  Threads(Without(p), [bkt EXCEPT ![p] = NoPage])
<1> DEFINE k == IndexOf(p)
           m == Without(p)
           d == [bkt EXCEPT ![p] = NoPage]
<1>1. k \in DOMAIN lru /\ lru[k] = p
  BY DEF Threads, IndexOf
<1>2. DOMAIN lru = 1 .. Len(lru) /\ Len(lru) \in Nat
  BY DEF Threads
<1> HIDE DEF k
<1>3. m = [i \in 1 .. Len(lru) - 1 |-> IF i < k THEN lru[i] ELSE lru[i + 1]]
  BY DEF Without, k
<1> HIDE DEF m
<1>4. Len(lru) - 1 \in Nat /\ k \in 1 .. Len(lru)
  BY <1>1, <1>2
<1> DEFINE at(i) == IF i < k THEN i ELSE i + 1
<1>5. \A i \in 1 .. Len(lru) - 1 : m[i] = lru[at(i)] /\ at(i) \in DOMAIN lru \ {k}
  BY <1>2, <1>3, <1>4
<1>a. \A i, j \in 1 .. Len(lru) - 1 : at(i) = at(j) => i = j
  BY <1>4
<1>b. \A j \in DOMAIN lru \ {k} : \E i \in 1 .. Len(lru) - 1 : at(i) = j
  <2> TAKE j \in DOMAIN lru \ {k}
  <2>1. CASE j < k
    BY <2>1, <1>2, <1>4
  <2>2. CASE j > k
    <3>1. j - 1 \in 1 .. Len(lru) - 1 /\ at(j - 1) = j
      BY <2>2, <1>2, <1>4
    <3>2. QED
      BY <3>1
  <2>3. QED
    BY <2>1, <2>2, <1>2, <1>4
<1> HIDE DEF at
<1>6. m \in Seq(PageNo) /\ DOMAIN m = 1 .. Len(lru) - 1
  <2>1. \A i \in 1 .. Len(lru) - 1 : m[i] \in PageNo
    BY <1>5 DEF Threads
  <2>2. QED
    BY <1>3, <1>4, <2>1
<1>7. \A i, j \in DOMAIN m : m[i] = m[j] => i = j
  BY <1>5, <1>6, <1>a DEF Threads
<1>8. \A i \in DOMAIN m : m[i] # p
  BY <1>1, <1>5, <1>6 DEF Threads
<1>9. ASSUME NEW q \in PageNo, q # p
      PROVE  (\E i \in DOMAIN m : m[i] = q) <=> (\E i \in DOMAIN lru : lru[i] = q)
  BY <1>1, <1>5, <1>6, <1>9, <1>b, ZenonT(60)
<1>10. d \in [PageNo -> Bucket \cup {NoPage}]
  BY DEF Threads
<1>11. \A q \in PageNo : d[q] # NoPage <=> \E i \in DOMAIN m : m[i] = q
  BY <1>8, <1>9 DEF Threads
<1>12. QED
  BY <1>6, <1>7, <1>10, <1>11 DEF Threads, m

\* The bucket mpool_bkt takes holds a page that is cached and that nobody uses.
LEMMA VictimUnpinned ==
  ASSUME Threads(lru, bkt), Unpinned # {}
  PROVE  Victim \in PageNo /\ bkt[Victim] # NoPage /\ ~bkt[Victim].pinned
<1>1. Unpinned \subseteq Nat
  BY DEF Unpinned, Threads
<1>2. \E i \in Unpinned : \A j \in Unpinned : i <= j
  BY <1>1, LeastNumber
<1>3. PICK i \in Unpinned : Victim = lru[i]
  BY <1>2 DEF Victim
<1>4. i \in DOMAIN lru /\ ~bkt[lru[i]].pinned
  BY DEF Unpinned
<1>5. lru[i] \in PageNo
  BY <1>4 DEF Threads
<1>6. QED
  BY <1>3, <1>4, <1>5 DEF Threads
-----------------------------------------------------------------------------
LEMMA ContentType ==
  ASSUME NEW c \in Content
  PROVE  /\ PgIn(c) \in Content /\ PgOut(c) \in Content
         /\ \A o \in {"host", "file", "junk"} : InOrder(c, o) \in Content
BY DEF Content, PgIn, PgOut, InOrder

\* What is in the file: no page past the end, every page that is not cached or
\* that the pool may drop, and after a sync every page.
InFile == /\ \A p \in PageNo :
               /\ p >= npages => bkt[p] = NoPage /\ disk[p] = NoPage
               /\ p < npages /\ bkt[p] = NoPage => disk[p] # NoPage
               /\ bkt[p] # NoPage /\ ~bkt[p].dirty /\ p \notin changed => disk[p] # NoPage
               /\ synced /\ bkt[p] # NoPage => ~bkt[p].dirty
          /\ synced => held = {}

\* What a call of mpool_bkt may do to a page, whether the call succeeds or not:
\* nothing, evict it or, after a write that failed, leave it as the filter made it.
Spared(o, p) == o.bkt[p] = bkt[p] /\ o.disk[p] = disk[p]
Evicted(o, p) == /\ bkt[p] # NoPage /\ p \notin held
                 /\ o.bkt[p] = NoPage
                 /\ \/ ~bkt[p].dirty /\ o.disk[p] = disk[p]
                    \/ o.disk[p] = PgOut(bkt[p].page)
Unwritten(o, p) == /\ bkt[p] # NoPage /\ p \notin held /\ bkt[p].dirty
                   /\ o.bkt[p] = [bkt[p] EXCEPT !.page = PgOut(@)]
                   /\ o.disk[p] = disk[p] \/ o.disk[p] # NoPage

Outcome(o) == /\ o.ok \in BOOLEAN
              /\ Threads(o.lru, o.bkt)
              /\ o.cur \in Nat
              /\ o.disk \in [PageNo -> Content \cup {NoPage}]
              /\ \A p \in PageNo : Spared(o, p) \/ Evicted(o, p) \/ Unwritten(o, p)

LEMMA WriteOutcome ==
  ASSUME TypeOK, NEW p \in PageNo, bkt[p] # NoPage, NEW w \in Write(p)
  PROVE  /\ w.ok \in BOOLEAN
         /\ w.page = PgOut(bkt[p].page) /\ w.page \in Content
         /\ w.disk \in [PageNo -> Content \cup {NoPage}]
         /\ \A q \in PageNo \ {p} : w.disk[q] = disk[q]
         /\ w.ok => w.disk[p] = w.page
         /\ w.disk[p] = disk[p] \/ w.disk[p] # NoPage
<1>1. bkt[p].page \in Content
  BY DEF TypeOK, Bucket
<1>2. PgOut(bkt[p].page) \in Content /\ InOrder(PgOut(bkt[p].page), "junk") \in Content
  BY <1>1, ContentType
<1>3. /\ \A c \in Content : [disk EXCEPT ![p] = c] \in [PageNo -> Content \cup {NoPage}]
      /\ \A c \in Content : [disk EXCEPT ![p] = c][p] = c
      /\ \A c \in Content, q \in PageNo \ {p} : [disk EXCEPT ![p] = c][q] = disk[q]
  BY DEF TypeOK
<1>4. CASE w = [ok |-> TRUE, page |-> PgOut(bkt[p].page),
                disk |-> [disk EXCEPT ![p] = PgOut(bkt[p].page)]]
  BY <1>2, <1>3, <1>4, NoPageAssumption
<1>5. ASSUME NEW d \in {disk, [disk EXCEPT ![p] = InOrder(PgOut(bkt[p].page), "junk")]},
             w = [ok |-> FALSE, page |-> PgOut(bkt[p].page), disk |-> d]
      PROVE  ~w.ok /\ w.ok \in BOOLEAN /\ w.page = PgOut(bkt[p].page) /\ w.disk = d
  BY <1>5
<1>6. QED
  BY <1>2, <1>3, <1>4, <1>5, NoPageAssumption DEF Write, TypeOK

LEMMA EvictOutcome ==
  ASSUME ListIsCache, HeldStayPinned,
         NEW v \in PageNo, bkt[v] # NoPage, ~bkt[v].pinned,
         NEW d \in [PageNo -> Content \cup {NoPage}], \A q \in PageNo \ {v} : d[q] = disk[q],
         (~bkt[v].dirty /\ d[v] = disk[v]) \/ d[v] = PgOut(bkt[v].page)
  PROVE  Outcome(Evict(v, d))
<1>1. TypeOK /\ Threads(lru, bkt)
  BY ListThreads
<1>2. v \notin held
  BY DEF HeldStayPinned
<1>3. Threads(Without(v), [bkt EXCEPT ![v] = NoPage])
  BY <1>1, WithoutThreads
<1>4. Evicted(Evict(v, d), v)
  BY <1>1, <1>2 DEF Evicted, Evict, TypeOK
<1>5. \A p \in PageNo \ {v} : Spared(Evict(v, d), p)
  BY <1>1 DEF Spared, Evict, TypeOK
<1>6. /\ Evict(v, d).ok = TRUE /\ Evict(v, d).cur = curcache /\ Evict(v, d).disk = d
      /\ Evict(v, d).lru = Without(v) /\ Evict(v, d).bkt = [bkt EXCEPT ![v] = NoPage]
  BY DEF Evict
<1>7. \A p \in PageNo : Spared(Evict(v, d), p) \/ Evicted(Evict(v, d), p)
  BY <1>4, <1>5
<1>8. curcache \in Nat
  BY <1>1 DEF TypeOK
<1>9. QED
  BY <1>3, <1>6, <1>7, <1>8 DEF Outcome

LEMMA KeptThreads ==
  ASSUME Threads(lru, bkt), NEW v \in PageNo, bkt[v] # NoPage, NEW c \in Bucket
  PROVE  Threads(lru, [bkt EXCEPT ![v] = c])
BY NoPageAssumption DEF Threads

LEMMA FlushOutcome ==
  ASSUME ListIsCache, HeldStayPinned,
         NEW v \in PageNo, bkt[v] # NoPage, ~bkt[v].pinned, NEW o \in Flush(v)
  PROVE  Outcome(o)
<1>1. TypeOK /\ Threads(lru, bkt)
  BY ListThreads
<1>2. CASE ~bkt[v].dirty
  BY <1>1, <1>2, EvictOutcome DEF Flush, TypeOK
<1>3. CASE bkt[v].dirty
  <2>1. PICK w \in Write(v) :
          o = IF w.ok THEN Evict(v, w.disk)
              ELSE [ok |-> FALSE, lru |-> lru, bkt |-> [bkt EXCEPT ![v].page = w.page],
                    disk |-> w.disk, cur |-> curcache]
    BY <1>3 DEF Flush
  <2>2. CASE w.ok
    BY <1>1, <2>1, <2>2, WriteOutcome, EvictOutcome
  <2>3. CASE ~w.ok
    <3>1. [bkt[v] EXCEPT !.page = w.page] \in Bucket
      BY <1>1, WriteOutcome DEF TypeOK, Bucket
    <3>2. Threads(lru, [bkt EXCEPT ![v].page = w.page])
      BY <1>1, <3>1, KeptThreads
    <3>3. v \notin held
      BY DEF HeldStayPinned
    <3>4. Unwritten(o, v)
      BY <1>1, <1>3, <2>1, <2>3, <3>3, WriteOutcome DEF Unwritten, TypeOK
    <3>5. \A p \in PageNo \ {v} : Spared(o, p)
      BY <1>1, <2>1, <2>3, WriteOutcome DEF Spared, TypeOK
    <3>6. /\ o.ok = FALSE /\ o.cur = curcache /\ o.disk = w.disk
          /\ o.lru = lru /\ o.bkt = [bkt EXCEPT ![v].page = w.page]
      BY <2>1, <2>3
    <3>7. curcache \in Nat /\ w.disk \in [PageNo -> Content \cup {NoPage}]
      BY <1>1, WriteOutcome DEF TypeOK
    <3>8. \A p \in PageNo : Spared(o, p) \/ Unwritten(o, p)
      BY <3>4, <3>5
    <3>9. QED
      BY <3>2, <3>6, <3>7, <3>8 DEF Outcome
  <2>4. QED
    BY <1>1, <2>2, <2>3, WriteOutcome
<1>4. QED
  BY <1>2, <1>3

LEMMA BktOutcome ==
  ASSUME ListIsCache, HeldStayPinned, NEW o \in Bkt
  PROVE  Outcome(o)
<1>1. TypeOK /\ Threads(lru, bkt)
  BY ListThreads
<1>2. CASE curcache < MaxCache \/ Unpinned = {}
  <2>1. o = [ok |-> curcache < Memory, lru |-> lru, bkt |-> bkt, disk |-> disk,
             cur |-> IF curcache < Memory THEN curcache + 1 ELSE curcache]
    BY <1>2 DEF Bkt, Grow
  <2>2. o.cur \in Nat /\ o.ok \in BOOLEAN /\ o.lru = lru /\ o.bkt = bkt /\ o.disk = disk
    BY <1>1, <2>1, MpoolAssumption DEF TypeOK
  <2>3. QED
    BY <1>1, <2>2 DEF Outcome, Spared, TypeOK
<1>3. CASE ~(curcache < MaxCache \/ Unpinned = {})
  BY <1>1, <1>3, VictimUnpinned, FlushOutcome DEF Bkt
<1>4. QED
  BY <1>2, <1>3
-----------------------------------------------------------------------------
\* The part of the invariant that holds in either byte order.  The pages that are
\* in the file matter to the list: mpool_new gives a page the number npages, and
\* that page must not be cached already.
CacheInv == ListIsCache /\ HeldStayPinned /\ InFile

LEMMA InitCacheInv == Init => CacheInv
<1> SUFFICES ASSUME Init PROVE CacheInv
  OBVIOUS
<1>1. TypeOK
  <2>1. lru \in Seq(PageNo) /\ npages \in 0 .. MaxPages
    BY MpoolAssumption DEF Init
  <2>2. QED
    BY <2>1 DEF Init, TypeOK
<1>2. Threads(lru, bkt)
  BY <1>1 DEF Init, Threads, TypeOK
<1>3. QED
  BY <1>1, <1>2, ListThreads DEF Init, CacheInv, HeldStayPinned, InFile, TypeOK

LEMMA OutcomeInFile ==
  ASSUME TypeOK, InFile, NEW o, Outcome(o), NEW q \in PageNo
  PROVE  /\ q >= npages => o.bkt[q] = NoPage /\ o.disk[q] = NoPage
         /\ q < npages /\ o.bkt[q] = NoPage => o.disk[q] # NoPage
         /\ o.bkt[q] # NoPage /\ ~o.bkt[q].dirty /\ q \notin changed => o.disk[q] # NoPage
<1>1. CASE Spared(o, q)
  BY <1>1 DEF InFile, Spared
<1>2. CASE Evicted(o, q)
  <2>1. bkt[q] \in Bucket /\ bkt[q].page \in Content
    BY <1>2 DEF Evicted, TypeOK, Bucket
  <2>2. PgOut(bkt[q].page) # NoPage
    BY <2>1, ContentType, NoPageAssumption
  <2>3. q \notin changed
    BY <1>2 DEF Evicted, TypeOK
  <2>4. QED
    BY <1>2, <2>2, <2>3 DEF Evicted, InFile
<1>3. CASE Unwritten(o, q)
  <2>1. bkt[q] \in Bucket
    BY <1>3 DEF Unwritten, TypeOK
  <2>2. o.bkt[q].dirty /\ o.bkt[q] # NoPage
    BY <1>3, <2>1, ContentType, NoPageAssumption DEF Unwritten, Bucket
  <2>3. QED
    BY <1>3, <2>2 DEF Unwritten, InFile
<1>4. QED
  BY <1>1, <1>2, <1>3 DEF Outcome

\* A page that is pinned anew: what a call does to the other pages is the outcome.
LEMMA PinCacheInv ==
  ASSUME CacheInv, NEW o, Outcome(o), Took(o), NEW p \in PageNo, bkt[p] = NoPage,
         NEW c \in Content, Pin(o, p, c),
         \/ npages' = npages + 1 /\ npages = p /\ changed' = changed \cup {p}
         \/ UNCHANGED <<npages, changed>> /\ p < npages
  PROVE  CacheInv'
<1>1. TypeOK /\ Threads(lru, bkt)
  BY ListThreads DEF CacheInv
<1>2. [page |-> c, pinned |-> TRUE, dirty |-> FALSE] \in Bucket
  BY DEF Bucket
<1>3. o.bkt[p] = NoPage /\ o.disk[p] = disk[p]
  BY DEF Outcome, Spared, Evicted, Unwritten
<1>4. Threads(lru', bkt')
  BY <1>2, <1>3, AppendThreads DEF Pin, Outcome
<1>5. npages' \in 0 .. MaxPages
  BY <1>1, MpoolAssumption DEF TypeOK, PageNo
<1>6. TypeOK'
  BY <1>1, <1>4, <1>5, ZenonT(60) DEF TypeOK, Pin, Took, Outcome, Threads
<1>7. bkt'[p] = [page |-> c, pinned |-> TRUE, dirty |-> FALSE] /\ bkt'[p] # NoPage
  BY <1>2, NoPageAssumption, ZenonT(60) DEF Pin, Outcome, Threads
<1>8. \A q \in PageNo \ {p} : bkt'[q] = o.bkt[q]
  BY DEF Pin, Outcome, Threads
<1>9. HeldStayPinned'
  <2>1. \A q \in held : bkt'[q] = bkt[q] \/ q = p
    BY <1>1, <1>8 DEF Outcome, Spared, Evicted, Unwritten, TypeOK
  <2>2. QED
    BY <2>1, <1>7 DEF CacheInv, HeldStayPinned, Pin
<1>10. InFile'
  <2>1. ASSUME NEW q \in PageNo, q # p
        PROVE  /\ q >= npages' => bkt'[q] = NoPage /\ disk'[q] = NoPage
               /\ q < npages' /\ bkt'[q] = NoPage => disk'[q] # NoPage
               /\ bkt'[q] # NoPage /\ ~bkt'[q].dirty /\ q \notin changed' => disk'[q] # NoPage
    <3>1. /\ q >= npages => o.bkt[q] = NoPage /\ o.disk[q] = NoPage
          /\ q < npages /\ o.bkt[q] = NoPage => o.disk[q] # NoPage
          /\ o.bkt[q] # NoPage /\ ~o.bkt[q].dirty /\ q \notin changed => o.disk[q] # NoPage
      BY <1>1, OutcomeInFile DEF CacheInv
    <3>2. bkt'[q] = o.bkt[q] /\ disk'[q] = o.disk[q]
      BY <2>1, <1>8 DEF Took
    <3>3. /\ q >= npages' => q >= npages
          /\ q < npages' => q < npages
          /\ q \notin changed' => q \notin changed
      BY <2>1, <1>1 DEF TypeOK, PageNo
    <3>4. QED
      BY <3>1, <3>2, <3>3
  <2>2. QED
    BY <2>1, <1>1, <1>3, <1>7, MpoolAssumption DEF CacheInv, InFile, Took, TypeOK, PageNo
<1>11. QED
  BY <1>4, <1>6, <1>9, <1>10 DEF CacheInv, ListIsCache, Threads, Cached

LEMMA FailsCacheInv ==
  ASSUME CacheInv, NEW o, Outcome(o), Took(o), Fails(o)
  PROVE  CacheInv'
<1>1. TypeOK /\ Threads(lru', bkt')
  BY ListThreads DEF CacheInv, Outcome, Fails
<1>2. TypeOK'
  BY <1>1 DEF TypeOK, Took, Fails, Outcome, Threads
<1>3. HeldStayPinned'
  BY <1>1 DEF CacheInv, HeldStayPinned, Fails, Outcome, Spared, Evicted, Unwritten, TypeOK
<1>4. InFile'
  BY <1>1, OutcomeInFile DEF CacheInv, InFile, Fails, Took
<1>5. QED
  BY <1>1, <1>2, <1>3, <1>4 DEF CacheInv, ListIsCache, Threads, Cached

\* Buckets change, and the list does not.
LEMMA SameListCacheInv ==
  ASSUME CacheInv, UNCHANGED lru, TypeOK', HeldStayPinned', InFile',
         \A p \in PageNo : bkt[p] # NoPage <=> bkt'[p] # NoPage
  PROVE  CacheInv'
BY DEF CacheInv, ListIsCache, Cached

\* After a sync the file has the pages the pool counts, so the next mpool_open,
\* which counts the pages of the file, starts from the same number.
LEMMA WholeFile ==
  ASSUME TypeOK, InFile, synced
  PROVE  /\ FilePages = npages
         /\ \A p \in PageNo : disk[p] # NoPage <=> p < npages
<1>1. \A p \in PageNo : disk[p] # NoPage <=> p < npages
  BY DEF TypeOK, InFile, PageNo
<1>2. npages \in 0 .. MaxPages
  BY DEF TypeOK
<1>3. ASSUME NEW n \in 0 .. MaxPages, \A p \in PageNo : disk[p] # NoPage <=> p < n
      PROVE  n = npages
  <2>1. CASE n < npages
    <3>1. n \in PageNo
      BY <2>1, <1>2, MpoolAssumption DEF PageNo
    <3>2. QED
      BY <1>1, <1>3, <2>1, <3>1
  <2>2. CASE npages < n
    <3>1. npages \in PageNo
      BY <2>2, <1>2, MpoolAssumption DEF PageNo
    <3>2. QED
      BY <1>1, <1>3, <2>2, <3>1, <1>2
  <2>3. QED
    BY <2>1, <2>2, <1>2
<1>4. QED
  BY <1>1, <1>2, <1>3 DEF FilePages

\* What mpool_sync may do to a page: write it and mark it clean; fail to write it,
\* the filter run and the file perhaps spoilt; or nothing.
Syncs == SyncAll \/ \E k \in DOMAIN lru : SyncFails(k)

Written(p) == /\ p \in Dirty
              /\ disk'[p] = PgOut(bkt[p].page)
              /\ bkt'[p] = [bkt[p] EXCEPT !.page = PgOut(@), !.dirty = FALSE]
Spoiled(p) == /\ p \in Dirty
              /\ disk'[p] = disk[p] \/ disk'[p] \in Content
              /\ bkt'[p] = [bkt[p] EXCEPT !.page = PgOut(@)]
Left(p) == disk'[p] = disk[p] /\ bkt'[p] = bkt[p]

LEMMA SyncPage ==
  ASSUME TypeOK, Syncs
  PROVE  /\ \A p \in PageNo : Written(p) \/ Spoiled(p) \/ Left(p)
         /\ synced' => \A p \in PageNo : Written(p) \/ (Left(p) /\ p \notin Dirty)
         /\ bkt' \in [PageNo -> Bucket \cup {NoPage}]
         /\ disk' \in [PageNo -> Content \cup {NoPage}]
         /\ synced' \in BOOLEAN
         /\ held = {}
         /\ UNCHANGED <<lru, curcache, npages, held, changed>>
<1>1. \A p \in Dirty : PgOut(bkt[p].page) \in Content /\ bkt[p] \in Bucket /\ p \in PageNo
  BY ContentType DEF Dirty, Cached, Bucket, TypeOK
<1>2. CASE SyncAll
  <2>1. \A p \in PageNo : Written(p) \/ (Left(p) /\ p \notin Dirty)
    BY <1>2 DEF SyncAll, Written, Left
  <2>2. \A p \in PageNo : bkt'[p] \in Bucket \cup {NoPage} /\ disk'[p] \in Content \cup {NoPage}
    BY <1>1, <2>1, ZenonT(60) DEF Written, Left, TypeOK, Bucket
  <2>3. QED
    BY <1>2, <2>1, <2>2 DEF SyncAll
<1>3. ASSUME NEW k \in DOMAIN lru, SyncFails(k)
      PROVE  /\ \A p \in PageNo : Written(p) \/ Spoiled(p) \/ Left(p)
             /\ bkt' \in [PageNo -> Bucket \cup {NoPage}]
             /\ disk' \in [PageNo -> Content \cup {NoPage}]
  <2> DEFINE before == {lru[i] : i \in 1 .. k - 1} \cap Dirty
  <2>1. PICK w \in Write(lru[k]) :
          /\ disk' = [p \in PageNo |-> IF p \in before THEN PgOut(bkt[p].page) ELSE w.disk[p]]
          /\ bkt' = [p \in PageNo |->
                       IF p \in before THEN [bkt[p] EXCEPT !.page = PgOut(@), !.dirty = FALSE]
                       ELSE IF p = lru[k] THEN [bkt[p] EXCEPT !.page = w.page]
                       ELSE bkt[p]]
    BY <1>3 DEF SyncFails
  <2>2. before \subseteq Dirty
    OBVIOUS
  <2> HIDE DEF before
  <2>3. lru[k] \in Dirty /\ lru[k] \in PageNo /\ bkt[lru[k]] # NoPage
    BY <1>3 DEF SyncFails, Dirty, Cached
  <2>4. /\ w.page = PgOut(bkt[lru[k]].page)
        /\ w.disk \in [PageNo -> Content \cup {NoPage}]
        /\ \A q \in PageNo \ {lru[k]} : w.disk[q] = disk[q]
        /\ w.disk[lru[k]] = disk[lru[k]] \/ w.disk[lru[k]] # NoPage
    BY <2>3, WriteOutcome
  <2>5. ASSUME NEW p \in PageNo PROVE Written(p) \/ Spoiled(p) \/ Left(p)
    <3>1. CASE p \in before
      BY <3>1, <2>1, <2>2 DEF Written
    <3>2. CASE p \notin before /\ p = lru[k]
      <4>1. disk'[p] = w.disk[p] /\ bkt'[p] = [bkt[p] EXCEPT !.page = w.page]
        BY <3>2, <2>1
      <4>2. QED
        BY <3>2, <4>1, <2>3, <2>4 DEF Spoiled
    <3>3. CASE p \notin before /\ p # lru[k]
      BY <3>3, <2>1, <2>4 DEF Left
    <3>4. QED
      BY <3>1, <3>2, <3>3
  <2>6. \A p \in PageNo : bkt'[p] \in Bucket \cup {NoPage} /\ disk'[p] \in Content \cup {NoPage}
    BY <1>1, <2>5, ZenonT(60) DEF Written, Spoiled, Left, TypeOK, Bucket
  <2>7. QED
    BY <2>1, <2>5, <2>6
<1>4. ASSUME NEW k \in DOMAIN lru, SyncFails(k)
      PROVE  held = {} /\ synced' = FALSE /\ UNCHANGED <<lru, curcache, npages, held, changed>>
  BY <1>4 DEF SyncFails
<1>5. QED
  BY <1>2, <1>3, <1>4 DEF Syncs, SyncAll

LEMMA StepCacheInv == CacheInv /\ [Next]_vars => CacheInv'
<1> SUFFICES ASSUME CacheInv, [Next]_vars PROVE CacheInv'
  OBVIOUS
<1>a. ListIsCache /\ HeldStayPinned /\ InFile /\ TypeOK /\ Threads(lru, bkt)
  BY ListThreads DEF CacheInv
<1>b. \A p \in PageNo : bkt[p] # NoPage => bkt[p] \in Bucket
  BY <1>a DEF TypeOK
<1>1. ASSUME NEW v \in Val, New(v) PROVE CacheInv'
  <2>1. PICK o \in Bkt : /\ Took(o)
                         /\ \/ /\ Pin(o, npages, Host(v))
                               /\ npages' = npages + 1
                               /\ changed' = changed \cup {npages}
                            \/ Fails(o)
    BY <1>1 DEF New
  <2>2. Outcome(o)
    BY <1>a, BktOutcome
  <2>3. npages \in PageNo /\ npages + 1 \in 0 .. MaxPages
    BY <1>1, <1>a, MpoolAssumption DEF New, TypeOK, PageNo
  <2>4. Host(v) \in Content
    BY DEF Host, Content
  <2>5. bkt[npages] = NoPage
    BY <1>a, <2>3 DEF InFile, PageNo
  <2>6. QED
    BY <2>1, <2>2, <2>3, <2>4, <2>5, PinCacheInv, FailsCacheInv
<1>2. ASSUME NEW p \in PageNo, GetCached(p) PROVE CacheInv'
  <2>1. bkt[p] # NoPage /\ [bkt[p] EXCEPT !.pinned = TRUE] \in Bucket
    BY <1>2, <1>b DEF GetCached, Cached, Bucket
  <2>2. Threads(Without(p), [bkt EXCEPT ![p] = NoPage])
    BY <1>a, <2>1, WithoutThreads
  <2>3. [[bkt EXCEPT ![p] = NoPage] EXCEPT ![p] = [bkt[p] EXCEPT !.pinned = TRUE]] = bkt'
    BY <1>2, <1>a DEF GetCached, TypeOK
  <2>4. [bkt EXCEPT ![p] = NoPage][p] = NoPage
    BY <1>a DEF TypeOK
  <2>5. Threads(lru', bkt')
    <3> DEFINE l == Without(p)
               b == [bkt EXCEPT ![p] = NoPage]
               c == [bkt[p] EXCEPT !.pinned = TRUE]
    <3>1. Threads(l, b) /\ b[p] = NoPage /\ c \in Bucket /\ bkt' = [b EXCEPT ![p] = c]
      BY <2>1, <2>2, <2>3, <2>4
    <3>2. lru' = Append(l, p)
      BY <1>2 DEF GetCached
    <3> HIDE DEF l, b, c
    <3>3. QED
      BY <3>1, <3>2, AppendThreads
  <2>6. bkt'[p].pinned /\ bkt'[p] # NoPage /\ \A q \in PageNo \ {p} : bkt'[q] = bkt[q]
    BY <1>2, <1>a, <1>b, <2>1, NoPageAssumption DEF GetCached, TypeOK, Bucket
  <2>7. TypeOK'
    BY <1>2, <1>a, <2>5 DEF GetCached, TypeOK, Threads
  <2>8. HeldStayPinned'
    BY <1>2, <1>a, <2>6 DEF GetCached, TypeOK, HeldStayPinned
  <2>9. InFile'
    BY <1>2, <1>a, <1>b, <2>1, NoPageAssumption DEF GetCached, InFile, TypeOK, Bucket
  <2>10. QED
    BY <2>5, <2>7, <2>8, <2>9 DEF CacheInv, ListIsCache, Threads, Cached
<1>3. ASSUME NEW p \in PageNo, GetRead(p) PROVE CacheInv'
  <2>1. PICK o \in Bkt : /\ Took(o)
                         /\ \/ /\ disk[p] # NoPage
                               /\ Pin(o, p, PgIn(disk[p]))
                               /\ UNCHANGED <<npages, changed>>
                            \/ Fails(o)
    BY <1>3 DEF GetRead
  <2>2. Outcome(o)
    BY <1>a, BktOutcome
  <2>3. bkt[p] = NoPage
    BY <1>3 DEF GetRead, Cached
  <2>4. disk[p] # NoPage => PgIn(disk[p]) \in Content
    BY <1>a, ContentType DEF TypeOK
  <2>5. p < npages
    BY <1>3 DEF GetRead
  <2>6. QED
    BY <2>1, <2>2, <2>3, <2>4, <2>5, PinCacheInv, FailsCacheInv
<1>4. ASSUME NEW p \in PageNo, Put(p) PROVE CacheInv'
  <2>1. bkt[p] # NoPage /\ bkt'[p] \in Bucket /\ bkt' = [bkt EXCEPT ![p] = bkt'[p]]
    BY <1>4, <1>a, <1>b DEF Put, HeldStayPinned, Bucket, TypeOK
  <2>2. InFile'
    BY <1>4, <1>a, <1>b, <2>1, NoPageAssumption DEF Put, InFile, TypeOK, Bucket
  <2>3. QED
    BY <1>4, <1>a, <2>1, <2>2, SameListCacheInv, NoPageAssumption
       DEF Put, TypeOK, HeldStayPinned
<1>5. ASSUME NEW p \in PageNo, NEW v \in Val, Change(p, v) PROVE CacheInv'
  <2>1. bkt[p] # NoPage /\ bkt[p].pinned
    BY <1>5, <1>a DEF Change, HeldStayPinned
  <2>2. Host(v) \in Content
    BY DEF Host, Content
  <2>3. /\ bkt'[p] \in Bucket /\ bkt'[p].pinned
        /\ bkt' = [bkt EXCEPT ![p] = bkt'[p]]
    BY <1>5, <1>a, <1>b, <2>1, <2>2 DEF Change, Bucket, TypeOK
  <2>4. InFile'
    BY <1>5, <1>a, <1>b, <2>1, <2>3, NoPageAssumption DEF Change, InFile, TypeOK, Bucket
  <2>5. QED
    BY <1>5, <1>a, <2>1, <2>3, <2>4, SameListCacheInv, NoPageAssumption
       DEF Change, TypeOK, HeldStayPinned
<1>6. CASE Syncs
  <2>1. ASSUME NEW p \in PageNo
        PROVE  /\ bkt[p] # NoPage <=> bkt'[p] # NoPage
               /\ disk'[p] = NoPage => disk[p] = NoPage
               /\ p \notin Dirty => disk'[p] = disk[p] /\ bkt'[p] = bkt[p]
               /\ p \in Dirty => disk'[p] # NoPage \/ bkt'[p].dirty
    <3>1. p \in Dirty => bkt[p] \in Bucket /\ bkt[p].dirty /\ PgOut(bkt[p].page) \in Content
      BY <1>b, ContentType DEF Dirty, Cached, Bucket
    <3>2. CASE Written(p)
      BY <3>1, <3>2, NoPageAssumption DEF Written, Bucket
    <3>3. CASE Spoiled(p)
      BY <3>1, <3>3, NoPageAssumption DEF Spoiled, Bucket
    <3>4. CASE Left(p)
      BY <3>1, <3>4 DEF Left
    <3>5. QED
      BY <1>6, <1>a, <3>2, <3>3, <3>4, SyncPage
  <2>2. TypeOK'
    BY <1>6, <1>a, SyncPage DEF TypeOK
  <2>3. synced' => \A p \in PageNo : bkt'[p] # NoPage => ~bkt'[p].dirty
    BY <1>6, <1>a, <1>b, SyncPage DEF Written, Left, Dirty, Cached, Bucket
  <2>4. InFile'
    BY <1>6, <1>a, <2>1, <2>3, SyncPage DEF InFile, Dirty, Cached, TypeOK
  <2>5. QED
    BY <1>6, <1>a, <2>1, <2>2, <2>4, SyncPage, SameListCacheInv DEF HeldStayPinned
<1>7. CASE Reopen
  <2>1. FilePages = npages
    BY <1>7, <1>a, WholeFile DEF Reopen
  <2>2. held = {}
    BY <1>7, <1>a DEF Reopen, InFile
  <2>3. lru' \in Seq(PageNo) /\ DOMAIN lru' = {}
    BY <1>7 DEF Reopen
  <2>4. TypeOK' /\ Threads(lru', bkt')
    BY <1>7, <1>a, <2>1, <2>3 DEF Reopen, TypeOK, Threads
  <2>5. \A p \in PageNo : p < npages => disk[p] # NoPage
    BY <1>7, <1>a, <2>1, WholeFile DEF Reopen
  <2>6. InFile' /\ HeldStayPinned'
    BY <1>7, <1>a, <2>1, <2>2, <2>5 DEF Reopen, InFile, HeldStayPinned
  <2>7. QED
    BY <2>4, <2>6 DEF CacheInv, ListIsCache, Threads, Cached
<1>8. CASE UNCHANGED vars
  BY <1>8 DEF vars, CacheInv, ListIsCache, TypeOK, Cached, HeldStayPinned, InFile
<1>9. QED
  BY <1>1, <1>2, <1>3, <1>4, <1>5, <1>6, <1>7, <1>8 DEF Next, Syncs

\* The inductive invariant in either byte order: the list and the pins, and which
\* pages the file must have.
THEOREM CacheInvariance == Spec => []CacheInv
BY InitCacheInv, StepCacheInv, PTL DEF Spec

\* Whatever is pinned, put, evicted, written or fails to be, the LRU list names
\* every cached page once.
THEOREM ListStaysCache == Spec => []ListIsCache
<1>1. CacheInv => ListIsCache
  BY DEF CacheInv
<1>2. QED
  BY <1>1, CacheInvariance, PTL

\* mpool_bkt never takes the bucket of a page in use, whatever the size of the
\* cache and however often memory, reads and writes fail.
THEOREM PinsAreKept == Spec => []HeldStayPinned
<1>1. CacheInv => HeldStayPinned
  BY DEF CacheInv
<1>2. QED
  BY <1>1, CacheInvariance, PTL
-----------------------------------------------------------------------------
(* The contents, when the filters leave pages alone.                        *)

LEMMA NoFilter ==
  ASSUME NeedSwap = FALSE, NEW c
  PROVE  PgIn(c) = c /\ PgOut(c) = c
BY DEF PgIn, PgOut

\* A bucket that is not dirty, of a page nobody has changed, has what the file has.
Same(p) == bkt[p] # NoPage /\ ~bkt[p].dirty /\ p \notin changed => disk[p] = bkt[p].page

LEMMA CleanSame ==
  ASSUME NeedSwap = FALSE, InFile
  PROVE  CleanOnDisk <=> \A p \in PageNo : Same(p)
BY NoFilter DEF InFile, CleanOnDisk, Same, Cached

LEMMA OutcomeSame ==
  ASSUME TypeOK, NEW o, Outcome(o), NEW q \in PageNo, Same(q),
         o.bkt[q] # NoPage, ~o.bkt[q].dirty, q \notin changed
  PROVE  o.disk[q] = o.bkt[q].page
<1>1. ~Evicted(o, q)
  BY DEF Evicted
<1>2. ~Unwritten(o, q)
  BY DEF Unwritten, TypeOK, Bucket
<1>3. Spared(o, q)
  BY <1>1, <1>2 DEF Outcome
<1>4. QED
  BY <1>3 DEF Spared, Same

LEMMA StepSame ==
  ASSUME NeedSwap = FALSE, CacheInv, \A p \in PageNo : Same(p), [Next]_vars, NEW q \in PageNo
  PROVE  Same(q)'
<1>a. ListIsCache /\ HeldStayPinned /\ InFile /\ TypeOK /\ Threads(lru, bkt) /\ Same(q)
  BY ListThreads DEF CacheInv
<1>b. \A p \in PageNo : bkt[p] # NoPage => bkt[p] \in Bucket
  BY <1>a DEF TypeOK
<1>c. ASSUME NEW o \in Bkt, Took(o), Fails(o) PROVE Same(q)'
  BY <1>a, <1>c, BktOutcome, OutcomeSame DEF Took, Fails, Same
<1>d. ASSUME NEW o \in Bkt, Took(o), NEW p \in PageNo, NEW c, Pin(o, p, c), bkt[p] = NoPage,
             changed \subseteq changed', p \in changed' \/ disk[p] = c
      PROVE  Same(q)'
  <2>1. Outcome(o)
    BY <1>a, BktOutcome
  <2>2. CASE q = p
    <3>1. o.disk[p] = disk[p]
      BY <1>d, <2>1 DEF Outcome, Spared, Evicted, Unwritten
    <3>2. bkt'[p].page = c
      BY <1>d, <2>1 DEF Pin, Outcome, Threads
    <3>3. QED
      BY <1>d, <2>2, <3>1, <3>2 DEF Took, Same
  <2>3. CASE q # p
    <3>1. bkt'[q] = o.bkt[q] /\ disk'[q] = o.disk[q]
      BY <1>d, <2>1, <2>3 DEF Pin, Took, Outcome, Threads
    <3>2. QED
      BY <1>a, <1>d, <2>1, <3>1, OutcomeSame DEF Same
  <2>4. QED
    BY <2>2, <2>3
<1>1. ASSUME NEW v \in Val, New(v) PROVE Same(q)'
  <2>1. npages \in PageNo /\ bkt[npages] = NoPage
    BY <1>1, <1>a, MpoolAssumption DEF New, TypeOK, PageNo, InFile
  <2>2. QED
    BY <1>1, <1>c, <1>d, <2>1 DEF New
<1>2. ASSUME NEW p \in PageNo, GetCached(p) PROVE Same(q)'
  BY <1>2, <1>a, <1>b DEF GetCached, Same, Cached, Bucket, TypeOK
<1>3. ASSUME NEW p \in PageNo, GetRead(p) PROVE Same(q)'
  <2>1. bkt[p] = NoPage /\ PgIn(disk[p]) = disk[p]
    BY <1>3, NoFilter DEF GetRead, Cached
  <2>2. QED
    BY <1>3, <1>c, <1>d, <2>1 DEF GetRead
<1>4. ASSUME NEW p \in PageNo, Put(p) PROVE Same(q)'
  BY <1>4, <1>a, <1>b DEF Put, Same, HeldStayPinned, Bucket, TypeOK
<1>5. ASSUME NEW p \in PageNo, NEW v \in Val, Change(p, v) PROVE Same(q)'
  BY <1>5, <1>a, <1>b DEF Change, Same, HeldStayPinned, Bucket, TypeOK
<1>6. CASE Syncs
  <2>1. changed' = changed
    BY <1>6, <1>a, SyncPage
  <2>2. CASE Written(q)
    BY <1>b, <2>2, NoFilter DEF Written, Same, Dirty, Cached, Bucket
  <2>3. CASE Spoiled(q)
    BY <1>b, <2>3 DEF Spoiled, Same, Dirty, Cached, Bucket
  <2>4. CASE Left(q)
    BY <1>a, <2>1, <2>4 DEF Left, Same
  <2>5. QED
    BY <1>6, <1>a, <2>2, <2>3, <2>4, SyncPage
<1>7. CASE Reopen
  BY <1>7 DEF Reopen, Same
<1>8. CASE UNCHANGED vars
  BY <1>8, <1>a DEF vars, Same
<1>9. QED
  BY <1>1, <1>2, <1>3, <1>4, <1>5, <1>6, <1>7, <1>8 DEF Next, Syncs

HostInv == CacheInv /\ CleanOnDisk

\* The inductive invariant when the database has the byte order of the host.
THEOREM HostInvariance == ASSUME NeedSwap = FALSE PROVE Spec => []HostInv
<1>1. Init => HostInv
  <2>1. Init => \A p \in PageNo : Same(p)
    BY DEF Init, Same
  <2>2. QED
    BY <2>1, InitCacheInv, CleanSame DEF CacheInv, HostInv
<1>2. HostInv /\ [Next]_vars => HostInv'
  <2> SUFFICES ASSUME HostInv, [Next]_vars PROVE HostInv'
    OBVIOUS
  <2>1. CacheInv' /\ InFile'
    BY StepCacheInv DEF HostInv, CacheInv
  <2>2. \A p \in PageNo : Same(p)
    BY CleanSame DEF HostInv, CacheInv
  <2>3. \A p \in PageNo : Same(p)'
    BY <2>2, StepSame DEF HostInv
  <2>4. CleanOnDisk'
    BY <2>1, <2>3, NoFilter DEF InFile, CleanOnDisk, Same, Cached
  <2>5. QED
    BY <2>1, <2>4 DEF HostInv
<1>3. QED
  BY <1>1, <1>2, PTL DEF Spec

\* A page that mpool_bkt may evict without a write is in the file as its last user
\* left it, after any sequence of failed writes.
THEOREM EvictionLosesNothing == ASSUME NeedSwap = FALSE PROVE Spec => []CleanOnDisk
<1>1. HostInv => CleanOnDisk
  BY DEF HostInv
<1>2. QED
  BY <1>1, HostInvariance, PTL

\* After an mpool_sync that returned success the file holds every page of the
\* database with its latest contents.
THEOREM SyncWritesAll == ASSUME NeedSwap = FALSE PROVE Spec => []SyncIsComplete
<1>1. HostInv => SyncIsComplete
  <2> SUFFICES ASSUME HostInv, synced, NEW p \in PageNo, p < npages
               PROVE  disk[p] # NoPage /\ PgIn(disk[p]) = Logical(p)
    BY DEF SyncIsComplete
  <2>1. TypeOK /\ InFile /\ CleanOnDisk
    BY DEF HostInv, CacheInv, ListIsCache
  <2>2. p \notin changed
    BY <2>1 DEF InFile, TypeOK
  <2>3. QED
    BY <2>1, <2>2 DEF InFile, CleanOnDisk, Logical, Cached
<1>2. QED
  BY <1>1, HostInvariance, PTL
-----------------------------------------------------------------------------
(* The refinement: the pool is the array of pages it caches.                *)

\* The contents of a page, in given buckets and a given file.
View(b, d, p) == IF b[p] # NoPage THEN b[p].page ELSE d[p]

LEMMA LogicalView ==
  ASSUME NeedSwap = FALSE
  PROVE  /\ \A p \in PageNo : Logical(p) = View(bkt, disk, p)
         /\ \A p \in PageNo : Logical(p)' = View(bkt', disk', p)
BY NoFilter DEF Logical, View

\* No outcome of mpool_bkt changes what the pool would return.
LEMMA OutcomeView ==
  ASSUME NeedSwap = FALSE, TypeOK, NEW o, Outcome(o), NEW p \in PageNo, Same(p)
  PROVE  View(o.bkt, o.disk, p) = View(bkt, disk, p)
<1>1. CASE Spared(o, p)
  BY <1>1 DEF Spared, View
<1>2. CASE Evicted(o, p)
  BY <1>2, NoFilter DEF Evicted, View, Same, TypeOK
<1>3. CASE Unwritten(o, p)
  <2>1. bkt[p] \in Bucket
    BY <1>3 DEF Unwritten, TypeOK
  <2>2. o.bkt[p] # NoPage /\ o.bkt[p].page = bkt[p].page
    BY <1>3, <2>1, NoFilter, NoPageAssumption DEF Unwritten, Bucket
  <2>3. QED
    BY <1>3, <2>2 DEF Unwritten, View
<1>4. QED
  BY <1>1, <1>2, <1>3 DEF Outcome

\* The abstract pages are those below npages.
Pages == [p \in 0 .. npages - 1 |-> Logical(p)]

LEMMA PagesSame ==
  ASSUME NeedSwap = FALSE, TypeOK, UNCHANGED npages,
         \A p \in PageNo : p < npages => View(bkt', disk', p) = View(bkt, disk, p)
  PROVE  Pages' = Pages
<1>1. 0 .. npages - 1 \subseteq PageNo /\ \A p \in 0 .. npages - 1 : p < npages
  BY MpoolAssumption DEF TypeOK, PageNo
<1>2. \A p \in 0 .. npages - 1 : Logical(p)' = Logical(p)
  BY <1>1, LogicalView
<1>3. QED
  BY <1>2 DEF Pages

\* For the access method the pool is an array of pages: caching, evicting, writing
\* back, failing and reopening change no page, and only the operations that should
\* add a page or change one do.
THEOREM PoolIsTransparent == ASSUME NeedSwap = FALSE PROVE Spec => ImplementsPageStore
<1>1. Init => Store!Init
  <2> SUFFICES ASSUME Init PROVE Store!Init
    OBVIOUS
  <2>1. 0 .. npages - 1 = {}
    BY DEF Init
  <2>2. QED
    BY <2>1 DEF Init, Store!Init
<1>2. HostInv /\ HostInv' /\ [Next]_vars => [Store!Next]_<<Pages, npages, held>>
  <2> SUFFICES ASSUME HostInv, HostInv', [Next]_vars
               PROVE  [Store!Next]_<<Pages, npages, held>>
    OBVIOUS
  <2>a. /\ ListIsCache /\ HeldStayPinned /\ InFile /\ TypeOK /\ TypeOK'
        /\ \A p \in PageNo : Same(p)
    BY CleanSame DEF HostInv, CacheInv, ListIsCache
  <2>b. /\ DOMAIN Pages = 0 .. npages - 1
        /\ \A p \in PageNo : p \in 0 .. npages - 1 <=> p < npages
        /\ 0 .. npages - 1 \subseteq PageNo
    BY <2>a, MpoolAssumption DEF Pages, TypeOK, PageNo
  <2>c. held \subseteq DOMAIN Pages
    BY <2>a, <2>b DEF HeldStayPinned, InFile, TypeOK, PageNo
  <2>d. \A v \in Val : Host(v) \in Content
    BY DEF Host, Content
  <2>e. ASSUME NEW o \in Bkt, NEW p \in PageNo PROVE View(o.bkt, o.disk, p) = View(bkt, disk, p)
    BY <2>a, BktOutcome, OutcomeView
  <2>f. ASSUME NEW o \in Bkt, Took(o), Fails(o) PROVE UNCHANGED <<Pages, npages, held>>
    <3>1. \A p \in PageNo : View(bkt', disk', p) = View(bkt, disk, p)
      BY <2>e, <2>f DEF Took, Fails
    <3>2. QED
      BY <2>a, <2>f, <3>1, PagesSame DEF Fails
  <2>g. ASSUME NEW o \in Bkt, Took(o), NEW p \in PageNo, NEW c \in Content, Pin(o, p, c)
        PROVE  /\ View(bkt', disk', p) = c
               /\ \A q \in PageNo \ {p} : View(bkt', disk', q) = View(bkt, disk, q)
    <3>1. Outcome(o)
      BY <2>a, BktOutcome
    <3>2. bkt'[p] = [page |-> c, pinned |-> TRUE, dirty |-> FALSE]
      BY <2>g, <3>1 DEF Pin, Outcome, Threads
    <3>3. bkt'[p] # NoPage
      <4>1. [page |-> c, pinned |-> TRUE, dirty |-> FALSE] \in Bucket
        BY DEF Bucket
      <4>2. QED
        BY <3>2, <4>1, NoPageAssumption
    <3>4. \A q \in PageNo \ {p} : bkt'[q] = o.bkt[q] /\ disk'[q] = o.disk[q]
      BY <2>g, <3>1 DEF Pin, Took, Outcome, Threads
    <3>5. QED
      BY <2>e, <3>2, <3>3, <3>4 DEF View
  <2>1. ASSUME NEW v \in Val, New(v)
        PROVE  Store!New(Host(v)) \/ UNCHANGED <<Pages, npages, held>>
    <3>1. PICK o \in Bkt : /\ Took(o)
                           /\ \/ Pin(o, npages, Host(v)) /\ npages' = npages + 1
                              \/ Fails(o)
      BY <2>1 DEF New
    <3>2. CASE Pin(o, npages, Host(v)) /\ npages' = npages + 1
      <4>1. PICK n \in PageNo : n = npages
        BY <2>1, <2>a, MpoolAssumption DEF New, TypeOK, PageNo
      <4>2. Logical(n)' = Host(v) /\ \A q \in PageNo \ {n} : Logical(q)' = Logical(q)
        BY <3>1, <3>2, <4>1, <2>d, <2>g, LogicalView, ZenonT(60)
      <4>3. 0 .. npages' - 1 = (0 .. npages - 1) \cup {n} /\ n \notin 0 .. npages - 1
        BY <2>a, <3>2, <4>1 DEF TypeOK
      <4>4. Pages' = [p \in (DOMAIN Pages) \cup {n} |-> IF p = n THEN Host(v) ELSE Pages[p]]
        <5>1. Pages' = [p \in (0 .. npages - 1) \cup {n} |-> Logical(p)']
          BY <4>3 DEF Pages
        <5>2. \A p \in 0 .. npages - 1 : Logical(p)' = Pages[p] /\ p # n
          BY <2>b, <4>2, <4>3 DEF Pages
        <5>3. QED
          BY <2>b, <4>2, <5>1, <5>2
      <4>5. held' = held \cup {n}
        BY <3>2, <4>1 DEF Pin
      <4>6. QED
        BY <3>2, <4>1, <4>4, <4>5 DEF Store!New, Pages
    <3>3. QED
      BY <3>1, <3>2, <2>f
  <2>2. ASSUME NEW p \in PageNo, GetCached(p) PROVE p \in DOMAIN Pages /\ Store!Get(p)
    <3>1. p < npages /\ bkt[p] \in Bucket
      BY <2>2, <2>a DEF GetCached, Cached, InFile, TypeOK, PageNo
    <3>2. bkt'[p] # NoPage /\ bkt'[p].page = bkt[p].page
      BY <2>2, <2>a, <3>1, NoPageAssumption DEF GetCached, TypeOK, Bucket
    <3>3. \A q \in PageNo : View(bkt', disk', q) = View(bkt, disk, q)
      BY <2>2, <2>a, <3>2 DEF GetCached, Cached, View, TypeOK
    <3>4. Pages' = Pages
      BY <2>2, <2>a, <3>3, PagesSame DEF GetCached
    <3>5. QED
      BY <2>2, <2>b, <3>1, <3>4 DEF GetCached, Store!Get, Pages
  <2>3. ASSUME NEW p \in PageNo, GetRead(p)
        PROVE  (p \in DOMAIN Pages /\ Store!Get(p)) \/ UNCHANGED <<Pages, npages, held>>
    <3>1. PICK o \in Bkt : /\ Took(o)
                           /\ \/ /\ disk[p] # NoPage
                                 /\ Pin(o, p, disk[p]) /\ UNCHANGED npages
                              \/ Fails(o)
      BY <2>3, NoFilter DEF GetRead
    <3>2. CASE disk[p] # NoPage /\ Pin(o, p, disk[p]) /\ UNCHANGED npages
      <4>1. disk[p] \in Content /\ View(bkt, disk, p) = disk[p]
        BY <2>3, <2>a, <3>2 DEF GetRead, Cached, View, TypeOK
      <4>2. \A q \in PageNo : View(bkt', disk', q) = View(bkt, disk, q)
        BY <3>1, <3>2, <4>1, <2>g
      <4>3. Pages' = Pages
        BY <2>a, <3>2, <4>2, PagesSame
      <4>4. p \in DOMAIN Pages \ held
        BY <2>3, <2>a, <2>b DEF GetRead, Cached, HeldStayPinned
      <4>5. held' = held \cup {p}
        BY <3>2 DEF Pin
      <4>6. QED
        BY <3>2, <4>3, <4>4, <4>5 DEF Store!Get, Pages
    <3>3. QED
      BY <3>1, <3>2, <2>f
  <2>4. ASSUME NEW p \in PageNo, Put(p) PROVE p \in DOMAIN Pages /\ Store!Put(p)
    <3>1. bkt[p] \in Bucket
      BY <2>4, <2>a DEF Put, HeldStayPinned, TypeOK
    <3>2. bkt'[p] # NoPage /\ bkt'[p].page = bkt[p].page
      <4>1. bkt'[p] \in Bucket /\ bkt'[p].page = bkt[p].page
        BY <2>4, <2>a, <3>1 DEF Put, TypeOK, Bucket
      <4>2. QED
        BY <4>1, NoPageAssumption
    <3>3. \A q \in PageNo : View(bkt', disk', q) = View(bkt, disk, q)
      BY <2>4, <2>a, <3>1, <3>2, NoPageAssumption DEF Put, View, TypeOK
    <3>4. Pages' = Pages
      BY <2>4, <2>a, <3>3, PagesSame DEF Put
    <3>5. QED
      BY <2>4, <2>c, <3>4 DEF Put, Store!Put, Pages
  <2>5. ASSUME NEW p \in PageNo, NEW v \in Val, Change(p, v)
        PROVE  p \in DOMAIN Pages /\ Store!Change(p, Host(v))
    <3>1. p \in held /\ bkt[p] \in Bucket
      BY <2>5, <2>a DEF Change, HeldStayPinned, TypeOK
    <3>2. bkt'[p] # NoPage /\ bkt'[p].page = Host(v)
      BY <2>5, <2>a, <2>d, <3>1, NoPageAssumption DEF Change, TypeOK, Bucket
    <3>3. Logical(p)' = Host(v) /\ \A q \in PageNo \ {p} : Logical(q)' = Logical(q)
      BY <2>5, <2>a, <3>2, LogicalView DEF Change, View, TypeOK
    <3>4. Pages' = [Pages EXCEPT ![p] = Host(v)]
      BY <2>5, <2>b, <3>3 DEF Change, Pages
    <3>5. QED
      BY <2>5, <2>c, <3>4 DEF Change, Store!Change, Pages
  <2>6. CASE Syncs
    <3>1. ASSUME NEW p \in PageNo PROVE View(bkt', disk', p) = View(bkt, disk, p)
      <4>1. p \in Dirty => bkt[p] \in Bucket
        BY <2>a DEF Dirty, Cached, TypeOK
      <4>2. CASE Written(p)
        BY <4>1, <4>2, NoFilter, NoPageAssumption DEF Written, View, Bucket
      <4>3. CASE Spoiled(p)
        BY <4>1, <4>3, NoFilter, NoPageAssumption DEF Spoiled, View, Bucket
      <4>4. CASE Left(p)
        BY <4>4 DEF Left, View
      <4>5. QED
        BY <2>6, <2>a, <4>2, <4>3, <4>4, SyncPage
    <3>2. QED
      BY <2>6, <2>a, <3>1, SyncPage, PagesSame
  <2>7. CASE Reopen
    <3>1. FilePages = npages
      BY <2>7, <2>a, WholeFile DEF Reopen
    <3>2. held = {} /\ changed = {}
      BY <2>7, <2>a DEF Reopen, InFile, TypeOK
    <3>3. \A p \in PageNo : View(bkt', disk', p) = View(bkt, disk, p)
      BY <2>7, <2>a, <3>2 DEF Reopen, View, InFile, Same
    <3>4. QED
      BY <2>7, <2>a, <3>1, <3>3, PagesSame DEF Reopen
  <2>8. CASE UNCHANGED vars
    BY <2>8 DEF vars, Pages, Logical
  <2>9. QED
    BY <2>1, <2>2, <2>3, <2>4, <2>5, <2>6, <2>7, <2>8, <2>d DEF Next, Syncs, Store!Next, Pages
<1>3. QED
  BY <1>1, <1>2, HostInvariance, PTL DEF Spec, ImplementsPageStore, Store!Spec, Pages
=============================================================================
