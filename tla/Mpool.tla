------------------------------- MODULE Mpool --------------------------------
(***************************************************************************)
(* The buffer pool under the B-tree (db.1.85/mpool.c).  A bucket holds one *)
(* page; the buckets are threaded on hash chains, by page number, and on   *)
(* one LRU list, so the cached pages are the pages of the list and looking *)
(* a page up is asking whether it is cached.  When the cache is full the   *)
(* first unpinned bucket of the LRU list is written, if dirty, and reused; *)
(* when all are pinned the cache grows.                                    *)
(*                                                                         *)
(* Reads and writes of the file and allocations may fail.  A page has its  *)
(* bytes in host or in file order; the filters convert between the two     *)
(* when the database has the other byte order (NeedSwap), in place.        *)
(*                                                                         *)
(* The users of the pool (the B-tree) pin a page once at a time, as the    *)
(* DEBUG code of mpool_get and mpool_put demands, put a page back dirty    *)
(* when they have changed it, sync with no page pinned and close only      *)
(* after a sync that succeeded (__bt_sync, __bt_close).                    *)
(***************************************************************************)
EXTENDS Naturals, Sequences

CONSTANTS Val,       \* what a page may hold
          MaxPages,  \* MAX_PAGE_NUMBER
          MaxCache,  \* maxcache of mpool_open
          Memory,    \* the number of buckets calloc has memory for
          NeedSwap,  \* the filters swap bytes (B_NEEDSWAP)
          NoPage     \* no bucket, or no such page in the file

ASSUME MpoolAssumption == /\ MaxPages \in Nat
                          /\ MaxCache \in Nat \ {0}
                          /\ Memory \in Nat
                          /\ NeedSwap \in BOOLEAN

PageNo == 0 .. MaxPages - 1

\* The bytes of a page: what they say and in which order.  Converting a page
\* that has the wrong order already, or writing half of it, gives junk.
Content == [val : Val, order : {"host", "file", "junk"}]

Host(v) == [val |-> v, order |-> "host"]
InOrder(c, o) == [c EXCEPT !.order = o]

\* __bt_pgin and __bt_pgout
PgIn(c)  == IF ~NeedSwap THEN c
            ELSE InOrder(c, IF c.order = "file" THEN "host" ELSE "junk")
PgOut(c) == IF ~NeedSwap THEN c
            ELSE InOrder(c, IF c.order = "host" THEN "file" ELSE "junk")

Bucket == [page : Content, pinned : BOOLEAN, dirty : BOOLEAN]

ASSUME NoPageAssumption == NoPage \notin Content \cup Bucket

VARIABLES lru,       \* the LRU list, as page numbers, first to last
          bkt,       \* bkt[p]: the bucket of page p, or NoPage
          curcache,  \* buckets allocated
          npages,    \* pages of the file, as the pool counts them
          disk,      \* disk[p]: page p of the file, or NoPage past the end
          held,      \* the pages the user works on
          changed,   \* those of them that differ from when they were pinned
          synced     \* the last operation was a successful mpool_sync

vars == <<lru, bkt, curcache, npages, disk, held, changed, synced>>

Cached == {p \in PageNo : bkt[p] # NoPage}

TypeOK == /\ lru \in Seq(PageNo)
          /\ bkt \in [PageNo -> Bucket \cup {NoPage}]
          /\ curcache \in Nat
          /\ npages \in 0 .. MaxPages
          /\ disk \in [PageNo -> Content \cup {NoPage}]
          /\ held \subseteq PageNo
          /\ changed \subseteq held
          /\ synced \in BOOLEAN

\* mpool_open of an empty file.
Init == /\ lru = <<>>
        /\ bkt = [p \in PageNo |-> NoPage]
        /\ curcache = 0
        /\ npages = 0
        /\ disk = [p \in PageNo |-> NoPage]
        /\ held = {}
        /\ changed = {}
        /\ synced = FALSE
-----------------------------------------------------------------------------
(* The LRU list *)

IndexOf(p) == CHOOSE i \in DOMAIN lru : lru[i] = p

\* CIRCLEQ_REMOVE of p
Without(p) == LET k == IndexOf(p) IN
              [i \in 1 .. Len(lru) - 1 |-> IF i < k THEN lru[i] ELSE lru[i + 1]]

\* The first bucket of the list that is not pinned.
Unpinned == {i \in DOMAIN lru : ~bkt[lru[i]].pinned}
Victim == lru[CHOOSE i \in Unpinned : \A j \in Unpinned : i <= j]
-----------------------------------------------------------------------------
(* mpool_write and mpool_bkt.  Their outcomes are sets of records: what the *)
(* list, the buckets, the file and the number of buckets become, and        *)
(* whether the call succeeded.                                              *)

\* mpool_write: the filter runs in place, before the write that may fail and
\* may then have changed part of the page in the file.
Write(p) ==
  LET out == PgOut(bkt[p].page) IN
  {[ok |-> TRUE, page |-> out, disk |-> [disk EXCEPT ![p] = out]]} \cup
  {[ok |-> FALSE, page |-> out, disk |-> d] :
     d \in {disk, [disk EXCEPT ![p] = InOrder(out, "junk")]}}

\* A new bucket from calloc, which fails when memory runs out.
Grow == LET more == curcache < Memory IN
        {[ok |-> more, lru |-> lru, bkt |-> bkt, disk |-> disk,
          cur |-> IF more THEN curcache + 1 ELSE curcache]}

\* The bucket of page v is taken off its lists.
Evict(v, d) == [ok |-> TRUE, lru |-> Without(v), bkt |-> [bkt EXCEPT ![v] = NoPage],
                disk |-> d, cur |-> curcache]

\* Mutant: a dirty page is evicted like a clean one.
FlushForgotten(v) == {Evict(v, disk)}

\* Flush if dirty; a failed write leaves the bucket where it is.
Flush(v) ==
  IF ~bkt[v].dirty THEN {Evict(v, disk)}
  ELSE {IF w.ok THEN Evict(v, w.disk)
        ELSE [ok |-> FALSE, lru |-> lru, bkt |-> [bkt EXCEPT ![v].page = w.page],
              disk |-> w.disk, cur |-> curcache] : w \in Write(v)}

\* Mutant: the first bucket is taken even when it is pinned.
BktPinned == IF curcache < MaxCache \/ lru = <<>> THEN Grow ELSE Flush(Head(lru))

Bkt == IF curcache < MaxCache \/ Unpinned = {} THEN Grow ELSE Flush(Victim)
-----------------------------------------------------------------------------
(* The operations *)

\* Pin page p, in a bucket with contents c, at the tail of the list.
Pin(o, p, c) == /\ lru' = Append(o.lru, p)
                /\ bkt' = [o.bkt EXCEPT ![p] = [page |-> c, pinned |-> TRUE, dirty |-> FALSE]]
                /\ held' = held \cup {p}

\* The call fails: what mpool_bkt has done stays done, and a bucket it has
\* returned is on no list any more.
Fails(o) == /\ lru' = o.lru
            /\ bkt' = o.bkt
            /\ UNCHANGED <<held, changed, npages>>

Took(o) == /\ curcache' = o.cur
           /\ disk' = o.disk
           /\ synced' = FALSE

\* mpool_new; the caller fills the page in.
New(v) == /\ npages # MaxPages
          /\ \E o \in Bkt :
               /\ Took(o)
               /\ \/ /\ o.ok
                     /\ Pin(o, npages, Host(v))
                     /\ npages' = npages + 1
                     /\ changed' = changed \cup {npages}
                  \/ ~o.ok /\ Fails(o)

\* Mutant: the bucket is inserted at the tail without being taken off first.
GetCachedTwice(p) == /\ p \in Cached \ held
                     /\ lru' = Append(lru, p)
                     /\ bkt' = [bkt EXCEPT ![p].pinned = TRUE]
                     /\ held' = held \cup {p}
                     /\ synced' = FALSE
                     /\ UNCHANGED <<curcache, npages, disk, changed>>

\* mpool_get of a cached page: to the tail of the list, pinned.
GetCached(p) == /\ p \in Cached \ held
                /\ lru' = Append(Without(p), p)
                /\ bkt' = [bkt EXCEPT ![p].pinned = TRUE]
                /\ held' = held \cup {p}
                /\ synced' = FALSE
                /\ UNCHANGED <<curcache, npages, disk, changed>>

\* mpool_get of a page that has to be read; the read may fail.
GetRead(p) == /\ p < npages
              /\ p \notin Cached
              /\ \E o \in Bkt :
                   /\ Took(o)
                   /\ \/ /\ o.ok
                         /\ disk[p] # NoPage
                         /\ Pin(o, p, PgIn(disk[p]))
                         /\ UNCHANGED <<npages, changed>>
                      \/ Fails(o)

\* The user changes a page it has pinned.
Change(p, v) == /\ p \in held
                /\ bkt' = [bkt EXCEPT ![p].page = Host(v)]
                /\ changed' = changed \cup {p}
                /\ synced' = FALSE
                /\ UNCHANGED <<lru, curcache, npages, disk, held>>

\* Mutant: MPOOL_DIRTY is assigned rather than or-ed in.
PutClean(p) == /\ p \in held
               /\ bkt' = [bkt EXCEPT ![p].pinned = FALSE, ![p].dirty = p \in changed]
               /\ held' = held \ {p}
               /\ changed' = changed \ {p}
               /\ synced' = FALSE
               /\ UNCHANGED <<lru, curcache, npages, disk>>

\* mpool_put
Put(p) == /\ p \in held
          /\ bkt' = [bkt EXCEPT ![p].pinned = FALSE, ![p].dirty = @ \/ p \in changed]
          /\ held' = held \ {p}
          /\ changed' = changed \ {p}
          /\ synced' = FALSE
          /\ UNCHANGED <<lru, curcache, npages, disk>>

Dirty == {p \in Cached : bkt[p].dirty}

\* mpool_sync: the dirty pages are written, in the order of the list, and the
\* fsync that follows succeeds or not ...
SyncAll == /\ held = {}
           /\ disk' = [p \in PageNo |-> IF p \in Dirty THEN PgOut(bkt[p].page) ELSE disk[p]]
           /\ bkt' = [p \in PageNo |->
                        IF p \in Dirty
                        THEN [bkt[p] EXCEPT !.page = PgOut(@), !.dirty = FALSE]
                        ELSE bkt[p]]
           /\ synced' \in BOOLEAN
           /\ UNCHANGED <<lru, curcache, npages, held, changed>>

\* ... or the first write that fails, that of the k-th bucket, ends it.
SyncFails(k) ==
  /\ held = {}
  /\ lru[k] \in Dirty
  /\ \E w \in Write(lru[k]) :
       LET before == {lru[i] : i \in 1 .. k - 1} \cap Dirty IN
       /\ ~w.ok
       /\ disk' = [p \in PageNo |-> IF p \in before THEN PgOut(bkt[p].page) ELSE w.disk[p]]
       /\ bkt' = [p \in PageNo |->
                    IF p \in before THEN [bkt[p] EXCEPT !.page = PgOut(@), !.dirty = FALSE]
                    ELSE IF p = lru[k] THEN [bkt[p] EXCEPT !.page = w.page]
                    ELSE bkt[p]]
  /\ synced' = FALSE
  /\ UNCHANGED <<lru, curcache, npages, held, changed>>

\* The pages of a file that ends after its last page written.
FilePages == CHOOSE n \in 0 .. MaxPages :
               \A p \in PageNo : disk[p] # NoPage <=> p < n

\* mpool_close and the next mpool_open of the file.
Reopen == /\ synced
          /\ lru' = <<>>
          /\ bkt' = [p \in PageNo |-> NoPage]
          /\ curcache' = 0
          /\ npages' = FilePages
          /\ synced' = FALSE
          /\ UNCHANGED <<disk, held, changed>>

Next == \/ \E v \in Val : New(v)
        \/ \E p \in PageNo : \/ GetCached(p) \/ GetRead(p) \/ Put(p)
                             \/ \E v \in Val : Change(p, v)
        \/ SyncAll \/ \E k \in DOMAIN lru : SyncFails(k)
        \/ Reopen

Spec == Init /\ [][Next]_vars
-----------------------------------------------------------------------------
\* The contents of page p as the pool would return them.
Logical(p) == IF bkt[p] # NoPage THEN bkt[p].page
              ELSE IF disk[p] = NoPage THEN NoPage ELSE PgIn(disk[p])

\* The list names every cached page once: mpool_put and mpool_bkt move a bucket
\* to its end (mpool.c) and never leave it there twice.
ListIsCache == /\ TypeOK
               /\ \A i, j \in DOMAIN lru : lru[i] = lru[j] => i = j
               /\ \A p \in PageNo : p \in Cached <=> \E i \in DOMAIN lru : lru[i] = p

\* A page in use keeps its bucket, pinned: no eviction, no failed call and no
\* growth of the cache takes it away.
HeldStayPinned == \A p \in held : bkt[p] # NoPage /\ bkt[p].pinned

\* A page the pool may forget without writing it is in the file as the user
\* left it, and every other page is cached.
CleanOnDisk ==
  \A p \in PageNo :
     /\ p < npages /\ p \notin Cached => disk[p] # NoPage
     /\ p \in Cached /\ ~bkt[p].dirty /\ p \notin changed =>
          disk[p] # NoPage /\ PgIn(disk[p]) = bkt[p].page

\* After an mpool_sync that succeeded the whole database is in the file: a
\* process that opens it sees every page as its last user left it.
SyncIsComplete ==
  synced => \A p \in PageNo : p < npages => disk[p] # NoPage /\ PgIn(disk[p]) = Logical(p)

\* The pool is transparent, whatever it evicts, writes or fails to write.
Store == INSTANCE PageStore
           WITH pages <- [p \in 0 .. npages - 1 |-> Logical(p)], n <- npages

ImplementsPageStore == Store!Spec
=============================================================================
