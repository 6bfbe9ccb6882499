# A verification project for samlib

samlib is a C library of helpers for Linux (with ports to Windows): light-weight
threads and locks on `clone` and `futex`, a string-keyed database over a cut-down
Berkeley DB 1.85 B-tree, and many small helpers for strings, files, sockets, time
and digests. This directory holds TLA+ modules that model the parts of it whose
correctness depends on the order in which things happen, TLC configurations that
check them on small instances, and TLAPS proofs of the main results for every
instance. `PROJECT.json` lists components, runs, mutants, findings, hazards and
theorems, and maps every definition to the lines it models.

## 1. Inventory

| Component | Sources | State | Operations | What makes it correct |
|---|---|---|---|---|
| spinlock | `samthread.h` | one word | `spin_lock`, `spin_unlock` | one thread inside; somebody gets in |
| mutex | `mutex.c` | `state`, `count`; the kernel's queue | create, lock, unlock, destroy | one thread inside; no lost wake-up; destroy does not free what a waiter will touch, and returns |
| threads | `samthread.c` | an `athread` at the bottom of each stack | `samthread_create`, `samthread_join`, the wrapper around the thread function, the kernel at thread exit | join returns the thread's result, ends, and does not pull the stack from under a running thread; stacks do not leak |
| buffer pool | `db.1.85/mpool.c` | hash chains, LRU list, pins, dirty bits, the file | new, get, put, sync, open, close | transparent: pages read back as left, whatever is evicted and whatever fails |
| page split | `db.1.85/bt_split.c` (`bt_psplit`) | two half pages, a cursor | one split | both halves have records and fit; the cursor stays on its record |
| B-tree | the other `db.1.85/bt_*.c` | pages, free list, insertion hint, cursor, metadata | get, put, del, seq, sync, close, open | an ordered dictionary; shape of the tree; a page is in the tree or free |
| overflow pages | `db.1.85/bt_overflow.c` | chains of pages | put, get, delete of long records | chains are whole and are freed once |
| samdb | `samdb.c` | the global handle | open, close, put, get, get_str, peek, del, walk | a walk meets every record; strings end in their buffer |
| strings | `strlcpy.c`, `safecpy.c`, `strfmt.c` | the destination buffer | bounded copy, concatenation, formatting | never past the buffer, always terminated |
| walkfiles | `walkfiles.c` | ignore and filter lists, flags | add, check, walk | the files the flags and filters ask for, each once |
| linked list | `linux-list.h` | next and prev pointers | add, del, move, splice, cut, rotate, replace; the loop macros | rings stay rings; a loop meets what was ahead of it, and ends |
| argument helpers | `arg-helpers.c` | – | numbers with suffixes, option tables | the value, or an error when it overflows |
| file operations | `copy.c`, `mkdir-p.c`, `file.c`, `read*.c` | open files | sequences of system calls | the whole file or an error; nothing left open |
| sockets, interfaces | `socket.c`, `ip.c` | descriptors | connect, listen, accept, read, write | no descriptor leaks on an error path |
| time | `time.c`, `tsc.c` | – | differences, conversions | carries and borrows |
| codes, checksums, random | `base64.c`, `crc16.c`, `tea.c`, `xorshift.c`, `random.c` | small words | encode, decode | decode inverts encode |
| digests, ciphers | `md5.c`, `sha256.c`, `aes*.c` | a block buffer, a chaining value | init, update, final; init, encrypt, decrypt | the split into calls does not matter, nor whether the processor has the instructions |
| process helpers | `must.c`, `binary.c`, ... | – | – | – |
| Windows port | `win32/` | – | `fnmatch`; vendored `regex`; stand-ins for POSIX calls | `fnmatch` matches what POSIX says |

How they interact. A program reaches the B-tree through `samdb`; the B-tree works on
pages it pins in the buffer pool and puts back; the pool calls two filters of the
B-tree (`__bt_pgin`, `__bt_pgout`) when it reads and writes the file. Between two
operations the B-tree keeps three references into its pages: the cursor, the hint of
`put` and one pinned page. `db_walk` calls the user back between two `seq`s, and the
user may use the database there. The threads share nothing but the words of the locks
and, with the kernel, the first word of each stack. Nothing in the library calls the
locks: databases are not shared between threads.

What is hard: interleavings of the accesses and futex calls of `mutex.c`; the race in
which `samthread_join`, the thread's own stores and the kernel's store at thread exit
meet on one word of memory that may be unmapped and mapped again; failures in the middle
of evicting a page or splitting a tree; long sequences of puts and deletes; references
that outlive what they point to (hint, cursor, head of the free list in the file). The
full list, with lines, is "hazards" in `PROJECT.json`.

## 2. Modules

    Lock <--implements-- Spinlock
    Threads <-- Spinlock, Mutex <-- Locks <-- LockProofs
    SamThread <-- SamThreadProofs

    PageStore <--implements-- Mpool <-- MpoolProofs        (what the B-tree stands on)
    PageLayout <-- PageSplit <-- PageSplitProofs           (the loop of bt_psplit = Cut)
    PageLayout <-- Btree --implements--> Dictionary <-- Samdb <-- MCSamdb
                  Btree <-- BtreeProofs <-- BtreeInvariance
                                                        Samdb <-- SamdbProofs
    LinuxList <-- LinuxListProofs
    Call <-- Digest, Strings, Fnmatch, Overflow        Strings <-- Codes
    Call, Aes <-- Ciphers                              Strings, Fnmatch <-- Walk
    Ciphers, Digest, Walk, Codes, Overflow <-- Helpers

**Lock** is the abstract lock: one holder, taken and given back in one step.

**Spinlock** has the lock word and a program counter per thread. `CasTakes`,
`CasFails`, `YieldReturns` are the loop of `spin_lock`, `SpinUnlock` is the store. Its names begin
with `Spin` where Mutex has the same, since Locks extends both.

**Mutex** has one action per atomic access or system call of `mutex_lock`,
`mutex_unlock` and `mutex_destroy`. The kernel's wait queue is the set of threads at
`"sleep"`; `FutexWait` compares and blocks in one step, as the kernel does, and a
signal may end it. `freed` is set by the `free` of `mutex_destroy`; a thread whose next
access is to freed memory goes to `"undefined"` (`Touch`). `stolen` is history: the
store in `mutex_unlock` cleared a state another thread had set.

**Locks** is a program whose threads use both, one at a time: a thread that waits for the mutex is
not at the spinlock, so the liveness of each lock rests on threads that may be busy with the other.

**SamThread** has, per stack address, the `athread` there and the child it is mapped for;
`mmap` may return an address again after `munmap`. `samthread_create` is two steps, so that there
is a state between the `mmap` and a `clone` that may fail (`CloneFails` unmaps). The children run
`samthread_func` step by step; `KernelExit` is the kernel's store and wake-up of
`CLONE_CHILD_CLEARTID`, which hits the address whatever is there by then. The wake-up
the thread itself sends is a *private* futex operation and the wait of
`samthread_join` is a *shared* one, so it wakes nobody. A child without its stack kills
the process (`Fault`). `early` is history: a join went on before its thread was gone.

**PageStore** is what a buffer pool promises: an array of pages. **Mpool** has the LRU
list, the buckets, the number allocated, the file. `mpool_bkt` and `mpool_write`
are operators (`Bkt`, `Flush`, `Write`) that return the set of their outcomes, failures
and half-written pages included; the actions are `mpool_new`, `mpool_get` (cached or
read), `mpool_put`, `mpool_sync` (complete, or ended by the k-th bucket) and
close with open. The hash chains are not modelled apart from the list: a bucket is always
put on and taken off both. The filters are modelled by what they do to the byte order of
a page; with `NeedSwap = FALSE` they do nothing.

**PageLayout** says how much room records take and where a split cuts. **PageSplit** is
the loop of `bt_psplit` turn by turn, over records of several sizes with overflow keys,
and its adjustment of the cursor; it is checked against `Cut`, which Btree uses.

**Dictionary** is what `man/dbopen.3` promises of the B-tree: records in key order and one cursor at
the key that `seq` returned last, which only `seq` moves. `gone` notes that its record was deleted or
replaced since; `Following` and `Preceding` are the keys after and before it all the same.

**Btree** is the tree on its pages: `t` is the `BTREE` structure with the pages; operators
(`Dleaf`, `Split`, `Pdelete`, `Free`, ...) take a tree and return the tree that the
function of that name makes of it; actions are the calls of the user. `contents` and `at`
remember what the user was told. `flaw` names the first damage the code does to its own
tree: a put through a hint to a page that was freed (`"astray"`), a cursor moved off its
record by a split (`"cursor"`), a free list that disagrees with the tree after an open
(`"freelist"`). Runs go up to the damage and no further (`CONSTRAINT Undamaged`):
what the tree does afterwards depends on bytes the model does not have. `AsDict` is the dictionary
that a tree stands for; `ImplementsDictionary` says that every operation does to it what Dictionary
says (`OpsAgree`) and that every flag of `seq` returns the record that Dictionary says (`SeqAgrees`).
Abstractions:

* all records of a kind of page have one size, and there are no duplicates (samdb opens
  trees with neither `R_DUP` nor a comparison of its own);
* no overflow pages (PageSplit has their keys, Overflow their chains);
* `Memory` is how many pages the pool finds in one put: a split may find none, which fails
  the put, or run out half-way, which is `__dbpanic`. No read fails: that `__bt_new` makes a new page
  when the head of the free list cannot be read (bt_page.c:89-95) is in Overflow;
* a put through a hint to a freed page is taken to be lost and to succeed; in the code it may also
  move a negative number of bytes, which is undefined;
* a delete under the cursor takes the path down to the cursor's key for the stack that `__bt_stkacq`
  finds by walking sideways (bt_delete.c:80-275); without duplicates they are the same;
* the separator put into a parent may be a prefix of the key: the two ends of what may come
  out are tried (`short`);
* what a freed page holds is forgotten, but for the key that the hint may still compare with;
* an `R_CURSOR` put has the key of the record it replaces.

**Samdb** is `samdb.c` over Dictionary, with `db_walk` as several steps: `Begin`, then
`Meet` and `FuncReturns` by turns until `Ended`, with the user's own puts, deletes and
walks in between. The puts are those of the code, not of the manual: one below the cursor may split
the page and leave the cursor one record too far on it (`Slips`, bt_split.c:714-722) or behind the
page's last record (`fault` is `"lost"`), from where `seq` reads what happens to be there
(`Astray`, `"wild"`); one may lose the record it replaces (`PutFails`) or leave the tree to
`__dbpanic` (`PutPanics`), after which every operation fails. `NextKey` is what R_NEXT of the code
returns, a record that was put again under the cursor included. `GetRaw` and `GetStr` are operators
on the caller's buffer. A call on a database that is not open fails and changes nothing. The user
copies the key it is called with before it puts it again, closes no database it is
walking, and puts with flags 0 (`R_NOOVERWRITE` on a present key changes nothing).

**LinuxList** is `linux-list.h` on a memory of next and prev members. Operators keep the
header's names and return the memory they leave; actions call them and keep in `list` what
the caller knows (the entries of each list in order, or `Stale` for a head that a splice or a
replacement left behind). A loop macro is `LoopStart`, then `LoopBody` or `LoopBodyReset` until
`LoopEnd`; the body may delete or move its own entry in a safe loop. `DelInitStore` is
`list_del_init` one store at a time and `CarefulRead` is `list_empty_careful` on another CPU.

**Call** holds one call: the function, its arguments, what it left. The modules over it check
functions that keep no state of their own, or a context that lives from call to call:

* **Aes** has the block ciphers three times, as the code has them: the tables of
  `aes-cbc.c`, the rounds in place of `aes128.c`, the instructions of `aes-x86.c`. Bytes are
  numbers and nothing is left out of the rounds; the S-boxes are the code's tables, the
  processor's instructions are external. The products of `gf_mul` are computed, where the code has
  tables of them (aes-cbc.c:80-215): a wrong entry there would not be seen. **Ciphers** has the
  contexts: the choice of hardware and the ones that `aes_set_hw` refuses, CBC over several calls, in
  place or not, ECB, and TEA with 16-bit words in a buffer with other words behind it.
* **Digest** has the buffering, cutting and padding of `md5.c` and `sha256.c`. The compression
  function is left open: the state is the sequence of blocks it was given. `SizeWord` stands for
  2^32 in the length of md5.
* **Strings** has the copies of `strlcpy.c` and `safecpy.c` on a buffer with somebody else's cells
  behind it, and `strfmt` with its flags, widths and conversions (words of 4 and 8 bits for
  int and long).
* **Fnmatch** is `fnmatch` of the Windows port over characters: `FCT` is
  the loop over the pattern, `Star` and `FirstFound` its case `*`, `BracketScan` and `BracketSkip`
  its case `[`, `ext_match` the extended operators, called with and without `FNM_EXTMATCH`.
* **Walk** is `walkfiles.c` over a small tree with every kind of entry, two devices, paths that
  have gone, the one the walk starts from included, and a `file_func` that fails. It uses `strconcat` of Strings for the paths and
  `fnmatch` for the filters; a regular expression matches the paths that contain it.
* **Codes** has `base64.c`, the checksum of `crc16.c`, the differences of `time.c` on a memory of
  times, so that the result may be stored over one of them, and `nice_duration`, which uses `strfmt`,
  in the caller's buffer or one it allocates.
* **Overflow** has the chains of `bt_overflow.c` with the free list of `bt_page.c` under them; any
  page that is read or made may fail, and a new page is made when the first free one cannot be read.

**Helpers** is all of them: a behaviour picks one and calls it.

## 3. Runs

| Run | Instance | States | Shows |
|---|---|---|---|
| `locks` | 4 threads, one of them the destroyer, both locks | 113,468 | spinlock: exclusion, refinement of Lock, somebody enters; mutex: exclusion until a store steals it, no lost wake-up, sleepers are woken, count is exact, destroy is safe for counted waiters and ends |
| `mutex_exclusion` | 2 threads | violation | the store of mutex.c:103 breaks mutual exclusion |
| `samthread` | 3 threads, 2 stacks, signals | 220,327 | stacks are owned and do not leak; results are right unless a join was early; joins end |
| `mpool` | 3 pages, cache of 2 growing to 3 | 401,256 | the pool is transparent, evicts no page in use, loses none, `mpool_sync` is complete |
| `page_split` | pages of up to 7 records, 4 sizes | 31,373 | the loop cuts where `Cut` says; halves fit when records are small; the cursor follows when the new record is not before it on the left page |
| `btree` | 4 keys, 6 pages, 3 levels | 125,788 | types and shape, free list, get, order, through splits, removals and failing splits |
| `btree_cursor` | 3 keys, 4 pages, sync and reopen | 33,548 | every operation and every `seq` is the dictionary's, two cases of `seq` apart |
| `btree_slip` | 3 keys | violation | a put that splits the cursor's page moves it off its record |
| `btree_hint` | 4 keys | violation | a put through a stale hint is lost |
| `samdb` | 3 keys, walks two deep | 789,537 | walks meet all but for the cursor's slip, in order, and end; strings end in their buffer |
| `list` | 2 heads, 3 entries | 371,066 | rings stay rings, loops meet all and end, `list_empty_careful` is true only when the deletion is done |
| `helpers` | see below | 79,016 | ciphers, digests, `fnmatch`, strings, walks, codes and overflow chains, each against a reference |

`helpers` checks one invariant for each component. `CiphersAgree`: what comes out is what the
published vectors of `tests/aes-test.c` say, by whichever implementation and however the message
was cut; TEA decrypts what it encrypted and keeps to `tea_bag_size` bytes. `DigestAnySplit`: the blocks that the rounds see are
those of the message padded as the RFC says, however it was cut. `GlobsMatch`: a pattern matches what
a declarative definition of POSIX matching says. `StringsFit`: nothing behind the buffer, the front
of the right text, the right count. `WalkMeetsSelected`: `file_func` is called once for each path that
the flags, ignores and filters select, and an error of any of them, or a path that has gone, is not lost. `CodesAgree`: base64 decodes what
it encoded, sums, differences (stored over their operands too) and durations are right. `ChainsApart`: items read back
as stored, no page on two chains or on a chain and free. Each states in its comment which cases
it leaves out because the code does otherwise; section 4 lists them.

The type invariants of Mutex and SamThread are conjuncts of the inductive invariants that are
proved (section 5); those of Mpool, Btree and LinuxList are conjuncts of `ListIsCache`, `Shape`
and `ListsAreRings`.

Every property of a passing run has a mutant, a copy of one definition with a plausible
bug ("Mutant:" in the modules), under which TLC reports the property violated.

Why the bounds are enough. *Locks*: three users are a holder, a sleeper and one that
barges in on the fast path; the fourth thread destroys; all four use the spinlock too. *Threads*: three threads on two
stacks is the least in which a stack is reused while a thread that had it is still on its
way out and another one runs. *Pool*: with a cache of two and three pages every get may
evict, and with memory for three buckets the cache can grow once and then fail; there is a
page to evict, one to keep and one to read. *Split*: seven records of sizes 6, 12, 20, 23 on
a page of 48 reach every exit of the loop. *B-tree*: leaves of two records; four keys and six
pages give three levels, splits of root, leaf and right edge, trees that empty
completely, and reuse of freed pages. A split of an internal page that is not the root is
not reached. With `Memory = {1, 3}` the run passes too (631,000 states). *samdb*: three
keys are one behind, one at and one ahead of the cursor; two walks are enough to disturb
one. *Lists*: three
entries are one before, one at and one behind a loop's position; two heads are a list and
another one to move, splice or cut to. *Helpers*: CBC takes messages of up to three blocks in calls
of 0 to 2 blocks, keys of 128 and 256 bits (192 is refused), with hardware absent, present and
switched off; digests take three pieces from lengths around 0, 56 and 64; patterns of up to four
of the wildcard characters against all strings of up to three, and brackets, quotes, classes and
extended operators each with an instance of its own; destinations from 0 to 9 cells; walks of a tree
four directories deep with at most `MAX_OPEN` = 4 open and paths of `PATH_SIZE` = 8, after up to two
additions, twice on one structure; chains of up to three pages of `PLEN` = 2 bytes, three items
on five pages.

Deadlock is checked for `mutex_exclusion`, `mpool` and `list`. The other systems may
stop: threads that wait for a mutex that was destroyed, threads all joined, a page that was split, a tree that
panicked, a process that exited, a function that returned.

Fairness. *Spinlock, Mutex*: weak fairness of the steps of a thread inside a call, which is
that the kernel schedules runnable threads, and critical sections end. Nobody has to call
`mutex_lock` and no signal has to arrive. *SamThread*: thread functions return and the
scheduler runs main and the children. *Samdb*: `seq` returns and so do the user's functions.
*LinuxList*: a
loop that has begun goes on, since it is the caller's own thread; its bodies move entries only to
where the loop does not come again. The B-tree, the pool and the helpers state safety only.

## 4. Findings

Three runs expect a violation; each names a line of the repository that says otherwise.

1. `mutex_unlock` releases with a compare-and-swap and then, when somebody is counted,
   stores 0 again (mutex.c:103); a thread that took the mutex in between loses it.
   `ExclusionUntilStolen` says that this is the only way.
2. `bt_fast` follows a hint to a page that `__bt_pdelete` has freed (bt_put.c:302).
3. `bt_psplit` leaves the cursor one record too far when the new record goes to the left page and
   the cursor's to the right one (bt_split.c:717). A `db_walk` whose function puts a key below the one
   it was called with can miss a record for it. `CursorFollowsApart` says that this is the only way to
   lose the cursor's record in a split, `WalkMeetsAll` what holds of a walk without it.

Seen while modelling, without a run of their own; the properties named leave the case out.

*Threads, pool, B-tree.*

* `samthread_join` may return a wrong result without any signal, when the kernel's late store
  clears the word of the next thread on the same stack (samthread.c:118: `JoinReturnsResult`
  alone does not hold). A particular waiter of the mutex may starve when there are three threads.
* With `NeedSwap = TRUE`, Mpool violates `CleanOnDisk` after one `mpool_sync`, because the output
  filter converts the cached page in place (mpool.c:374). A read that fails drops its bucket
  (mpool.c:205): the cache shrinks for good.
* `bt_psplit` counts the bytes of records but not their slots (bt_split.c:678), so with many small
  records and a large one the left page can get more than fits; `SmallRecordsSplit` holds for records
  of up to a quarter page.
* When the record under the cursor was deleted or replaced, `__bt_seqadv` looks its key up again,
  whatever the direction (bt_seq.c:263): `R_NEXT` returns a record that was put again under that key
  once more, and `R_PREV` goes *forward*, against dbopen.3:293-299. `SeqAgrees` leaves the two out, and
  `WalkInOrder` walks whose function puts the key it was called with.
* `db_walk` returns 0 when the tree has panicked, as at its end: `seq` returns -1 and only 0 is looked
  for (samdb.c:184).
* The head of the free list reaches the file only in the session that made the tree
  (bt_close.c:141); Btree has the flaw `"freelist"` for it.
* `__ovfl_delete` that fails half way leaves a leaf that refers to freed pages, and
  `__ovfl_put` that fails keeps the pages it took (`ChainsApart`).

*Helpers.*

* `AES_CBC_decrypt` in software takes the plain text for the next chaining value when it works
  in place (aes-cbc.c:831); it also ignores bytes behind the last whole block, where
  `AES_CBC_encrypt` returns EINVAL. A hardware context of aes128.c made for one direction can be
  used for the other without an error.
* md5 multiplies the length by eight in 32 bits (md5.c:156): from 512 MB on the hash differs.
* In `win32/fnmatch.c` the extended operators work when `FNM_EXTMATCH` is *not* given (152, 182, 538),
  a `?` behind a `*` refuses a slash when `FNM_FILE_NAME` is *not* given (220), and the limit of the
  name of a class is tested too early (363, 488): no class of five letters in a list that matched
  earlier gets past it, and `xdigit` never does. `FnmatchIsPosix` leaves these patterns out, `ExtMatches`
  asks for the operators under one of the two settings of the flag.
* The comment of `base64_encoded_len` says that "the len includes the NULL" (base64.c:87). It does
  not, and `base64_encode` refuses a buffer of that length (base64.c:54), as tests/base64.c:73 expects.
  `Base64RoundTrip` leaves open which of them is right.
* S_IFLNK has the bit of S_IFCHR, so a walk that asks for links meets character devices;
  samlib.h:184 warns of S_IFBLK only. `WalkMeetsSelected` goes by the bits.
* `strfmt` returns 0 for a length below 1 (strfmt.c:402), not the length of the text as snprintf
  and its comments do (strfmt.c:396, 418). It never left-justifies numbers, puts a minus behind the zeros, has no digits for a
  negative octal or the smallest long, and prints `%%` as two characters.
* The test for a truncated path never fires (walkfiles.c:155), since `strconcat` returns less than
  the size: the walk goes on with the truncated path. `add_filter` after `add_filter_re` compares
  with a null pointer (walkfiles.c:78).
* `chksum16` folds its carry once (crc16.c:24), which is not enough for every buffer, and reads a
  byte behind an odd one (crc16.c:20).

## 5. Proofs

The theorems hold for every value of the constants that the named ASSUMEs of the modules allow;
TLC evaluates those in the runs. They say that the marks for "nothing there" are not members of
the sets beside them (`ThreadAssumption`, `SamThreadAssumption`, `NoPageAssumption`, `ListConstants`,
part of `SamdbAssumption`), that the threads of a mutex are finitely many (`ThreadsFinite`; destroyers are
threads, `DestroyerAssumption`) and that bounds are numbers (`MpoolAssumption`, `LayoutAssumption`).
Four say something of the code: values are byte strings and buffers have a length
(`SamdbAssumption`), a cache has room for a page (`MpoolAssumption`), a record on a page takes
at most half of it, the rest being on overflow pages, and at least three times its slot in
`linp` (`SplitAssumption`: a record has nine bytes of sizes, page number and flags before its key,
a slot has two), and the same for Btree, whose records have one size per kind of page: two fit, and a
page with no room for another has half of its bytes in records (`RecordAssumption`).

*LockProofs.* For the spinlock, `SpinExclusion` is inductive together with `WordTracksHolder`: the word
is 1 exactly while a thread is inside. Without it a swap from 0 might find a thread inside.
`SpinRefinement`: a successful swap is `Acquire`, the store is `Release`, everything else leaves
the abstract holder alone. For the mutex, `IInv` adds to the properties that a state word of 1 has
somebody to clear it (`StateHasOwner`), that a NULL pointer means a destroyer in its loop
(`NullMeansDraining`) and that a held mutex has its word set until the first steal (`HeldIsSet`).
`NoLostWakeup` needs the first: a thread goes to sleep only after the kernel saw 1, so
there is a holder to release it. `CountedAreSafe` needs `CountIsWaiters`, which is about
cardinalities and is proved apart (`StepCount`) from the rest (`StepPlaces`). Results:
`SpinExcludes`, `SpinRefinement`, `WakeupsNotLost`, `CountIsExact`, `DestroyIsSafeForCounted`,
`ExclusionUnlessStolen`. They are about each lock alone; `LocksCompose` says that what Locks does is a
behaviour of both, so they hold there too.

*SamThreadProofs.* `IInv` adds that a create or join in progress is of a thread that has its stack and
was not joined before (`JoinInProgress`), that a thread that was not created does not run
(`Fresh`), that a mapped `athread` has a result, and, until a join is early, that only threads
that are gone have been joined and a thread past its function has stored its result
(`NotEarly`). Results: `StacksAreOwned`, also when joins are early and signals arrive, and
`ResultsUnlessEarly`.

Two facts about numbers stand at the head of the modules that need them: a non-empty set of naturals
has a least member (`LeastNumber`), and a set that holds 0 and, with each number below n, the next
one holds all up to n (`Counting`). They are about sets, so that the provers can use them where an
induction scheme over predicates is out of their reach: for the first bucket that is not pinned, the
next key of a database, the sums over the records of a page, the way down a tree.

*MpoolProofs.* `CacheInv` is `ListIsCache`, `HeldStayPinned` and `InFile`, which says which pages
the file has. `InFile` is needed even for the list: `mpool_new` puts page `npages` on it, which must
not be there yet. What `mpool_bkt` may do to a page (`Spared`, `Evicted`, `Unwritten`) is
stated once for all its outcomes, failures included, and every action uses it. `ListStaysCache` and
`PinsAreKept` hold in either byte order. `HostInv` adds `CleanOnDisk`, under the hypothesis
`NeedSwap = FALSE`: with a file of the other byte order it is false (section 4), so the hypothesis is
part of the result, not of the proof. It is the usual case, since a database is made in the
byte order of the host. Results under it: `EvictionLosesNothing`, `SyncWritesAll` and the refinement
`PoolIsTransparent`, in which each action is a `New`, `Get`, `Put`, `Change` or a stutter of PageStore,
evictions and failed writes being stutters.

*PageSplitProofs.* What `Used` computes is derived from its definition by `Counting`: that the table of
sums exists (`SumExists`), that two agree where both are defined (`SumsAgree`), hence the
step (`UsedStep`), the sum of a stretch (`UsedShift`) and the sum with a record more
(`UsedInserted`). `IInv` says that while the loop runs `used` is the sum of the slots copied, `nxt`
counts the new record only when it is behind (`Copying`), and that no earlier slot was
enough, so that the first that is enough is `Cut`'s (`CutIs`); afterwards, what remains true of
`nxt` (`Copied`). The halves fit by arithmetic: with the new record all are more than three quarters
of the page (`TooMuch`, from records of at least three slots), so the cut is not behind the last
(`NearHalf`), and half a page and a quarter, with slots of a third at most, are no more than a page
(`HalfIsGood`). Results: `CutsWhereSaid`, `SmallRecordsFit`, `CursorFollows`.

*SamdbProofs.* `IInv` says of every walk on the stack, not only the last, that it `Follows` its
database: the records it still owes are there; as long as the cursor is on the page and no other walk
has used it, it is not before the walk's key, and until a key below was put it is at that key and
all that the walk owed up to it was met; and that of two walks of a database the outer is marked
`nested`, as they share a cursor. That the cursor is never before the walk's key is needed for the
order of the keys even where slips are allowed. `Following` and the code's `Advance` are described by
lemmas first (least key above, or the same when the record was put again). Results: `NoRecordMissed`,
`KeysAscend` for any keys, handles and depth of walks, and `GetStrTerminates` for any value and buffer.

*LinuxListProofs.* A list is a ring when its nodes are joined in the order of its sequence, both
ways (`Good`); lists are disjoint (`RingInv`). Each helper of the header has a lemma that says
which members it writes, and each operation one that says what becomes of the pairs of
neighbours (`Adj`) of the sequences involved, from which the ring follows without a word on
the rest. Since `list_del_init` is seen between its stores, the invariant is about the memory
with the open `prev` put back (`Settled`), with `DelInv` and `ReadInv` for the deleting and the
reading CPU. A loop stands at a place of its list, in its own direction, and what it has
met and what lies from there on are together what it had to meet (`LoopInv`, `Stands`, `Behind`):
`LoopMeetsAll` alone does not say that `n` is still the follower. Results: `RingsKept`,
`LoopsMeetAll`, `CarefulIsDone`.

*BtreeProofs, BtreeInvariance.* `IInv` says that, until `flaw` or `panic` is set, there are a set `R` of
pages, the tree, and for each of them a level `lv` and an interval of keys `lo` to `hi` such that
(`TreeOK`) the root has all keys and is alone on the top level, two pages of a level share no key, the
next page begins where a page ends (`Linked`), the records are in order, inside the interval, at least
one (but in an empty root) and fit; a child has the keys from its record's up to the next record's
(`Down`) and every page but the root is a child (`Up`). `FreeOK` has the free list as a sequence of
different pages outside of `R`, `Held` says that leaves and `contents` agree, `CursorOK` where the cursor
is, `HintOK` and `FileOK` what the hint of `put` and the file may say. The intervals are what makes it
inductive: which leaf a key belongs to, where `bt_search`, the hint and the sibling links lead, and
that a key taken out above by `bt_pdelete` widens a neighbour all the way down, are each one line about
intervals, while `Shape` says nothing about keys. They are existentially quantified, so that no operation
has to compute them; for each the proof names the new ones.

The operators that go up or down the tree are functions over the height. Their tables are shown to
exist and to do one step per level (`IsDown`, `IsPath`, `IsSide`, `IsBelow`, `IsWalk`, `IsDrops`), and the steps
are put together by `Counting`. A split of one page is one lemma for each kind (root, leaf, inner), with
an overfull page (`over`) allowed in between; `Turn` carries it up the path through any number of levels,
as far as there is memory. `bt_pdelete` takes a column of pages (`Column`) out, which leaves a
`Hole` of keys in the lowest page that stays; the neighbour is then widened (`DropLo`, `DropHi`).
Results: `Invariance`; `GetCorrect`, as a search ends on the leaf that has the key's interval; and
`FreePagesCorrect`.

`Refinement` needs one thing more, that the cursor is unset exactly when `at` is, and has its key
(`DInv`): each operation then is its own of the dictionary, and `seq` returns the dictionary's key, in
particular the next one up or down (`FoundUp`, `FoundDown`), over page ends, after splits that moved the
cursor and, upwards, from one whose record was deleted. `ShapeCorrect` and `ScanCorrect` read the levels from the tree:
`InRow` says of a row of pages that their intervals follow each other without a gap from 0 to the
last key, and `Level(n + 1)`, flattened from the children of `Level(n)`, is again such a row. Since a level has no
two pages with a key in common, the row is all of it, its neighbours are the linked ones, and the
keys on the leaves ascend.

`IInv` of PageSplitProofs, SamdbProofs and LinuxListProofs and `CacheInv`, `HostInv` of MpoolProofs
hold in the runs' instances under TLC too. That of the B-tree quantifies over functions TLC cannot
enumerate; its consequences `Shape`, `FreePages`, `GetReturnsLatest`, `ScanIsSorted` and the refinement are
what the runs check.

Only model-checked. All liveness (`SomeoneEnters`, `SleepersWoken`, `DestroyEnds`, `JoinEnds`,
`WalkEnds`, `LoopEnds`): fairness is beyond this prover. The modules under Helpers
(`CiphersAgree`, `DigestAnySplit`, `GlobsMatch`, `StringsFit`, `WalkMeetsSelected`, `CodesAgree`,
`ChainsApart`): they are computations over data by RECURSIVE operators and Bitwise, which this prover
does not reach. `MutualExclusion` (of the mutex), `PutEnters` and `CursorStays` of the tree are false (section 4).

## 6. Not modelled

Duplicates and a user comparison in the B-tree, and the remaining branches of the recno method, which
`dbopen` does not reach; overflow pages inside Btree (Overflow has them on their own); damaged files and the
checks of the file header; failing reads under the B-tree (Mpool has them, Btree takes the pool as
transparent and finding no page as the only failure), so also `__bt_first`, which returns success
when its search fails (bt_seq.c:359); keys as bytes, so the aliasing of a walked key with the page it
is on (samdb.c:185); a put with `R_CURSOR` that splits (bt_put.c:205); the Windows and pthreads
variants of locks and threads, which forward to the platform; the compression functions of md5 and
SHA-256; `%f` of `strfmt`; the vendored `regex.c`; random numbers, the rest of the argument helpers,
file operations, sockets, process helpers; formatting and diagnostics.

## 7. Plan

1. **File operations, sockets**: sequences of failing system calls; no descriptor leaks
   (`copy.c`, `mkdir-p.c`, `socket.c`).
2. **Numbers**: suffixes and overflow in `arg-helpers.c`.
3. **Composition of Mpool and Btree**: failing reads and writes under a split or a delete, and
   Overflow's chains on the same free list.
4. Theorems: `ChainsApart` for items of any length, with the operations of `bt_overflow.c` as steps over
   one page each instead of RECURSIVE operators, on the free list of BtreeProofs (`FreeOK`).
