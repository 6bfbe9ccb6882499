------------------------------ MODULE Overflow ------------------------------
(***************************************************************************)
(* The overflow chains of the B-tree (db.1.85/bt_overflow.c): items that   *)
(* are too long for a page are stored on a chain of pages of their own,    *)
(* taken from the free list and given back to it (bt_page.c).  An item is  *)
(* what a leaf holds of it: the first page of its chain and its size.  A   *)
(* page that cannot be read or made ends the operation where it stands.    *)
(*                                                                         *)
(* A tree is [free, next, data, preserve, size]: the head of the free      *)
(* list, what each page holds, and the number of pages.                    *)
(***************************************************************************)
EXTENDS Call, Integers, SequencesExt

P_INVALID == 0
PLEN == 2          \* bytes of an item on one page
MAX_PAGES == 5
MAX_ITEMS == 3

NoTree == [free |-> P_INVALID, next |-> <<>>, data |-> <<>>, preserve |-> {}]

(* The page for a new link of a chain, and the tree without it; a page of  *)
(* the free list that cannot be read stays there, and a new one is made.   *)
bt_new(t, read) ==
    IF t.free # P_INVALID /\ read THEN [pg |-> t.free, t |-> [t EXCEPT !.free = t.next[t.free]]]
    ELSE [pg |-> Len(t.next) + 1, t |-> [t EXCEPT !.next = Append(@, P_INVALID), !.data = Append(@, <<>>)]]

bt_free(t, pg) == [t EXCEPT !.next[pg] = t.free, !.free = pg]

(* Stores bytes on a chain that hangs on last.  calls is the number of     *)
(* pages that can be had before one fails; read tells whether the pages of *)
(* the free list can be read.                                              *)
RECURSIVE OvflPut(_, _, _, _, _, _)
OvflPut(t, bytes, first, last, calls, read) ==
    LET new == bt_new(t, read)
        nb == IF Len(bytes) < PLEN THEN Len(bytes) ELSE PLEN
        stored == [new.t EXCEPT !.next[new.pg] = P_INVALID, !.preserve = @ \ {new.pg},
                                !.data[new.pg] = SubSeq(bytes, 1, nb)]
        linked == IF last = P_INVALID THEN stored ELSE [stored EXCEPT !.next[last] = new.pg]
        head == IF last = P_INVALID THEN new.pg ELSE first
    IN  IF calls = 0 THEN [ok |-> FALSE, t |-> t, pg |-> first]
        ELSE IF nb = Len(bytes) THEN [ok |-> TRUE, t |-> linked, pg |-> head]
        ELSE OvflPut(linked, SubSeq(bytes, nb + 1, Len(bytes)), head, new.pg, calls - 1, read)

ovfl_put(t, bytes, calls, read) == OvflPut(t, bytes, P_INVALID, P_INVALID, calls, read)

RECURSIVE ovfl_get(_, _, _)
ovfl_get(t, pg, sz) ==
    IF sz <= PLEN THEN SubSeq(t.data[pg], 1, sz)
    ELSE t.data[pg] \o ovfl_get(t, t.next[pg], sz - PLEN)

RECURSIVE OvflFree(_, _, _, _)
OvflFree(t, pg, sz, calls) ==
    LET next == t.next[pg]
        freed == bt_free(t, pg)
    IN  IF sz <= PLEN THEN [ok |-> TRUE, t |-> freed]
        ELSE IF calls = 0 THEN [ok |-> FALSE, t |-> freed]
        ELSE OvflFree(freed, next, sz - PLEN, calls - 1)

(* Mutant: P_PRESERVE is not looked at.                                    *)
OvflDeleteAlways(t, pg, sz, calls) ==
    IF calls = 0 THEN [ok |-> FALSE, t |-> t] ELSE OvflFree(t, pg, sz, calls - 1)

(* A chain whose first page an internal page uses too is kept.             *)
ovfl_delete(t, pg, sz, calls) ==
    IF calls = 0 THEN [ok |-> FALSE, t |-> t]
    ELSE IF pg \in t.preserve THEN [ok |-> TRUE, t |-> t]
    ELSE OvflFree(t, pg, sz, calls - 1)

bt_preserve(t, pg) == [t EXCEPT !.preserve = @ \cup {pg}]
-----------------------------------------------------------------------------
(* items is what the leaves refer to, kept what internal pages refer to;   *)
(* an item is torn when its deletion failed half way: the leaf still has   *)
(* it.                                                                     *)
OvflInit ==
    /\ call = Idle
    /\ call' = [fn |-> "ovfl", t |-> NoTree, items |-> {}, kept |-> {}, torn |-> {}, lost |-> FALSE, n |-> 0]

OvflPutCall(size, calls, read) ==
    /\ call.fn = "ovfl" /\ call.n < MAX_ITEMS /\ Len(call.t.next) + (size + 1) \div PLEN <= MAX_PAGES
    /\ LET bytes == [i \in 1..size |-> 10 * (call.n + 1) + i]
           r == ovfl_put(call.t, bytes, calls, read)
       IN  call' = [call EXCEPT !.t = r.t, !.n = @ + 1, !.lost = @ \/ (~r.ok /\ r.pg # P_INVALID),
                                !.items = IF r.ok THEN @ \cup {[pg |-> r.pg, bytes |-> bytes]} ELSE @]

OvflDeleteCall(item, calls) ==
    LET r == ovfl_delete(call.t, item.pg, Len(item.bytes), calls)
    IN  call' = [call EXCEPT !.t = r.t, !.items = IF r.ok THEN @ \ {item} ELSE @,
                             !.torn = IF r.ok THEN @ ELSE @ \cup {item},
                             !.kept = IF r.ok /\ item.pg \in call.t.preserve THEN @ \cup {item} ELSE @]

(* A split puts the key of a leaf into an internal page.                   *)
OvflPreserve(item) == call' = [call EXCEPT !.t = bt_preserve(@, item.pg)]

OverflowCall ==
    \/ OvflInit
    \/ \E size \in 1..5, calls \in {0, 1, 3}, read \in BOOLEAN : OvflPutCall(size, calls, read)
    \/ /\ call.fn = "ovfl"
       /\ \E item \in call.items \ call.torn : OvflPreserve(item) \/ \E calls \in {0, 1, 3} : OvflDeleteCall(item, calls)

RECURSIVE Chain(_, _, _)
Chain(t, pg, n) == IF n = 0 THEN {} ELSE {pg} \cup Chain(t, t.next[pg], n - 1)
PagesOf(t, item) == Chain(t, item.pg, (Len(item.bytes) + 1) \div PLEN)

RECURSIVE FreeList(_, _, _)
FreeList(t, pg, seen) == IF pg = P_INVALID \/ pg \in seen THEN seen ELSE FreeList(t, t.next[pg], seen \cup {pg})

(* Items come back as they were stored, whatever was stored, deleted,      *)
(* preserved or failed in between (bt_overflow.c:75, 134, 188): no page is *)
(* on two chains, or on a chain and on the free list, and when nothing has *)
(* failed every page is on one of them.  An item whose deletion failed     *)
(* half way is left out: the leaf still refers to pages that are free.     *)
ChainsApart ==
    call.fn = "ovfl" =>
        LET t == call.t
            live == (call.items \cup call.kept) \ call.torn
            free == FreeList(t, t.free, {})
        IN  /\ \A x \in live : ovfl_get(t, x.pg, Len(x.bytes)) = x.bytes
            /\ \A x, y \in live : x # y => PagesOf(t, x) \cap PagesOf(t, y) = {}
            /\ \A x \in live : PagesOf(t, x) \cap free = {}
            /\ (call.torn = {} /\ ~call.lost) =>
                   1..Len(t.next) = free \cup UNION {PagesOf(t, x) : x \in live}
=============================================================================
