----------------------------- MODULE PageStore ------------------------------
(***************************************************************************)
(* What a buffer pool promises the access method above it: a growing array *)
(* of pages.  A page keeps the contents its last user gave it, whatever    *)
(* the pool caches, evicts or writes in the meantime.                      *)
(***************************************************************************)
EXTENDS Naturals

CONSTANT Content  \* the possible contents of a page

VARIABLES pages,  \* pages[p]: the contents of page p, for p < n
          n,      \* the number of pages
          held    \* the pages in use by the access method

Init == /\ n = 0
        /\ pages = [p \in {} |-> p]
        /\ held = {}

\* A page is added; its user fills it in.
New(c) == /\ n' = n + 1
          /\ pages' = [p \in (DOMAIN pages) \cup {n} |-> IF p = n THEN c ELSE pages[p]]
          /\ held' = held \cup {n}

Get(p) == /\ p \in DOMAIN pages \ held
          /\ held' = held \cup {p}
          /\ UNCHANGED <<pages, n>>

Change(p, c) == /\ p \in held
                /\ pages' = [pages EXCEPT ![p] = c]
                /\ UNCHANGED <<n, held>>

Put(p) == /\ p \in held
          /\ held' = held \ {p}
          /\ UNCHANGED <<pages, n>>

Next == \/ \E c \in Content : New(c)
        \/ \E p \in DOMAIN pages : Get(p) \/ Put(p) \/ \E c \in Content : Change(p, c)

Spec == Init /\ [][Next]_<<pages, n, held>>
=============================================================================
