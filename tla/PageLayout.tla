----------------------------- MODULE PageLayout -----------------------------
(***************************************************************************)
(* How records share a B-tree page (db.1.85/btree.h) and where bt_psplit   *)
(* cuts a page that is too full (db.1.85/bt_split.c).  A page has Full     *)
(* bytes after its header; a record takes its own bytes and Slot bytes in  *)
(* the index array linp.  Offsets count from 1, where the code counts from *)
(* 0; a list of sizes is a sequence of naturals.                           *)
(***************************************************************************)
EXTENDS Naturals, Sequences

CONSTANTS Full,   \* bt_psize - BTDATAOFF
          Slot    \* sizeof(indx_t)

ASSUME LayoutAssumption == Full \in Nat /\ Slot \in Nat

\* The bytes of the first n records: what bt_psplit calls used.
Used(sizes, n) == LET sum[i \in 0 .. n] == IF i = 0 THEN 0 ELSE sum[i - 1] + sizes[i]
                  IN sum[n]

\* The room the records need: psize - upper + lower - BTDATAOFF.
Room(sizes) == Used(sizes, Len(sizes)) + Slot * Len(sizes)

Fits(sizes) == Room(sizes) <= Full

\* The number of records bt_psplit leaves on the left page, the new one, which
\* is the skip-th of sizes, among them: records are taken until half of the
\* page is used, or one less when the last of them would overrun the page.
Cut(sizes, skip) ==
  LET half == Full \div 2
      enough == {n \in 1 .. Len(sizes) : Used(sizes, n) >= half}
      n == IF enough = {} THEN Len(sizes) ELSE CHOOSE n \in enough : \A m \in enough : n <= m
  IN IF skip <= n /\ ~(skip = n /\ n = Len(sizes)) /\ Used(sizes, n) >= Full
     THEN n - 1 ELSE n
=============================================================================
