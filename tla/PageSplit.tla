------------------------------ MODULE PageSplit ------------------------------
(***************************************************************************)
(* bt_psplit (db.1.85/bt_split.c), the loop that divides the records of a  *)
(* page that has no room for a new one, step by step, and what it does to  *)
(* a cursor on the page.  It is checked against Cut of PageLayout, which   *)
(* the B-tree uses, and against what a split has to achieve.  The page is  *)
(* any page that was within its bounds and has no room for the new record. *)
(***************************************************************************)
EXTENDS PageLayout, SequencesExt

CONSTANTS Record,      \* the sizes of records; __bt_open puts what is longer
                       \* than half a page on overflow pages
          BigKey,      \* the sizes of records whose key is on overflow pages
          MaxRecords   \* bound: records on the page

\* A record has at least the nine bytes of its sizes, page number and flags,
\* aligned (NBINTERNAL, NBLEAFDBT), and linp has two for it.
ASSUME SplitAssumption == /\ Record \subseteq 1 .. Full \div 2 - Slot
                          /\ \A r \in Record : 3 * Slot <= r
                          /\ BigKey \subseteq Record
                          /\ MaxRecords \in Nat

VARIABLES sizes,    \* the sizes of the records on the page h
          ilen,     \* the size of the new record
          skip,     \* the offset of the new record
          cursor,   \* the page and the offset in bt_cursor
          record,   \* the record of h that was under the cursor
          nxt,      \* the records of h copied to the left page
          off,      \* the slots of the left page
          used,     \* the bytes of the left page
          bigkeycnt,   \* the overflow keys found where the split could have been
          pc        \* "copy", then "adjust", then "done"

vars == <<sizes, ilen, skip, record, cursor, nxt, off, used, bigkeycnt, pc>>

\* All the records, the new one in its place.
Slots == InsertAt(sizes, skip, ilen)

Init == /\ sizes \in UNION {[1 .. n -> Record] : n \in 1 .. MaxRecords}
        /\ ilen \in Record
        /\ Fits(sizes)
        /\ ~Fits(Append(sizes, ilen))
        /\ skip \in 1 .. Len(sizes) + 1
        /\ record \in DOMAIN sizes
        /\ cursor = [page |-> "h", index |-> record]
        /\ nxt = 0
        /\ off = 0
        /\ used = 0
        /\ bigkeycnt = 0
        /\ pc = "copy"

\* The next slot is the one left open for the new record, or takes a record.
Bytes == IF skip = off + 1 THEN ilen ELSE sizes[nxt + 1]

\* Copying too much onto the left page.
Overrun == skip <= off + 1 /\ used + Bytes >= Full

\* The split avoids an overflow key, four times at most; the new record's key
\* is not known to be one.
Avoid == skip # off + 1 /\ Bytes \in BigKey /\ bigkeycnt < 3

\* Mutant: more than half a page is enough.
MoreThanHalf(bytes) == bytes > Full \div 2

\* Mutant: the left page is filled up.
AllOfIt(bytes) == bytes >= Full

\* Half a page is enough for the left page.
Half(bytes) == bytes >= Full \div 2

\* One turn of the loop.
Copy == /\ pc = "copy"
        /\ nxt < Len(sizes)
        /\ ~Overrun
        /\ off' = off + 1
        /\ nxt' = IF skip = off + 1 THEN nxt ELSE nxt + 1
        /\ used' = used + Bytes
        /\ bigkeycnt' = IF Half(used') /\ Avoid THEN bigkeycnt + 1 ELSE bigkeycnt
        /\ pc' = IF Half(used') /\ ~Avoid THEN "adjust" ELSE "copy"
        /\ UNCHANGED <<sizes, ilen, skip, record, cursor>>

\* The loop ends at a slot that does not go to the left page any more.
Stop == /\ pc = "copy"
        /\ nxt < Len(sizes)
        /\ Overrun
        /\ pc' = "adjust"
        /\ UNCHANGED <<sizes, ilen, skip, record, cursor, nxt, off, used, bigkeycnt>>

\* The loop runs out of records; off has been incremented once more by then.
RunOut == /\ pc = "copy"
          /\ nxt = Len(sizes)
          /\ off' = off + 1
          /\ pc' = "adjust"
          /\ UNCHANGED <<sizes, ilen, skip, record, cursor, nxt, used, bigkeycnt>>

\* Mutant: the cursor makes way for a new record that is behind it.
MovedTooSoon == cursor.index + 1

\* The offset of the record under the cursor once the new one is in its place.
Moved == IF cursor.index >= skip THEN cursor.index + 1 ELSE cursor.index

\* The cursor is on the left page when it is among the first nxt records.
Adjust == /\ pc = "adjust"
          /\ cursor' = IF Moved <= nxt THEN [page |-> "l", index |-> Moved]
                       ELSE [page |-> "r", index |-> Moved - nxt]
          /\ pc' = "done"
          /\ UNCHANGED <<sizes, ilen, skip, record, nxt, off, used, bigkeycnt>>

Next == Copy \/ Stop \/ RunOut \/ Adjust

Spec == Init /\ [][Next]_vars
-----------------------------------------------------------------------------
Left  == SubSeq(Slots, 1, off)
Right == SubSeq(Slots, off + 1, Len(Slots))

NoBigKey == \A i \in DOMAIN Slots : Slots[i] \notin BigKey

\* The loop cuts where Cut says, whatever the records, overflow keys apart.
LoopIsCut == pc # "copy" /\ NoBigKey => off = Cut(Slots, skip)

\* Both pages have records and room for them.
GoodSplit == /\ Left # <<>> /\ Fits(Left)
             /\ Right # <<>> /\ Fits(Right)

\* The split is good when no record takes more than a quarter of the page and
\* none has an overflow key.
SmallRecordsSplit ==
  pc # "copy" /\ NoBigKey /\ (\A i \in DOMAIN Slots : Slots[i] <= Full \div 4) => GoodSplit

\* Where the record that was under the cursor is after the split: in slot
\* place, on the left page or, after its off slots, on the right one.
SameRecord == LET place == IF record >= skip THEN record + 1 ELSE record IN
              IF place <= off THEN [page |-> "l", index |-> place]
              ELSE [page |-> "r", index |-> place - off]

\* "the cursor has to be adjusted to point to the same record as before the
\* split" (bt_split.c:708): it does point there when the new record goes to the
\* right page, or to the left page after the record under the cursor.  (When
\* the new record goes to the left page before it, the cursor ends one record
\* too far: nxt does not count the new record.)
CursorFollowsApart == pc = "done" /\ (skip > off \/ record < skip) => cursor = SameRecord
=============================================================================
