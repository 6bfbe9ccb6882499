----------------------------- MODULE Dictionary -----------------------------
(***************************************************************************)
(* What man/dbopen.3 promises of a B-tree: an ordered dictionary with one  *)
(* cursor.  The cursor is at the key that seq returned last, and only seq  *)
(* moves it; put and del never do, even when they replace or delete the    *)
(* record it is at, which is noted in gone.                                *)
(***************************************************************************)
EXTENDS Naturals, FiniteSetsExt

CONSTANTS MaxKey, Data, None

Key == 1 .. MaxKey

VARIABLE dict   \* the records and the cursor

Dict == [rec : [Key -> Data \cup {None}], at : Key \cup {None}, gone : BOOLEAN]

New == [rec |-> [k \in Key |-> None], at |-> None, gone |-> FALSE]

Present(d) == {k \in Key : d.rec[k] # None}

\* The least and the greatest key of a set, None if it is empty.
Least(S) == IF S = {} THEN None ELSE Min(S)
Greatest(S) == IF S = {} THEN None ELSE Max(S)

Stored(d, k, v) == [d EXCEPT !.rec[k] = v, !.gone = @ \/ (d.at = k /\ d.rec[k] # None)]
Removed(d, k) == [d EXCEPT !.rec[k] = None, !.gone = @ \/ d.at = k]
Reopened(d) == [d EXCEPT !.at = None, !.gone = FALSE]

\* "the smallest key greater than or equal to the specified key" (R_CURSOR)
From(d, k) == Least({x \in Present(d) : x >= k})

\* "The first key/data pair of the database", and the last one
First(d) == Least(Present(d))
Last(d) == Greatest(Present(d))

\* "the key/data pair immediately after the cursor.  If the cursor is not yet
\* set, this is the same as the R_FIRST flag.", and the one before it
Following(d) == IF d.at = None THEN First(d) ELSE Least({x \in Present(d) : x > d.at})
Preceding(d) == IF d.at = None THEN Last(d) ELSE Greatest({x \in Present(d) : x < d.at})

\* The cursor after a seq that returned the record of k.
Moved(d, k) == [d EXCEPT !.at = k, !.gone = FALSE]
-----------------------------------------------------------------------------
Init == dict = New

Put(k, v) == dict' = Stored(dict, k, v)
Del(k) == k \in Present(dict) /\ dict' = Removed(dict, k)

\* A seq that finds nothing leaves the cursor alone.
Seq(k) == k # None /\ dict' = Moved(dict, k)
SeqFirst == Seq(First(dict))
SeqLast == Seq(Last(dict))
SeqCursor(k) == Seq(From(dict, k))
SeqNext == Seq(Following(dict))
SeqPrev == Seq(Preceding(dict))

Reopen == dict' = Reopened(dict)

\* get, sync, and whatever fails or finds nothing
Same == UNCHANGED dict

Next == \/ \E k \in Key : Del(k) \/ SeqCursor(k) \/ \E v \in Data : Put(k, v)
        \/ SeqFirst \/ SeqLast \/ SeqNext \/ SeqPrev
        \/ Reopen

Spec == Init /\ [][Next]_dict
=============================================================================
