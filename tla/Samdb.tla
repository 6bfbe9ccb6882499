------------------------------- MODULE Samdb --------------------------------
(***************************************************************************)
(* The string interface to the B-tree (samdb.c): databases opened under a  *)
(* handle of their own or as the global one, put, get and delete, and      *)
(* db_walk, which calls the user back for every record.  The B-tree is the *)
(* ordered dictionary with one cursor per database that Btree implements,  *)
(* with the three ways in which a put departs from it: it moves the cursor *)
(* off its record when it splits the page, it loses the record it was to   *)
(* replace, or it leaves the tree unusable.  (The fourth, a put that       *)
(* bt_fast leads to a freed page, is in Btree only.)                       *)
(*                                                                         *)
(* db_walk is not one step: between two calls of seq the user's function   *)
(* runs and may use the same database, walk it included, and all walks of  *)
(* a database share its cursor.  The user copies the key it was called     *)
(* with before it uses it in a put (it points into a page), and closes no  *)
(* database it is walking.                                                 *)
(***************************************************************************)
EXTENDS Integers, Sequences, SequencesExt

CONSTANTS MaxKey,
          Data,      \* the values of records: strings of bytes, 0 is the NUL
          None,
          Handle,    \* databases opened with a dbh
          Global,    \* the database opened without
          Buffer,    \* the lengths of the buffers of db_get
          MaxDepth   \* bound: walks within walks

ASSUME SamdbAssumption == /\ MaxKey \in Nat /\ MaxDepth \in Nat
                          /\ None \notin Data \cup Nat
                          /\ Global \notin Handle
                          /\ Data \subseteq Seq(0 .. 1)
                          /\ Buffer \subseteq Nat

Key == 1 .. MaxKey
Database == Handle \cup {Global}

D == INSTANCE Dictionary WITH dict <- None

VARIABLES db,     \* db[h]: the records and the cursor of database h
          fault,  \* fault[h]: what is wrong with it
          open,   \* the databases that are open
          walks,  \* the calls of db_walk in progress, the innermost last
          alive   \* the process has not exited

vars == <<db, fault, open, walks, alive>>

\* The cursor is behind the last record of its page, a record was read from
\* there, or __dbpanic has made every operation fail.
Fault == {"none", "lost", "wild", "panic"}

\* A db_walk: its database, whether it calls seq next or is in the user's
\* function, and the key it is at.  The rest is history: the keys it has met,
\* those that have been there since it began, whether another walk has used
\* the cursor, whether the key it is at was put again, and whether one below
\* the key it was at was put.
Walk == [h : Database, pc : {"seq", "func"}, last : Key \cup {None}, met : SUBSET Key,
         must : SUBSET Key, nested : BOOLEAN, again : BOOLEAN, lower : BOOLEAN]

TypeOK == /\ db \in [Database -> D!Dict]
          /\ fault \in [Database -> Fault]
          /\ open \subseteq Database
          /\ walks \in Seq(Walk) /\ Len(walks) <= MaxDepth
          /\ alive \in BOOLEAN

Init == /\ db = [h \in Database |-> D!New]
        /\ fault = [h \in Database |-> "none"]
        /\ open = {}
        /\ walks = <<>>
        /\ alive = TRUE

Top == Last(walks)

\* The user runs outside of db_walk, or in the function db_walk calls.
UserRuns == alive /\ (walks # <<>> => Top.pc = "func")

\* A step of the user on an open database.
Uses(h) == UserRuns /\ h \in open

Walked(h) == \E i \in DOMAIN walks : walks[i].h = h

\* The walks of h, noting something.
Note(h, note(_)) == [i \in DOMAIN walks |-> IF walks[i].h = h THEN note(walks[i]) ELSE walks[i]]
-----------------------------------------------------------------------------
(* db_open, db_close and exit *)

\* db_open; the global database is not opened twice (-EBUSY), and when dbopen
\* fails nothing changes.  A database that panicked is not opened again: what
\* its file holds is in Btree.
Open(h) == /\ UserRuns
           /\ h \notin open
           /\ fault[h] # "panic"
           /\ open' = open \cup {h}
           /\ db' = [db EXCEPT ![h] = D!Reopened(@)]
           /\ fault' = [fault EXCEPT ![h] = "none"]
           /\ UNCHANGED <<walks, alive>>

Close(h) == /\ Uses(h)
            /\ ~Walked(h)
            /\ open' = open \ {h}
            /\ UNCHANGED <<db, fault, walks, alive>>

\* exit: the handler of atexit closes the global database, and only that.
Exit == /\ UserRuns
        /\ open' = open \ {Global}
        /\ walks' = <<>>
        /\ alive' = FALSE
        /\ UNCHANGED <<db, fault>>
-----------------------------------------------------------------------------
(* db_put_raw, db_put, db_put_str and db_del.  One that fails and changes   *)
(* nothing (GET_DB, a page that cannot be read) is no step.                 *)

Works(h) == Uses(h) /\ fault[h] # "panic"

\* Mutant: bt_psplit moves the cursor when the new record is after it, too.
SlipsAlways(d, k) == d.at # None /\ ~d.gone

\* A put before the cursor on a full page: bt_psplit counts the new record twice
\* for a cursor behind it that is not on the left page.
Slips(d, k) == d.at # None /\ ~d.gone /\ k < d.at

\* What a put notes in the walks of h.
PutNoted(h, k) == Note(h, LAMBDA w : [w EXCEPT !.again = @ \/ w.last = k,
                                               !.lower = @ \/ (w.last # None /\ k < w.last)])

\* The cursor stays at its record or, if it slips, is one record too far on the
\* page, which may be behind the last one.
Put(h, k, v) ==
  /\ Works(h)
  /\ LET d == D!Stored(db[h], k, v) IN
     \/ db' = [db EXCEPT ![h] = d] /\ UNCHANGED fault
     \/ /\ Slips(db[h], k) /\ D!Following(d) # None
        /\ db' = [db EXCEPT ![h] = D!Moved(d, D!Following(d))]
        /\ UNCHANGED fault
     \/ /\ Slips(db[h], k)
        /\ db' = [db EXCEPT ![h] = D!Reopened(d)]
        /\ fault' = [fault EXCEPT ![h] = "lost"]
  /\ walks' = PutNoted(h, k)
  /\ UNCHANGED <<open, alive>>

Erased(h, k) == /\ k \in D!Present(db[h])
                /\ db' = [db EXCEPT ![h] = D!Removed(@, k)]
                /\ walks' = Note(h, LAMBDA w : [w EXCEPT !.must = @ \ {k}])

\* A put that deleted the record it replaces, and then could not split the page.
PutFails(h, k) == /\ Works(h)
                  /\ Erased(h, k)
                  /\ UNCHANGED <<fault, open, alive>>

\* A put whose split failed half way (__dbpanic).
PutPanics(h) == /\ Works(h)
                /\ fault' = [fault EXCEPT ![h] = "panic"]
                /\ UNCHANGED <<db, open, walks, alive>>

\* A key that is not there changes nothing.
Del(h, k) == /\ Works(h)
             /\ Erased(h, k)
             /\ UNCHANGED <<fault, open, alive>>
-----------------------------------------------------------------------------
(* db_walk *)

Begin(h) == /\ Uses(h)
            /\ Len(walks) < MaxDepth
            /\ walks' = Append(Note(h, LAMBDA w : [w EXCEPT !.nested = TRUE]),
                               [h |-> h, pc |-> "seq", last |-> None, met |-> {},
                                must |-> D!Present(db[h]), nested |-> FALSE,
                                again |-> FALSE, lower |-> FALSE])
            /\ UNCHANGED <<db, fault, open, alive>>

Seeks == alive /\ walks # <<>> /\ Top.pc = "seq"

\* Mutant: the flag stays R_FIRST.
FirstAlways(w) == D!First(db[w.h])

\* R_NEXT: if the record under the cursor is gone its key is looked up again.
Advance(d) == IF d.at # None /\ d.gone THEN D!From(d, d.at) ELSE D!Following(d)

\* The key seq returns: R_FIRST the first time, R_NEXT after that.
NextKey(w) == IF fault[w.h] = "panic" THEN None
              ELSE IF w.last = None THEN D!First(db[w.h]) ELSE Advance(db[w.h])

\* R_NEXT from behind the last record of a page.
Astray(w) == w.last # None /\ fault[w.h] = "lost"

\* seq found a record, and the function is called with it.
Meet == /\ Seeks
        /\ ~Astray(Top)
        /\ LET k == NextKey(Top) IN
           /\ k # None
           /\ db' = [db EXCEPT ![Top.h] = D!Moved(@, k)]
           /\ walks' = [walks EXCEPT ![Len(walks)] =
                          [Top EXCEPT !.pc = "func", !.last = k, !.met = @ \cup {k},
                                      !.again = FALSE]]
        /\ fault' = [fault EXCEPT ![Top.h] = "none"]
        /\ UNCHANGED <<open, alive>>

\* seq found none, or failed: db_walk returns what the function returned last, 0.
Ended == /\ Seeks
         /\ ~Astray(Top)
         /\ NextKey(Top) = None
         /\ walks' = Front(walks)
         /\ UNCHANGED <<db, fault, open, alive>>

\* seq takes whatever is behind the last offset of the page for the next one:
\* undefined, and nothing is modelled after it.
Wild == /\ Seeks
        /\ Astray(Top)
        /\ fault' = [fault EXCEPT ![Top.h] = "wild"]
        /\ alive' = FALSE
        /\ UNCHANGED <<db, open, walks>>

\* The function returns 0, and the walk goes on, or something else, which
\* db_walk returns.
FuncReturns == /\ alive
               /\ walks # <<>>
               /\ Top.pc = "func"
               /\ \/ walks' = [walks EXCEPT ![Len(walks)].pc = "seq"]
                  \/ walks' = Front(walks)
               /\ UNCHANGED <<db, fault, open, alive>>
-----------------------------------------------------------------------------
Next == \/ \E h \in Database :
             \/ Open(h) \/ Close(h) \/ Begin(h) \/ PutPanics(h)
             \/ \E k \in Key : Del(h, k) \/ PutFails(h, k) \/ \E v \in Data : Put(h, k, v)
        \/ Meet \/ Ended \/ Wild \/ FuncReturns
        \/ Exit

\* seq and the user's functions return.
Fairness == WF_vars(Meet) /\ WF_vars(Ended) /\ WF_vars(Wild) /\ WF_vars(FuncReturns)

Spec == Init /\ [][Next]_vars
FairSpec == Spec /\ Fairness
-----------------------------------------------------------------------------
(* db_get_raw, db_get and db_get_str: what they return and leave in the     *)
(* caller's buffer of n bytes.                                              *)

EINVAL == 22
RET_SPECIAL == 1   \* what RET_ERROR, -1, comes to as well
Unset == 2   \* a byte nobody has written

GetRaw(h, k, n) ==
  LET fail(rc) == [rc |-> -rc, buf |-> [i \in 1 .. n |-> Unset]]
      val == db[h].rec[k]
      len == IF n > Len(val) THEN Len(val) ELSE n IN
  IF h \notin open THEN fail(EINVAL)
  ELSE IF val = None \/ fault[h] = "panic" THEN fail(RET_SPECIAL)
  ELSE [rc |-> len, buf |-> [i \in 1 .. n |-> IF i <= len THEN val[i] ELSE Unset]]

\* Mutant: a value that fills the buffer is left without a NUL.
GetStrUncut(h, k, n) ==
  LET r == GetRaw(h, k, n) IN
  IF r.rc <= 0 \/ r.rc = n THEN r ELSE [r EXCEPT !.buf[r.rc + 1] = 0]

GetStr(h, k, n) ==
  LET r == GetRaw(h, k, n) IN
  IF r.rc <= 0 THEN r
  ELSE IF r.buf[r.rc] = 0 THEN [r EXCEPT !.rc = @ - 1]
  ELSE IF r.rc = n THEN [r EXCEPT !.buf[n] = 0]
  ELSE [r EXCEPT !.buf[r.rc + 1] = 0]

\* The C string at the start of some bytes, as far as they go.
CString(s) == SubSeq(s, 1, D!Least({i \in DOMAIN s : s[i] = 0} \cup {Len(s) + 1}) - 1)
-----------------------------------------------------------------------------
\* "db_get_str() guarantees a null terminated string if the return > 0"
\* (samdb.c:127): it is the string that was put or, in a short buffer, as much
\* of it as fits before the NUL.
GetStrIsString ==
  \A h \in open, k \in Key, n \in Buffer :
    LET r == GetStr(h, k, n)
        s == CString(db[h].rec[k]) IN
    r.rc > 0 => /\ \E i \in 1 .. n : r.buf[i] = 0
                /\ CString(r.buf) = SubSeq(s, 1, IF Len(s) < n THEN Len(s) ELSE n - 1)

\* A walk that ends by itself has met every record that was there from its
\* beginning to its end, whatever the user's function deletes and whatever it
\* puts at or above the key it was called with.  A put below that key may split
\* the page and move the cursor past a record (bt_split.c:714-722), another walk
\* of the database shares the cursor, and a tree that panicked ends every walk.
WalkMeetsAll ==
  Seeks /\ fault[Top.h] = "none" /\ NextKey(Top) = None /\ ~Top.nested /\ ~Top.lower =>
    Top.must \subseteq Top.met

\* The keys come in order, each once, even to a function that puts keys below
\* its own, until the cursor is behind a page's end or another walk moves it.
\* When the function puts the key it was called with, that key comes again
\* although the cursor was at it (bt_seq.c:263 against man/dbopen.3:293-294).
WalkInOrder ==
  Seeks /\ fault[Top.h] = "none" /\ Top.last # None /\ ~Top.nested /\ ~Top.again
    /\ NextKey(Top) # None => NextKey(Top) > Top.last

\* Walks end, deletes or not, unless the user's functions go on putting records
\* or beginning walks for ever, or a walk goes on from behind a page's end.
WalkEnds == \/ []<>(walks = <<>>)
            \/ <>(\E h \in Database : fault[h] = "wild")
            \/ []<><<\E h \in Database, k \in Key, v \in Data : Put(h, k, v)>>_vars
            \/ []<><<\E h \in Database : Begin(h)>>_vars
=============================================================================
