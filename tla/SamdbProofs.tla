---------------------------- MODULE SamdbProofs -----------------------------
(***************************************************************************)
(* db_walk for any number of databases, keys and walks within walks: as    *)
(* long as no other walk of the same database moves the cursor, the keys   *)
(* come in order, and no record is missed unless the callbacks put records *)
(* below the walk.  And db_get_str for any value and any buffer.           *)
(***************************************************************************)
EXTENDS Samdb, FiniteSetTheorems, TLAPS

\* Every non-empty set of natural numbers has a least element.
LEMMA LeastNumber ==
  ASSUME NEW S, S \subseteq Nat, S # {}
  PROVE  \E x \in S : \A y \in S : x <= y
<1> DEFINE R == {ss \in Nat \X Nat : ss[1] < ss[2]}
<1>1. IsWellFoundedOn(R, Nat)
  BY NatLessThanWellFounded, Zenon DEF OpToRel
<1>2. PICK x \in S : \A y \in S : ~(<<y, x>> \in R)
  <2> HIDE DEF R
  <2> QED
    BY <1>1, WFMin
<1>3. ASSUME NEW y \in S PROVE x <= y
  <2>1. x \in Nat /\ y \in Nat
    OBVIOUS
  <2>2. ~(<<y, x>>[1] < <<y, x>>[2])
    BY <1>2, <2>1
  <2>3. QED
    BY <2>1, <2>2
<1>4. QED
  BY <1>3

\* The first key of a set of keys
LEMMA LeastIs ==
  ASSUME NEW S, S \subseteq Nat
  PROVE  /\ S = {} => D!Least(S) = None
         /\ S # {} => D!Least(S) \in S /\ \A x \in S : D!Least(S) <= x
<1>1. CASE S = {}
  BY <1>1 DEF D!Least
<1>2. CASE S # {}
  <2>1. \E x \in S : \A y \in S : x <= y
    BY <1>2, LeastNumber
  <2>2. QED
    BY <1>2, <2>1 DEF D!Least, D!Min
<1>3. QED
  BY <1>1, <1>2

LEMMA Keys == Key \subseteq Nat /\ D!Key = Key /\ None \notin Key /\ None \notin Data
BY SamdbAssumption DEF Key, D!Key

LEMMA LeastKey ==
  ASSUME NEW S, S \subseteq Key
  PROVE  /\ D!Least(S) = None <=> S = {}
         /\ D!Least(S) # None => D!Least(S) \in S /\ \A x \in S : D!Least(S) <= x
BY LeastIs, Keys
-----------------------------------------------------------------------------
(* The dictionary *)

LEMMA DictOps ==
  ASSUME NEW d \in D!Dict, NEW k \in Key
  PROVE  /\ \A v \in Data : D!Stored(d, k, v) \in D!Dict
         /\ D!Removed(d, k) \in D!Dict
         /\ D!Moved(d, k) \in D!Dict
         /\ D!Reopened(d) \in D!Dict
         /\ D!Present(d) \subseteq Key
<1>1. \A v \in Data : D!Stored(d, k, v) \in D!Dict
  BY Keys DEF D!Dict, D!Stored
<1>2. D!Removed(d, k) \in D!Dict
  BY Keys DEF D!Dict, D!Removed
<1>3. D!Moved(d, k) \in D!Dict
  BY Keys DEF D!Dict, D!Moved
<1>4. D!Reopened(d) \in D!Dict
  BY DEF D!Dict, D!Reopened
<1>5. D!Present(d) \subseteq Key
  BY Keys DEF D!Present
<1>6. QED
  BY <1>1, <1>2, <1>3, <1>4, <1>5

LEMMA NewDict == D!New \in D!Dict
BY DEF D!Dict, D!New

\* What seq finds with R_FIRST.
LEMMA FirstIs ==
  ASSUME NEW d \in D!Dict
  PROVE  /\ D!First(d) = None <=> D!Present(d) = {}
         /\ D!First(d) # None =>
              D!First(d) \in D!Present(d) /\ \A x \in D!Present(d) : D!First(d) <= x
BY LeastKey, Keys DEF D!First, D!Present

\* A cursor that slips goes forwards, to a record that is there.
LEMMA FollowingIs ==
  ASSUME NEW d \in D!Dict, d.at # None, D!Following(d) # None
  PROVE  D!Following(d) \in Key /\ D!Following(d) > d.at
<1> DEFINE S == {x \in D!Present(d) : x > d.at}
<1>1. D!Following(d) = D!Least(S)
  BY DEF D!Following
<1>2. S \subseteq Key /\ \A x \in S : x > d.at
  BY Keys DEF D!Present
<1> HIDE DEF S
<1>3. QED
  BY <1>1, <1>2, LeastKey

\* What R_NEXT finds: the first key after the cursor or, when the record under it
\* is gone, the first one not before it.
LEMMA AdvanceIs ==
  ASSUME NEW d \in D!Dict, d.at # None
  PROVE  LET k == Advance(d) IN
         /\ k = None => \A x \in D!Present(d) : x <= d.at
         /\ k # None => /\ k \in D!Present(d)
                        /\ k > d.at \/ (d.gone /\ k = d.at)
                        /\ \A x \in D!Present(d) : x <= d.at \/ k <= x
<1>1. d.at \in Nat /\ \A x \in D!Present(d) : x \in Key /\ x \in Nat
  BY Keys DEF D!Present, D!Dict
<1>2. CASE d.gone
  <2> DEFINE S == {x \in D!Present(d) : x >= d.at}
  <2>1. Advance(d) = D!Least(S)
    BY <1>2 DEF Advance, D!From
  <2>2. S \subseteq Key /\ \A x \in D!Present(d) : x \notin S => x <= d.at
    BY <1>1
  <2>3. \A x \in S : x \in D!Present(d) /\ (x > d.at \/ x = d.at)
    BY <1>1
  <2> HIDE DEF S
  <2>4. CASE D!Least(S) = None
    <3>1. S = {}
      BY ONLY <2>2, <2>4, LeastKey
    <3>2. d.at \notin D!Present(d) \/ d.at <= d.at
      BY <1>1
    <3>3. QED
      BY <2>1, <2>2, <2>4, <3>1
  <2>5. CASE D!Least(S) # None
    BY <1>2, <2>1, <2>2, <2>3, <2>5, LeastKey
  <2>6. QED
    BY <2>4, <2>5
<1>3. CASE ~d.gone
  <2> DEFINE S == {x \in D!Present(d) : x > d.at}
  <2>1. Advance(d) = D!Least(S)
    BY <1>3 DEF Advance, D!Following
  <2>2. S \subseteq Key /\ \A x \in D!Present(d) : x \notin S => x <= d.at
    BY <1>1
  <2>3. \A x \in S : x \in D!Present(d) /\ x > d.at
    OBVIOUS
  <2> HIDE DEF S
  <2>4. QED
    BY <1>3, <2>1, <2>2, <2>3, LeastKey
<1>4. QED
  BY <1>2, <1>3
-----------------------------------------------------------------------------
(* A walk and its database *)

\* What a walk w knows of its database d with fault f: the records that must be met
\* are there and, unless another walk has used the cursor or it is lost, the cursor
\* is not before the key the walk is at, a record gone from under it there is there
\* again only if it was put again and, if nothing was put below, the cursor is at
\* that key and the records behind it have been met.
Follows(w, d, f) ==
  /\ w.must \subseteq D!Present(d)
  /\ ~w.nested /\ w.last # None /\ f = "none" =>
       /\ d.at \in Key /\ d.at >= w.last
       /\ d.at = w.last /\ d.gone /\ w.last \in D!Present(d) => w.again
       /\ ~w.lower => d.at = w.last /\ \A x \in w.must : x <= w.last => x \in w.met

\* A walk after a put of k.
PutTo(w, k) == [w EXCEPT !.again = @ \/ w.last = k, !.lower = @ \/ (w.last # None /\ k < w.last)]

LEMMA PutToIs ==
  ASSUME NEW w \in Walk, NEW k \in Key
  PROVE  LET u == PutTo(w, k) IN
         /\ u \in Walk /\ u.h = w.h /\ u.must = w.must /\ u.nested = w.nested /\ u.last = w.last
         /\ u.met = w.met /\ (w.again => u.again) /\ (w.last = k => u.again)
         /\ (w.lower => u.lower) /\ (w.last # None /\ k < w.last => u.lower)
BY DEF Walk, PutTo

LEMMA FollowsStored ==
  ASSUME NEW d \in D!Dict, NEW w \in Walk, NEW f, Follows(w, d, f), NEW k \in Key, NEW v \in Data
  PROVE  Follows(PutTo(w, k), D!Stored(d, k, v), f)
<1> DEFINE u == PutTo(w, k)
           e == D!Stored(d, k, v)
<1>1. /\ u.must = w.must /\ u.nested = w.nested /\ u.last = w.last
      /\ u.met = w.met /\ (w.again => u.again) /\ (w.last = k => u.again) /\ (w.lower => u.lower)
  BY PutToIs
<1>2. D!Present(e) = D!Present(d) \cup {k}
  BY Keys DEF D!Present, D!Stored, D!Dict
<1>3. e.at = d.at /\ (e.gone => d.gone \/ d.at = k)
  BY DEF D!Stored, D!Dict
<1> HIDE DEF u, e
<1>4. Follows(u, e, f)
  BY <1>1, <1>2, <1>3 DEF Follows
<1>5. QED
  BY <1>4 DEF u, e

\* The cursor slips: forwards, and only if something was put below the walk's key.
LEMMA FollowsSlip ==
  ASSUME NEW d \in D!Dict, NEW w \in Walk, NEW f, Follows(w, d, f), NEW k \in Key, NEW v \in Data,
         Slips(d, k), NEW e, e = D!Stored(d, k, v), D!Following(e) # None
  PROVE  Follows(PutTo(w, k), D!Moved(e, D!Following(e)), f)
<1> DEFINE u == PutTo(w, k)
           n == D!Following(e)
           m == D!Moved(e, n)
<1>1. /\ u.must = w.must /\ u.nested = w.nested /\ u.last = w.last /\ (w.lower => u.lower)
      /\ (w.last # None /\ k < w.last => u.lower)
  BY PutToIs
<1>2. e \in D!Dict /\ D!Present(e) = D!Present(d) \cup {k} /\ e.at = d.at
  <2>1. e \in D!Dict
    BY DictOps
  <2>2. D!Present(e) = D!Present(d) \cup {k}
    BY Keys DEF D!Present, D!Stored, D!Dict
  <2>3. e.at = d.at
    BY DEF D!Stored, D!Dict
  <2>4. QED
    BY <2>1, <2>2, <2>3
<1>3. d.at # None /\ ~d.gone /\ k < d.at
  BY DEF Slips
<1>4. n \in Key /\ n > d.at
  BY <1>2, <1>3, FollowingIs
<1>5. m.at = n /\ D!Present(m) = D!Present(e)
  BY <1>2, Keys DEF D!Moved, D!Dict, D!Present
<1>6. Key \subseteq Nat /\ d.at \in Key /\ w.last \in Key \cup {None}
  BY <1>3, Keys DEF D!Dict, Walk
<1> HIDE DEF u, n, m
<1>7. ASSUME ~w.nested, w.last # None, f = "none"
      PROVE  m.at > w.last /\ u.lower
  <2>1. d.at >= w.last /\ (~w.lower => d.at = w.last)
    BY <1>7 DEF Follows
  <2>2. w.last \in Nat /\ d.at \in Nat /\ n \in Nat /\ k \in Nat
    BY <1>4, <1>6, <1>7
  <2>3. n > w.last
    BY <1>4, <2>1, <2>2
  <2>4. CASE w.lower
    BY <1>1, <1>5, <2>3, <2>4
  <2>5. CASE ~w.lower
    BY <1>1, <1>3, <1>5, <1>7, <2>1, <2>3, <2>5
  <2>6. QED
    BY <2>4, <2>5
<1>8. Follows(u, m, f)
  <2>1. u.must \subseteq D!Present(m)
    BY <1>1, <1>2, <1>5 DEF Follows
  <2>2. ASSUME ~u.nested, u.last # None, f = "none"
        PROVE  m.at \in Key /\ m.at >= u.last /\ m.at # u.last /\ u.lower
    <3>1. m.at > w.last /\ u.lower
      BY <1>1, <1>7, <2>2
    <3>2. m.at \in Nat /\ w.last \in Nat /\ m.at \in Key
      BY <1>1, <1>4, <1>5, <1>6, <2>2
    <3>3. QED
      BY <1>1, <3>1, <3>2
  <2>3. QED
    BY <2>1, <2>2 DEF Follows
<1>9. QED
  BY <1>8 DEF u, n, m

\* The cursor is lost.
LEMMA FollowsLost ==
  ASSUME NEW d \in D!Dict, NEW w \in Walk, NEW f, Follows(w, d, f), NEW k \in Key, NEW v \in Data
  PROVE  Follows(PutTo(w, k), D!Reopened(D!Stored(d, k, v)), "lost")
<1> DEFINE u == PutTo(w, k)
           e == D!Reopened(D!Stored(d, k, v))
<1>1. u.must = w.must
  BY PutToIs
<1>2. D!Present(e) = D!Present(d) \cup {k}
  BY Keys DEF D!Present, D!Stored, D!Reopened, D!Dict
<1> HIDE DEF u, e
<1>3. Follows(u, e, "lost")
  BY <1>1, <1>2 DEF Follows
<1>4. QED
  BY <1>3 DEF u, e

\* So it is when the tree panics, or a walk has gone wild.
LEMMA FollowsFault ==
  ASSUME NEW d, NEW w, NEW f, NEW g, Follows(w, d, f), g # "none"
  PROVE  Follows(w, d, g)
BY DEF Follows

LEMMA FollowsRemoved ==
  ASSUME NEW d \in D!Dict, NEW w \in Walk, NEW f, Follows(w, d, f), NEW k \in Key
  PROVE  LET u == [w EXCEPT !.must = @ \ {k}] IN
         u \in Walk /\ Follows(u, D!Removed(d, k), f)
<1> DEFINE u == [w EXCEPT !.must = @ \ {k}]
           e == D!Removed(d, k)
<1>1. /\ u \in Walk /\ u.must = w.must \ {k} /\ u.nested = w.nested /\ u.last = w.last
      /\ u.met = w.met /\ u.again = w.again /\ u.lower = w.lower
  BY DEF Walk
<1>2. D!Present(e) = D!Present(d) \ {k}
  BY Keys DEF D!Present, D!Removed, D!Dict
<1>3. e.at = d.at /\ (e.gone => d.gone \/ d.at = k)
  BY DEF D!Removed, D!Dict
<1> HIDE DEF u, e
<1>4. Follows(u, e, f)
  BY <1>1, <1>2, <1>3 DEF Follows
<1>5. QED
  BY <1>1, <1>4 DEF u, e

LEMMA FollowsNested ==
  ASSUME NEW d \in D!Dict, NEW w \in Walk, NEW f, Follows(w, d, f)
  PROVE  LET u == [w EXCEPT !.nested = TRUE] IN u \in Walk /\ u.nested /\ Follows(u, d, f)
<1> DEFINE u == [w EXCEPT !.nested = TRUE]
<1>1. u \in Walk /\ u.must = w.must /\ u.nested
  BY DEF Walk
<1> HIDE DEF u
<1>2. Follows(u, d, f)
  BY <1>1 DEF Follows
<1>3. QED
  BY <1>1, <1>2 DEF u

\* Where a walk that follows its database goes next: forwards, or to the key it is
\* at if that was put again, and past no record that must be met unless something
\* was put below.
LEMMA NextOf ==
  ASSUME NEW w \in Walk, NEW d \in D!Dict, db[w.h] = d, Follows(w, d, fault[w.h]), ~w.nested,
         fault[w.h] = "none" \/ (w.last = None /\ fault[w.h] # "panic")
  PROVE  /\ NextKey(w) = None /\ ~w.lower => w.must \subseteq w.met
         /\ NextKey(w) # None =>
              /\ w.last # None => NextKey(w) > w.last \/ (w.again /\ NextKey(w) = w.last)
              /\ w.last = None \/ ~w.lower =>
                   \A x \in w.must : x <= NextKey(w) => x \in w.met \cup {NextKey(w)}
<1>1. /\ w.must \subseteq D!Present(d)
      /\ \A x \in D!Present(d) : x \in Key /\ x \in Nat
  BY Keys DEF D!Present, Follows
<1>2. CASE w.last = None
  <2>1. NextKey(w) = D!First(d)
    BY <1>2 DEF NextKey
  <2>2. CASE D!First(d) = None
    BY <1>1, <1>2, <2>1, <2>2, FirstIs
  <2>3. CASE D!First(d) # None
    <3>1. D!First(d) \in D!Present(d) /\ \A x \in D!Present(d) : D!First(d) <= x
      BY <2>3, FirstIs
    <3>2. \A x \in w.must : x <= D!First(d) => x = D!First(d)
      BY <1>1, <3>1
    <3>3. QED
      BY <1>1, <1>2, <2>1, <2>3, <3>1, <3>2
  <2>4. QED
    BY <2>2, <2>3
<1>3. CASE w.last # None
  <2>1. /\ NextKey(w) = Advance(d) /\ d.at # None
        /\ d.at \in Nat /\ w.last \in Nat /\ d.at >= w.last
        /\ d.at = w.last /\ d.gone /\ w.last \in D!Present(d) => w.again
        /\ ~w.lower => d.at = w.last /\ \A x \in w.must : x <= w.last => x \in w.met
    BY <1>3, Keys DEF NextKey, Follows, Walk
  <2>2. CASE Advance(d) = None
    <3>1. \A x \in D!Present(d) : x <= d.at
      BY <2>1, <2>2, AdvanceIs
    <3>2. QED
      BY <1>1, <2>1, <2>2, <3>1
  <2>3. CASE Advance(d) # None
    <3>1. /\ Advance(d) \in D!Present(d)
          /\ Advance(d) > d.at \/ (d.gone /\ Advance(d) = d.at)
          /\ \A x \in D!Present(d) : x <= d.at \/ Advance(d) <= x
      BY <2>1, <2>3, AdvanceIs
    <3>2. Advance(d) \in Nat
      BY <1>1, <3>1
    <3>3. Advance(d) > w.last \/ (w.again /\ Advance(d) = w.last)
      BY <2>1, <3>1, <3>2
    <3>4. ASSUME ~w.lower PROVE \A x \in w.must : x <= Advance(d) => x \in w.met \cup {Advance(d)}
      BY <1>1, <2>1, <3>1, <3>2, <3>4
    <3>5. QED
      BY <1>3, <2>1, <2>3, <3>3, <3>4
  <2>4. QED
    BY <2>2, <2>3
<1>4. QED
  BY <1>2, <1>3

\* seq returns keys.
LEMMA NextIsKey ==
  ASSUME NEW w \in Walk, NEW d \in D!Dict, db[w.h] = d, NextKey(w) # None
  PROVE  NextKey(w) \in Key
<1>1. CASE NextKey(w) = D!First(d)
  BY <1>1, FirstIs, Keys DEF D!Present
<1>2. CASE NextKey(w) # D!First(d)
  <2>1. NextKey(w) = Advance(d) /\ d.at # None
    BY <1>2 DEF NextKey, Advance, D!Following
  <2>2. QED
    BY <2>1, AdvanceIs, Keys DEF D!Present
<1>3. QED
  BY <1>1, <1>2

LEMMA FollowsMoved ==
  ASSUME NEW w \in Walk, NEW d \in D!Dict, db[w.h] = d, Follows(w, d, fault[w.h]), NextKey(w) # None,
         fault[w.h] \in Fault \ {"wild"}, ~Astray(w)
  PROVE  LET u == [w EXCEPT !.pc = "func", !.last = NextKey(w), !.met = @ \cup {NextKey(w)},
                            !.again = FALSE] IN
         NextKey(w) \in Key /\ u \in Walk /\ Follows(u, D!Moved(d, NextKey(w)), "none")
<1> DEFINE k == NextKey(w)
           u == [w EXCEPT !.pc = "func", !.last = k, !.met = @ \cup {k}, !.again = FALSE]
           e == D!Moved(d, k)
<1>1. k \in Key
  BY NextIsKey
<1>2. ~w.nested /\ ~w.lower => \A x \in w.must : x <= k => x \in w.met \cup {k}
  <2>1. fault[w.h] # "panic"
    BY DEF NextKey
  <2>2. fault[w.h] = "none" \/ (w.last = None /\ fault[w.h] # "panic")
    BY <2>1 DEF Fault, Astray
  <2>3. QED
    BY <2>2, NextOf
<1> HIDE DEF k
<1>3. /\ u \in Walk /\ u.must = w.must /\ u.nested = w.nested /\ u.last = k
      /\ u.met = w.met \cup {k} /\ u.lower = w.lower
  BY <1>1 DEF Walk
<1>4. e.at = k /\ e.gone = FALSE /\ D!Present(e) = D!Present(d) /\ k >= k
  BY <1>1, Keys DEF D!Moved, D!Dict, D!Present
<1> HIDE DEF u, e
<1>5. Follows(u, e, "none")
  BY <1>1, <1>2, <1>3, <1>4 DEF Follows
<1>6. QED
  BY <1>1, <1>3, <1>5 DEF u, e, k

\* Another walk's move leaves alone what a nested walk knows.
LEMMA FollowsOther ==
  ASSUME NEW d \in D!Dict, NEW w \in Walk, NEW f, NEW g, Follows(w, d, f), w.nested, NEW k \in Key
  PROVE  Follows(w, D!Moved(d, k), g)
<1>1. D!Present(D!Moved(d, k)) = D!Present(d)
  BY Keys DEF D!Moved, D!Dict, D!Present
<1>2. QED
  BY <1>1 DEF Follows
-----------------------------------------------------------------------------
(* The inductive invariant *)

\* Of the walks of one database, all but the innermost know that they are nested.
OneCursor == \A i, j \in DOMAIN walks : i < j /\ walks[i].h = walks[j].h => walks[i].nested

IInv == /\ TypeOK
        /\ \A i \in DOMAIN walks : walks[i].h \in open
        /\ \A i \in DOMAIN walks : Follows(walks[i], db[walks[i].h], fault[walks[i].h])
        /\ OneCursor
        /\ alive => \A h \in Database : fault[h] # "wild"

LEMMA WalksType ==
  ASSUME TypeOK
  PROVE  /\ Len(walks) \in Nat /\ DOMAIN walks = 1 .. Len(walks)
         /\ \A i \in DOMAIN walks : /\ walks[i] \in Walk /\ walks[i].h \in Database
                                    /\ db[walks[i].h] \in D!Dict
                                    /\ fault[walks[i].h] \in Fault
         /\ walks # <<>> => Len(walks) \in DOMAIN walks /\ Top = walks[Len(walks)]
<1>1. walks \in Seq(Walk)
  BY DEF TypeOK
<1>2. Len(walks) \in Nat /\ DOMAIN walks = 1 .. Len(walks)
  BY <1>1
<1>3. \A i \in DOMAIN walks : walks[i] \in Walk
  BY <1>1
<1>4. \A i \in DOMAIN walks : /\ walks[i].h \in Database /\ db[walks[i].h] \in D!Dict
                              /\ fault[walks[i].h] \in Fault
  BY <1>3 DEF Walk, TypeOK
<1>5. walks # <<>> => Len(walks) # 0
  BY <1>1
<1>6. QED
  BY <1>2, <1>3, <1>4, <1>5 DEF Top, Last

\* Most steps end walks or change what they note, and begin none.
LEMMA KeepIInv ==
  ASSUME IInv, db' \in [Database -> D!Dict], open' \subseteq Database, alive' \in BOOLEAN,
         fault' \in [Database -> Fault], alive' => \A h \in Database : fault'[h] # "wild",
         NEW n \in 0 .. Len(walks), DOMAIN walks' = 1 .. n, walks' \in Seq(Walk),
         \A i \in 1 .. n : /\ walks'[i].h = walks[i].h /\ walks'[i].h \in open'
                           /\ walks[i].nested => walks'[i].nested
                           /\ Follows(walks'[i], db'[walks'[i].h], fault'[walks'[i].h])
  PROVE  IInv'
<1>1. Len(walks) \in Nat /\ DOMAIN walks = 1 .. Len(walks) /\ Len(walks) <= MaxDepth
  BY DEF IInv, TypeOK
<1>2. n \in Nat /\ 1 .. n \subseteq DOMAIN walks
  BY <1>1
<1>3. Len(walks') = n
  BY <1>2
<1>4. TypeOK'
  <2>1. Len(walks') <= MaxDepth
    BY <1>1, <1>3, SamdbAssumption
  <2>2. QED
    BY <2>1 DEF TypeOK
<1>5. OneCursor'
  <2> SUFFICES ASSUME NEW i \in 1 .. n, NEW j \in 1 .. n, i < j, walks'[i].h = walks'[j].h
               PROVE  walks'[i].nested
    BY DEF OneCursor
  <2>1. walks[i].nested
    BY <1>2 DEF IInv, OneCursor
  <2>2. QED
    BY <2>1
<1>6. QED
  BY <1>4, <1>5 DEF IInv

LEMMA InitIInv == Init => IInv
<1> SUFFICES ASSUME Init PROVE IInv
  OBVIOUS
<1>1. walks \in Seq(Walk) /\ Len(walks) = 0 /\ DOMAIN walks = {}
  BY DEF Init
<1>2. TypeOK
  BY <1>1, NewDict, SamdbAssumption DEF Init, TypeOK, Fault
<1>3. QED
  BY <1>1, <1>2 DEF Init, IInv, OneCursor

\* The outermost walks go on when the innermost ends.
LEMMA FrontIInv ==
  ASSUME IInv, walks # <<>>, walks' = Front(walks), UNCHANGED <<db, fault, open, alive>>
  PROVE  IInv'
<1> DEFINE n == Len(walks) - 1
<1>1. TypeOK /\ Len(walks) \in Nat /\ DOMAIN walks = 1 .. Len(walks) /\ Len(walks) # 0
  BY WalksType DEF IInv
<1>2. n \in 0 .. Len(walks) /\ 1 .. n \subseteq DOMAIN walks
  BY <1>1
<1>3. walks' = [i \in 1 .. n |-> walks[i]]
  BY <1>1 DEF Front
<1>4. walks' \in Seq(Walk) /\ DOMAIN walks' = 1 .. n /\ \A i \in 1 .. n : walks'[i] = walks[i]
  BY <1>1, <1>2, <1>3, WalksType
<1> HIDE DEF n
<1>5. QED
  BY <1>1, <1>2, <1>4, KeepIInv DEF IInv, TypeOK

\* The innermost walk changes, in what it knows or in the place of its cursor.
LEMMA TopIInv ==
  ASSUME IInv, walks # <<>>, NEW u \in Walk,
         walks' = [walks EXCEPT ![Len(walks)] = u],
         u.h = Top.h, Top.nested => u.nested, UNCHANGED <<open, alive>>,
         fault' \in [Database -> Fault], alive' => \A h \in Database : fault'[h] # "wild",
         db' \in [Database -> D!Dict], Follows(u, db'[u.h], fault'[u.h]),
         \A i \in DOMAIN walks \ {Len(walks)} : Follows(walks[i], db'[walks[i].h], fault'[walks[i].h])
  PROVE  IInv'
<1>1. TypeOK
  BY DEF IInv
<1>2. Len(walks) \in DOMAIN walks /\ Top = walks[Len(walks)] /\ DOMAIN walks = 1 .. Len(walks)
      /\ Len(walks) \in Nat
  BY <1>1, WalksType
<1>3. /\ walks' \in Seq(Walk) /\ DOMAIN walks' = 1 .. Len(walks)
      /\ walks'[Len(walks)] = u
      /\ \A i \in DOMAIN walks \ {Len(walks)} : walks'[i] = walks[i]
  BY <1>1, <1>2 DEF TypeOK
<1>4. \A i \in 1 .. Len(walks) :
        /\ walks'[i].h = walks[i].h /\ walks'[i].h \in open'
        /\ walks[i].nested => walks'[i].nested
        /\ Follows(walks'[i], db'[walks'[i].h], fault'[walks'[i].h])
  <2> TAKE i \in 1 .. Len(walks)
  <2>1. walks[i].h \in open'
    BY <1>2 DEF IInv
  <2>2. CASE i = Len(walks)
    BY <1>2, <1>3, <2>1, <2>2
  <2>3. CASE i # Len(walks)
    <3>1. i \in DOMAIN walks \ {Len(walks)}
      BY <1>2, <2>3
    <3>2. walks'[i] = walks[i] /\ Follows(walks[i], db'[walks[i].h], fault'[walks[i].h])
      BY <1>3, <3>1
    <3>3. QED
      BY <2>1, <3>2
  <2>4. QED
    BY <2>2, <2>3
<1>5. open' \subseteq Database /\ alive' \in BOOLEAN /\ Len(walks) \in 0 .. Len(walks)
  BY <1>1, <1>2 DEF TypeOK
<1>6. QED
  BY <1>3, <1>4, <1>5, KeepIInv

\* A step that notes something in the walks of database h and changes no other.
LEMMA NoteIInv ==
  ASSUME IInv, NEW h \in Database, UNCHANGED <<open, alive>>,
         db' \in [Database -> D!Dict], \A g \in Database \ {h} : db'[g] = db[g] /\ fault'[g] = fault[g],
         fault' \in [Database -> Fault], alive' => \A g \in Database : fault'[g] # "wild",
         DOMAIN walks' = DOMAIN walks, Len(walks') = Len(walks),
         walks' = [i \in DOMAIN walks |-> walks'[i]],
         \A i \in DOMAIN walks :
           IF walks[i].h = h
           THEN /\ walks'[i] \in Walk /\ walks'[i].h = h
                /\ walks[i].nested => walks'[i].nested
                /\ Follows(walks'[i], db'[h], fault'[h])
           ELSE walks'[i] = walks[i]
  PROVE  IInv'
<1>1. TypeOK
  BY DEF IInv
<1>2. Len(walks) \in Nat /\ DOMAIN walks = 1 .. Len(walks)
  BY <1>1, WalksType
<1>3. \A i \in DOMAIN walks : walks'[i] \in Walk
  BY <1>1, WalksType
<1>4. walks' \in Seq(Walk)
  BY <1>2, <1>3
<1>5. \A i \in 1 .. Len(walks) :
        /\ walks'[i].h = walks[i].h /\ walks'[i].h \in open'
        /\ walks[i].nested => walks'[i].nested
        /\ Follows(walks'[i], db'[walks'[i].h], fault'[walks'[i].h])
  BY <1>1, <1>2, WalksType DEF IInv
<1>6. open' \subseteq Database /\ alive' \in BOOLEAN /\ Len(walks) \in 0 .. Len(walks)
  BY <1>1, <1>2 DEF TypeOK
<1>7. QED
  BY <1>2, <1>4, <1>5, <1>6, KeepIInv

\* A walk begins: those of the same database are nested from now on.
LEMMA BeginIInv ==
  ASSUME IInv, NEW h \in Database, Begin(h)
  PROVE  IInv'
<1> DEFINE noted == Note(h, LAMBDA w : [w EXCEPT !.nested = TRUE])
           n == Len(walks)
           new == [h |-> h, pc |-> "seq", last |-> None, met |-> {},
                   must |-> D!Present(db[h]), nested |-> FALSE, again |-> FALSE, lower |-> FALSE]
<1>1. TypeOK /\ n \in Nat /\ DOMAIN walks = 1 .. n /\ db[h] \in D!Dict
  BY WalksType DEF IInv, TypeOK
<1>2. noted = [i \in 1 .. n |-> IF walks[i].h = h THEN [walks[i] EXCEPT !.nested = TRUE]
                                ELSE walks[i]]
  BY <1>1 DEF Note
<1>3. \A i \in 1 .. n : /\ noted[i] \in Walk /\ noted[i].h = walks[i].h
                        /\ walks[i].nested \/ walks[i].h = h => noted[i].nested
                        /\ Follows(noted[i], db[walks[i].h], fault[walks[i].h])
  <2> TAKE i \in 1 .. n
  <2>1. walks[i] \in Walk /\ db[walks[i].h] \in D!Dict /\ Follows(walks[i], db[walks[i].h], fault[walks[i].h])
    BY <1>1, WalksType DEF IInv
  <2>2. CASE walks[i].h = h
    <3>1. noted[i] = [walks[i] EXCEPT !.nested = TRUE]
      BY <1>2, <2>2
    <3>2. QED
      BY <2>1, <3>1, FollowsNested DEF Walk
  <2>3. CASE walks[i].h # h
    BY <1>2, <2>1, <2>3
  <2>4. QED
    BY <2>2, <2>3
<1>4. new \in Walk /\ new.h = h
  BY DictOps, Keys DEF Walk, D!Present
<1>5. Follows(new, db[h], fault[h])
  BY DEF Follows
<1>6. noted \in Seq(Walk) /\ Len(noted) = n
  <2>1. noted \in [1 .. n -> Walk]
    BY <1>2, <1>3
  <2> HIDE DEF noted
  <2>2. QED
    BY <1>1, <2>1
<1>7. walks' = Append(noted, new) /\ n < MaxDepth /\ h \in open /\ UNCHANGED <<db, fault, open, alive>>
  BY DEF Begin, Uses
<1> HIDE DEF noted, new, n
<1>8. /\ walks' \in Seq(Walk) /\ Len(walks') = n + 1 /\ DOMAIN walks' = 1 .. n + 1
      /\ walks'[n + 1] = new /\ \A i \in 1 .. n : walks'[i] = noted[i]
  BY <1>1, <1>4, <1>6, <1>7
<1>9. TypeOK'
  BY <1>1, <1>7, <1>8, SamdbAssumption DEF TypeOK
<1>10. \A i \in DOMAIN walks' : walks'[i].h \in open' /\ Follows(walks'[i], db'[walks'[i].h], fault'[walks'[i].h])
  <2> TAKE i \in DOMAIN walks'
  <2>1. CASE i \in 1 .. n
    <3>1. walks'[i] = noted[i] /\ noted[i].h = walks[i].h /\ walks[i].h \in open
      BY <1>1, <1>3, <1>8, <2>1 DEF IInv
    <3>2. QED
      BY <1>3, <1>7, <2>1, <3>1
  <2>2. CASE i = n + 1
    BY <1>4, <1>5, <1>7, <1>8, <2>2
  <2>3. QED
    BY <1>1, <1>8, <2>1, <2>2
<1>11. OneCursor'
  <2> SUFFICES ASSUME NEW i \in DOMAIN walks', NEW j \in DOMAIN walks',
                      i < j, walks'[i].h = walks'[j].h
               PROVE  walks'[i].nested
    BY DEF OneCursor
  <2>1. i \in 1 .. n /\ walks'[i] = noted[i] /\ noted[i].h = walks[i].h
    BY <1>1, <1>3, <1>8
  <2>2. CASE j = n + 1
    BY <1>3, <1>4, <1>8, <2>1, <2>2
  <2>3. CASE j \in 1 .. n
    <3>1. walks'[j].h = walks[j].h
      BY <1>3, <1>8, <2>3
    <3>2. walks[i].nested
      BY <1>1, <2>1, <2>3, <3>1 DEF IInv, OneCursor
    <3>3. QED
      BY <1>3, <2>1, <3>2
  <2>4. QED
    BY <1>1, <1>8, <2>2, <2>3
<1>12. QED
  BY <1>7, <1>9, <1>10, <1>11 DEF IInv

LEMMA StepIInv == IInv /\ [Next]_vars => IInv'
<1> SUFFICES ASSUME IInv, [Next]_vars PROVE IInv'
  OBVIOUS
<1>a. TypeOK /\ Len(walks) \in Nat /\ DOMAIN walks = 1 .. Len(walks)
  BY WalksType DEF IInv
<1>b. \A h \in Database : db[h] \in D!Dict
  BY <1>a DEF TypeOK
<1>c. \A i \in DOMAIN walks : /\ walks[i] \in Walk /\ walks[i].h \in open
                              /\ db[walks[i].h] \in D!Dict /\ Follows(walks[i], db[walks[i].h], fault[walks[i].h])
  BY <1>a, WalksType DEF IInv
<1>d. \A h \in Database, e \in D!Dict :
        /\ [db EXCEPT ![h] = e] \in [Database -> D!Dict]
        /\ [db EXCEPT ![h] = e][h] = e
        /\ \A g \in Database \ {h} : [db EXCEPT ![h] = e][g] = db[g]
  BY <1>a DEF TypeOK
<1>f. \A h \in Database, f \in Fault :
        /\ [fault EXCEPT ![h] = f] \in [Database -> Fault]
        /\ [fault EXCEPT ![h] = f][h] = f
        /\ \A g \in Database \ {h} : [fault EXCEPT ![h] = f][g] = fault[g]
  BY <1>a DEF TypeOK
<1>w. alive => \A h \in Database : fault[h] # "wild"
  BY DEF IInv
<1>e. ASSUME UNCHANGED walks, alive' \in BOOLEAN, open' \subseteq Database,
             db' \in [Database -> D!Dict], fault' \in [Database -> Fault],
             alive' => \A h \in Database : fault'[h] # "wild",
             \A i \in DOMAIN walks : /\ walks[i].h \in open' /\ db'[walks[i].h] = db[walks[i].h]
                                    /\ (fault'[walks[i].h] = fault[walks[i].h] \/ fault'[walks[i].h] # "none")
      PROVE  IInv'
  <2>1. \A i \in 1 .. Len(walks) :
          /\ walks'[i].h = walks[i].h /\ walks'[i].h \in open'
          /\ walks[i].nested => walks'[i].nested
          /\ Follows(walks'[i], db'[walks'[i].h], fault'[walks'[i].h])
    BY <1>a, <1>c, <1>e, FollowsFault
  <2>2. /\ Len(walks) \in 0 .. Len(walks)
        /\ DOMAIN walks' = 1 .. Len(walks) /\ walks' \in Seq(Walk)
    BY <1>a, <1>e DEF TypeOK
  <2>3. PICK n \in 0 .. Len(walks) : n = Len(walks)
    BY <2>2, Zenon
  <2>4. /\ DOMAIN walks' = 1 .. n /\ walks' \in Seq(Walk)
        /\ \A i \in 1 .. n : /\ walks'[i].h = walks[i].h /\ walks'[i].h \in open'
                             /\ walks[i].nested => walks'[i].nested
                             /\ Follows(walks'[i], db'[walks'[i].h], fault'[walks'[i].h])
    BY <2>1, <2>2, <2>3
  <2>5. QED
    BY <1>e, <2>4, KeepIInv
<1>1. ASSUME NEW h \in Database, Open(h) PROVE IInv'
  <2>1. D!Reopened(db[h]) \in D!Dict /\ "none" \in Fault
    BY <1>b DEF D!Reopened, D!Dict, Fault
  <2>2. /\ db' = [db EXCEPT ![h] = D!Reopened(db[h])] /\ h \notin open
        /\ fault' = [fault EXCEPT ![h] = "none"]
        /\ open' = open \cup {h} /\ UNCHANGED <<walks, alive>>
    BY <1>1 DEF Open
  <2>3. /\ db' \in [Database -> D!Dict] /\ \A g \in Database \ {h} : db'[g] = db[g]
        /\ fault' \in [Database -> Fault] /\ fault'[h] = "none"
        /\ \A g \in Database \ {h} : fault'[g] = fault[g]
    BY <1>d, <1>f, <2>1, <2>2
  <2>4. \A i \in DOMAIN walks : walks[i].h # h /\ walks[i].h \in Database
    BY <1>a, <1>c, <2>2, WalksType
  <2>5. alive' => \A g \in Database : fault'[g] # "wild"
    BY <1>w, <2>2, <2>3
  <2>6. open' \subseteq Database /\ alive' \in BOOLEAN
    BY <1>a, <2>2 DEF TypeOK
  <2>7. \A i \in DOMAIN walks : /\ walks[i].h \in open' /\ db'[walks[i].h] = db[walks[i].h]
                                /\ fault'[walks[i].h] = fault[walks[i].h]
    BY <1>c, <2>2, <2>3, <2>4
  <2>8. QED
    BY <1>e, <2>2, <2>3, <2>5, <2>6, <2>7
<1>2. ASSUME NEW h \in Database, Close(h) PROVE IInv'
  <2>1. \A i \in DOMAIN walks : walks[i].h # h
    BY <1>2 DEF Close, Walked
  <2>2. open' = open \ {h} /\ UNCHANGED <<db, fault, walks, alive>>
    BY <1>2 DEF Close
  <2>3. QED
    BY <1>a, <1>c, <1>e, <1>w, <2>1, <2>2 DEF TypeOK
<1>3. ASSUME NEW h \in Database, NEW k \in Key, Erased(h, k), UNCHANGED <<fault, open, alive>> PROVE IInv'
  <2>1. /\ db' = [db EXCEPT ![h] = D!Removed(db[h], k)]
        /\ walks' = [i \in DOMAIN walks |-> IF walks[i].h = h
                                            THEN [walks[i] EXCEPT !.must = @ \ {k}]
                                            ELSE walks[i]]
    BY <1>3 DEF Erased, Note
  <2>2. D!Removed(db[h], k) \in D!Dict
    BY <1>b, DictOps
  <2>3. /\ db' \in [Database -> D!Dict] /\ db'[h] = D!Removed(db[h], k)
        /\ \A g \in Database \ {h} : db'[g] = db[g] /\ fault'[g] = fault[g]
    BY <1>3, <1>d, <2>1, <2>2
  <2>4. \A i \in DOMAIN walks :
          IF walks[i].h = h
          THEN /\ walks'[i] \in Walk /\ walks'[i].h = h
               /\ walks[i].nested => walks'[i].nested
               /\ Follows(walks'[i], db'[h], fault'[h])
          ELSE walks'[i] = walks[i]
    <3> TAKE i \in DOMAIN walks
    <3>1. CASE walks[i].h = h
      <4>1. walks'[i] = [walks[i] EXCEPT !.must = @ \ {k}]
        BY <2>1, <3>1
      <4>2. walks'[i] \in Walk /\ Follows(walks'[i], db'[h], fault'[h])
        BY <1>3, <1>c, <2>3, <3>1, <4>1, FollowsRemoved
      <4>3. QED
        BY <1>c, <3>1, <4>1, <4>2 DEF Walk
    <3>2. QED
      BY <2>1, <3>1
  <2>5. DOMAIN walks' = DOMAIN walks /\ walks' = [i \in DOMAIN walks |-> walks'[i]]
    BY <2>1
  <2>6. Len(walks') = Len(walks)
    BY <1>a, <2>5
  <2>7. fault' \in [Database -> Fault] /\ (alive' => \A g \in Database : fault'[g] # "wild")
    BY <1>3, <1>a, <1>w DEF TypeOK
  <2>8. QED
    BY <1>3, <2>3, <2>4, <2>5, <2>6, <2>7, NoteIInv
<1>4. ASSUME NEW h \in Database, NEW k \in Key, NEW v \in Data, Put(h, k, v) PROVE IInv'
  <2>1. /\ UNCHANGED <<open, alive>>
        /\ walks' = [i \in DOMAIN walks |-> IF walks[i].h = h THEN PutTo(walks[i], k) ELSE walks[i]]
    <3>1. UNCHANGED <<open, alive>> /\ walks' = PutNoted(h, k)
      BY <1>4 DEF Put
    <3>2. PutNoted(h, k) = [i \in DOMAIN walks |-> IF walks[i].h = h THEN PutTo(walks[i], k) ELSE walks[i]]
      BY Zenon DEF PutNoted, Note, PutTo
    <3>3. QED
      BY <3>1, <3>2
  <2>2. PICK d : d = D!Stored(db[h], k, v)
    OBVIOUS
  <2>3. d \in D!Dict /\ db[h] \in D!Dict /\ fault[h] \in Fault /\ (alive => fault[h] # "wild")
    BY <1>a, <1>b, <1>w, <2>2, DictOps DEF TypeOK
  <2>4. PICK e, f : /\ e \in D!Dict /\ f \in Fault /\ (alive => f # "wild")
                    /\ db' = [db EXCEPT ![h] = e] /\ fault' = [fault EXCEPT ![h] = f]
                    /\ \A w \in Walk : Follows(w, db[h], fault[h]) => Follows(PutTo(w, k), e, f)
    <3>1. fault = [fault EXCEPT ![h] = fault[h]]
      BY <1>a DEF TypeOK
    <3>2. CASE db' = [db EXCEPT ![h] = d] /\ UNCHANGED fault
      <4>1. \A w \in Walk : Follows(w, db[h], fault[h]) => Follows(PutTo(w, k), d, fault[h])
        BY <2>2, <2>3, FollowsStored
      <4>2. QED
        BY <2>3, <3>1, <3>2, <4>1
    <3>3. CASE /\ Slips(db[h], k) /\ D!Following(d) # None
               /\ db' = [db EXCEPT ![h] = D!Moved(d, D!Following(d))] /\ UNCHANGED fault
      <4>1. \A w \in Walk : Follows(w, db[h], fault[h]) => Follows(PutTo(w, k), D!Moved(d, D!Following(d)), fault[h])
        BY <2>2, <2>3, <3>3, FollowsSlip
      <4>2. D!Moved(d, D!Following(d)) \in D!Dict
        <5>1. db[h].at # None /\ d.at = db[h].at
          BY <2>2, <2>3, <3>3 DEF Slips, D!Stored, D!Dict
        <5>2. D!Following(d) \in Key
          BY <2>3, <3>3, <5>1, FollowingIs
        <5>3. QED
          BY <2>3, <5>2, DictOps
      <4>3. QED
        BY <2>3, <3>1, <3>3, <4>1, <4>2
    <3>4. CASE db' = [db EXCEPT ![h] = D!Reopened(d)] /\ fault' = [fault EXCEPT ![h] = "lost"]
      <4>1. \A w \in Walk : Follows(w, db[h], fault[h]) => Follows(PutTo(w, k), D!Reopened(d), "lost")
        BY <2>2, <2>3, FollowsLost
      <4>2. D!Reopened(d) \in D!Dict /\ "lost" \in Fault /\ "lost" # "wild"
        BY <2>3, DictOps DEF Fault
      <4>3. QED
        BY <3>4, <4>1, <4>2
    <3>5. QED
      BY <1>4, <2>2, <3>2, <3>3, <3>4 DEF Put
  <2>5. /\ db' \in [Database -> D!Dict] /\ db'[h] = e /\ fault' \in [Database -> Fault] /\ fault'[h] = f
        /\ \A g \in Database \ {h} : db'[g] = db[g] /\ fault'[g] = fault[g]
    BY <1>d, <1>f, <2>4
  <2>6. \A i \in DOMAIN walks :
          IF walks[i].h = h
          THEN /\ walks'[i] \in Walk /\ walks'[i].h = h
               /\ walks[i].nested => walks'[i].nested
               /\ Follows(walks'[i], db'[h], fault'[h])
          ELSE walks'[i] = walks[i]
    <3> TAKE i \in DOMAIN walks
    <3>1. CASE walks[i].h = h
      <4>1. walks'[i] = PutTo(walks[i], k)
        BY <2>1, <3>1
      <4>2. walks[i] \in Walk /\ Follows(walks[i], db[h], fault[h])
        BY <1>c, <3>1
      <4>3. QED
        BY <2>4, <2>5, <3>1, <4>1, <4>2, PutToIs
    <3>2. QED
      BY <2>1, <3>1
  <2>7. DOMAIN walks' = DOMAIN walks /\ walks' = [i \in DOMAIN walks |-> walks'[i]]
    BY <2>1
  <2>8. Len(walks') = Len(walks)
    BY <1>a, <2>7
  <2>9. alive' => \A g \in Database : fault'[g] # "wild"
    BY <1>w, <2>1, <2>4, <2>5
  <2>10. QED
    BY <2>1, <2>5, <2>6, <2>7, <2>8, <2>9, NoteIInv
<1>11. ASSUME NEW h \in Database, PutPanics(h) PROVE IInv'
  <2>1. fault' = [fault EXCEPT ![h] = "panic"] /\ UNCHANGED <<db, open, walks, alive>>
    BY <1>11 DEF PutPanics
  <2>2. "panic" \in Fault
    BY DEF Fault
  <2>3. fault' \in [Database -> Fault] /\ fault'[h] = "panic" /\ \A g \in Database \ {h} : fault'[g] = fault[g]
    BY <1>f, <2>1, <2>2
  <2>4. alive' => \A g \in Database : fault'[g] # "wild"
    BY <1>w, <2>1, <2>3
  <2>5. \A i \in DOMAIN walks : fault'[walks[i].h] = fault[walks[i].h] \/ fault'[walks[i].h] # "none"
    BY <1>a, <2>3, WalksType
  <2>6. QED
    BY <1>a, <1>c, <1>e, <2>1, <2>3, <2>4, <2>5 DEF TypeOK
<1>12. CASE Wild
  <2>1. fault' = [fault EXCEPT ![Top.h] = "wild"] /\ alive' = FALSE /\ UNCHANGED <<db, open, walks>> /\ walks # <<>>
    BY <1>12 DEF Wild, Seeks
  <2>2. "wild" \in Fault /\ Top.h \in Database
    BY <1>a, <2>1, WalksType DEF Fault
  <2>3. fault' \in [Database -> Fault] /\ fault'[Top.h] = "wild" /\ \A g \in Database \ {Top.h} : fault'[g] = fault[g]
    BY <1>f, <2>1, <2>2
  <2>4. \A i \in DOMAIN walks : fault'[walks[i].h] = fault[walks[i].h] \/ fault'[walks[i].h] # "none"
    BY <1>a, <2>3, WalksType
  <2>5. QED
    BY <1>a, <1>c, <1>e, <2>1, <2>3, <2>4 DEF TypeOK
<1>5. CASE Meet
  <2> DEFINE k == NextKey(Top)
             u == [Top EXCEPT !.pc = "func", !.last = k, !.met = @ \cup {k}, !.again = FALSE]
  <2>1. /\ walks # <<>> /\ k # None /\ UNCHANGED <<open, alive>> /\ alive /\ ~Astray(Top)
        /\ db' = [db EXCEPT ![Top.h] = D!Moved(db[Top.h], k)]
        /\ fault' = [fault EXCEPT ![Top.h] = "none"]
        /\ Len(walks) \in DOMAIN walks /\ Top = walks[Len(walks)]
    BY <1>5, <1>a, WalksType DEF Meet, Seeks
  <2>2. walks' = [walks EXCEPT ![Len(walks)] = u]
    BY <1>5 DEF Meet
  <2>3. /\ Top \in Walk /\ Top.h \in Database /\ db[Top.h] \in D!Dict /\ fault[Top.h] \in Fault
        /\ Follows(Top, db[Top.h], fault[Top.h])
    BY <1>a, <1>c, <2>1, WalksType
  <2>4. k \in Key /\ u \in Walk /\ Follows(u, D!Moved(db[Top.h], k), "none")
    <3>1. fault[Top.h] \in Fault \ {"wild"}
      BY <1>w, <2>1, <2>3
    <3>2. PICK w \in Walk : w = Top
      BY <2>3
    <3>3. PICK e \in D!Dict : e = db[w.h]
      BY <2>3, <3>2
    <3>4. /\ NextKey(w) # None /\ ~Astray(w) /\ fault[w.h] \in Fault \ {"wild"}
          /\ Follows(w, e, fault[w.h])
      BY <2>1, <2>3, <3>1, <3>2, <3>3
    <3>5. QED
      BY <3>2, <3>3, <3>4, FollowsMoved
  <2>5. u.h = Top.h /\ u.nested = Top.nested
    BY <2>3 DEF Walk
  <2> HIDE DEF k, u
  <2>a. D!Moved(db[Top.h], k) \in D!Dict
    BY <2>3, <2>4, DictOps
  <2>6. /\ db' \in [Database -> D!Dict] /\ db'[Top.h] = D!Moved(db[Top.h], k)
        /\ \A g \in Database \ {Top.h} : db'[g] = db[g]
    BY <1>d, <2>1, <2>3, <2>a
  <2>b. "none" \in Fault
    BY DEF Fault
  <2>c. /\ fault' \in [Database -> Fault] /\ fault'[Top.h] = "none"
        /\ \A g \in Database \ {Top.h} : fault'[g] = fault[g]
    BY <1>f, <2>1, <2>3, <2>b
  <2>d. alive' => \A g \in Database : fault'[g] # "wild"
    BY <1>w, <2>1, <2>c
  <2>7. \A i \in DOMAIN walks \ {Len(walks)} : Follows(walks[i], db'[walks[i].h], fault'[walks[i].h])
    <3> TAKE i \in DOMAIN walks \ {Len(walks)}
    <3>1. CASE walks[i].h = Top.h
      <4>1. i < Len(walks)
        BY <1>a
      <4>2. walks[i].nested
        BY <2>1, <3>1, <4>1 DEF IInv, OneCursor
      <4>3. QED
        BY <1>c, <2>4, <2>6, <3>1, <4>2, FollowsOther
    <3>2. CASE walks[i].h # Top.h
      BY <1>a, <1>c, <2>6, <2>c, <3>2, WalksType
    <3>3. QED
      BY <3>1, <3>2
  <2>8. QED
    <3>1. Follows(u, db'[u.h], fault'[u.h])
      BY <2>4, <2>5, <2>6, <2>c
    <3>2. QED
      BY <2>1, <2>2, <2>4, <2>5, <2>6, <2>7, <2>c, <2>d, <3>1, TopIInv, ZenonT(60)
<1>6. CASE Ended
  BY <1>6, FrontIInv DEF Ended, Seeks
<1>7. CASE FuncReturns
  <2>1. CASE walks' = Front(walks)
    BY <1>7, <2>1, FrontIInv DEF FuncReturns
  <2>2. CASE walks' = [walks EXCEPT ![Len(walks)].pc = "seq"]
    <3> DEFINE u == [Top EXCEPT !.pc = "seq"]
    <3>1. /\ walks # <<>> /\ UNCHANGED <<db, fault, open, alive>>
          /\ Len(walks) \in DOMAIN walks /\ Top = walks[Len(walks)]
      BY <1>7, <1>a, WalksType DEF FuncReturns
    <3>2. walks' = [walks EXCEPT ![Len(walks)] = u]
      BY <2>2, <3>1
    <3>3. /\ u \in Walk /\ u.h = Top.h /\ u.nested = Top.nested /\ u.must = Top.must
          /\ u.last = Top.last /\ u.met = Top.met /\ u.again = Top.again /\ u.lower = Top.lower
      BY <1>c, <3>1 DEF Walk
    <3>4. Follows(u, db'[u.h], fault'[u.h])
      BY <1>c, <3>1, <3>3 DEF Follows
    <3>5. /\ db' \in [Database -> D!Dict] /\ fault' \in [Database -> Fault]
          /\ alive' => \A h \in Database : fault'[h] # "wild"
          /\ \A i \in DOMAIN walks \ {Len(walks)} : Follows(walks[i], db'[walks[i].h], fault'[walks[i].h])
      BY <1>a, <1>c, <1>w, <3>1 DEF TypeOK
    <3> HIDE DEF u
    <3>6. QED
      BY <3>1, <3>2, <3>3, <3>4, <3>5, TopIInv
  <2>3. QED
    BY <1>7, <2>1, <2>2 DEF FuncReturns
<1>8. CASE Exit
  <2>1. walks' \in Seq(Walk) /\ DOMAIN walks' = {} /\ Len(walks') = 0
    BY <1>8 DEF Exit
  <2>2. TypeOK'
    <3>1. Len(walks') <= MaxDepth
      BY <2>1, SamdbAssumption
    <3>2. /\ open' \subseteq Database /\ db' \in [Database -> D!Dict] /\ alive' \in BOOLEAN
          /\ fault' \in [Database -> Fault]
      BY <1>8, <1>a DEF Exit, TypeOK
    <3>3. QED
      BY <2>1, <3>1, <3>2 DEF TypeOK
  <2>3. alive' = FALSE
    BY <1>8 DEF Exit
  <2>4. QED
    BY <2>1, <2>2, <2>3 DEF IInv, OneCursor
<1>9. CASE UNCHANGED vars
  BY <1>9, <1>a, <1>c, <1>e, <1>w DEF vars, TypeOK
<1>10. ASSUME NEW h \in Database, NEW k \in Key, Del(h, k) \/ PutFails(h, k) PROVE IInv'
  BY <1>3, <1>10 DEF Del, PutFails
<1>13. QED
  BY <1>1, <1>2, <1>4, <1>5, <1>6, <1>7, <1>8, <1>9, <1>10, <1>11, <1>12, BeginIInv DEF Next
-----------------------------------------------------------------------------
\* The inductive invariant: a walk whose cursor no other walk has used knows where
\* the cursor is, or how far it can have slipped, and has met what is behind it.
THEOREM Invariance == Spec => []IInv
BY InitIInv, StepIInv, PTL DEF Spec

LEMMA TopFollows ==
  ASSUME IInv, walks # <<>>
  PROVE  Top \in Walk /\ db[Top.h] \in D!Dict /\ Follows(Top, db[Top.h], fault[Top.h])
BY WalksType DEF IInv

\* A walk that ends by itself has met every record that was there all the time,
\* for any number of keys, databases and walks, whatever the callbacks delete and
\* whatever they put at or above the key they were called with.
THEOREM NoRecordMissed == Spec => []WalkMeetsAll
<1>1. IInv => WalkMeetsAll
  BY TopFollows, NextOf DEF WalkMeetsAll, Seeks
<1>2. QED
  BY <1>1, Invariance, PTL

\* The keys of a walk ascend, wherever a put leaves the cursor on its page, unless
\* the callback puts the key it was called with.
THEOREM KeysAscend == Spec => []WalkInOrder
<1>1. IInv => WalkInOrder
  BY TopFollows, NextOf DEF WalkInOrder, Seeks
<1>2. QED
  BY <1>1, Invariance, PTL
-----------------------------------------------------------------------------
(* db_get_str *)

\* m is the place of the first NUL of s, or the one after its end.
Ends(s, m) == /\ m \in 1 .. Len(s) + 1
              /\ \A i \in 1 .. m - 1 : s[i] # 0
              /\ m = Len(s) + 1 \/ s[m] = 0

LEMMA CStringEnds ==
  ASSUME NEW s \in Seq(Nat)
  PROVE  /\ \E m : Ends(s, m)
         /\ \A m : Ends(s, m) => CString(s) = SubSeq(s, 1, m - 1)
<1> DEFINE N == {i \in DOMAIN s : s[i] = 0} \cup {Len(s) + 1}
           k == D!Least(N)
<1>1. DOMAIN s = 1 .. Len(s) /\ Len(s) \in Nat
  OBVIOUS
<1>2. N \subseteq Nat /\ N # {}
  BY <1>1
<1>3. k \in N /\ \A x \in N : k <= x
  <2> HIDE DEF N
  <2>1. QED
    BY <1>2, LeastIs
<1> HIDE DEF k
<1>4. Ends(s, k)
  BY <1>1, <1>3 DEF Ends
<1>5. \A m : Ends(s, m) => m = k
  <2> SUFFICES ASSUME NEW m, Ends(s, m) PROVE m = k
    OBVIOUS
  <2>1. m \in N /\ m \in Nat /\ k \in Nat
    BY <1>1, <1>2, <1>3 DEF Ends
  <2>2. k <= m
    BY <1>3, <2>1
  <2>3. CASE k < m
    BY <1>1, <1>3, <2>1, <2>3 DEF Ends
  <2>4. QED
    BY <2>1, <2>2, <2>3
<1>6. CString(s) = SubSeq(s, 1, k - 1)
  BY DEF CString, k
<1>7. QED
  BY <1>4, <1>5, <1>6

\* A buffer b of n bytes that has the bytes of the value up to a NUL, put there
\* because the value or the buffer ends, or the value's own.
LEMMA CutString ==
  ASSUME NEW val \in Seq(Nat), NEW n \in Nat, NEW b \in Seq(Nat), Len(b) = n,
         NEW e \in 1 .. n, e <= Len(val) + 1, b[e] = 0,
         \A i \in 1 .. e - 1 : b[i] = val[i],
         e = n \/ e = Len(val) + 1 \/ val[e] = 0
  PROVE  LET s == CString(val) IN
         CString(b) = SubSeq(s, 1, IF Len(s) < n THEN Len(s) ELSE n - 1)
<1>1. PICK m : Ends(val, m)
  BY CStringEnds
<1>2. CString(val) = SubSeq(val, 1, m - 1)
  BY <1>1, CStringEnds
<1>3. m \in Nat /\ 1 <= m /\ m <= Len(val) + 1 /\ Len(val) \in Nat
  BY <1>1 DEF Ends
<1> DEFINE s == SubSeq(val, 1, m - 1)
           q == IF m < e THEN m ELSE e
<1>4. s = [i \in 1 .. m - 1 |-> val[i]] /\ Len(s) = m - 1
  BY <1>3
<1>5. Ends(b, q)
  BY <1>1, <1>3, SMTT(60) DEF Ends
<1>6. CString(b) = SubSeq(b, 1, q - 1)
  BY <1>5, CStringEnds
<1>7. q - 1 = IF Len(s) < n THEN Len(s) ELSE n - 1
  BY <1>1, <1>3, <1>4 DEF Ends
<1>8. q \in Nat /\ 1 <= q /\ q <= m /\ q <= n
  BY <1>3
<1>9. \A i \in 1 .. q - 1 : b[i] = s[i]
  BY <1>3, <1>4, <1>8
<1>10. SubSeq(b, 1, q - 1) = [i \in 1 .. q - 1 |-> b[i]]
  BY <1>8
<1>11. SubSeq(s, 1, q - 1) = [i \in 1 .. q - 1 |-> s[i]]
  <2>1. s \in Seq(Nat)
    BY <1>3
  <2> HIDE DEF s, q
  <2>2. QED
    BY <1>3, <1>4, <1>8, <2>1
<1> HIDE DEF q
<1>12. SubSeq(b, 1, q - 1) = SubSeq(s, 1, q - 1)
  BY <1>9, <1>10, <1>11
<1>13. QED
  BY <1>2, <1>6, <1>7, <1>12

\* "db_get_str() guarantees a null terminated string if the return > 0": for every
\* value, with or without a NUL, and every length of the buffer, it is the string
\* that was put or as much of it as fits.
THEOREM GetStrTerminates == Spec => []GetStrIsString
<1>1. TypeOK => GetStrIsString
  <2> SUFFICES ASSUME TypeOK, NEW h \in open, NEW k \in Key, NEW n \in Buffer,
                      GetStr(h, k, n).rc > 0
               PROVE  LET r == GetStr(h, k, n)
                          s == CString(db[h].rec[k]) IN
                      /\ \E i \in 1 .. n : r.buf[i] = 0
                      /\ CString(r.buf) = SubSeq(s, 1, IF Len(s) < n THEN Len(s) ELSE n - 1)
    BY DEF GetStrIsString
  <2> DEFINE val == db[h].rec[k]
             len == IF n > Len(val) THEN Len(val) ELSE n
             buf == [i \in 1 .. n |-> IF i <= len THEN val[i] ELSE Unset]
             b == GetStr(h, k, n).buf
  <2>1. n \in Nat /\ val \in Data \cup {None}
    BY SamdbAssumption, Keys DEF TypeOK, D!Dict
  <2>2. val # None /\ fault[h] # "panic"
    <3>1. CASE val = None \/ fault[h] = "panic"
      <4>1. GetRaw(h, k, n).rc = -1
        BY <3>1 DEF GetRaw, RET_SPECIAL
      <4>2. GetStr(h, k, n) = GetRaw(h, k, n)
        BY <4>1 DEF GetStr
      <4>3. QED
        BY <4>1, <4>2
    <3>2. QED
      BY <3>1
  <2>3. val \in Seq(0 .. 1) /\ Len(val) \in Nat /\ \A i \in 1 .. Len(val) : val[i] \in 0 .. 1
    BY <2>1, <2>2, SamdbAssumption
  <2>4. GetRaw(h, k, n) = [rc |-> len, buf |-> buf]
    BY <2>2 DEF GetRaw
  <2>5. len \in Nat /\ len <= n /\ len <= Len(val) /\ (len = n \/ len = Len(val))
    BY <2>1, <2>3
  <2>6. /\ buf \in [1 .. n -> Nat]
        /\ \A i \in 1 .. n : i <= len => buf[i] = val[i]
    BY <2>1, <2>3, <2>5 DEF Unset
  <2> HIDE DEF val, len, buf
  <2>7. len > 0
    <3>1. CASE len = 0
      <4>1. GetStr(h, k, n) = GetRaw(h, k, n)
        BY <2>4, <3>1 DEF GetStr
      <4>2. QED
        BY <2>4, <3>1, <4>1
    <3>2. QED
      BY <2>5, <3>1
  <2>8. \E e \in 1 .. n : /\ e <= Len(val) + 1
                          /\ e = n \/ e = Len(val) + 1 \/ val[e] = 0
                          /\ b \in [1 .. n -> Nat] /\ b[e] = 0
                          /\ \A i \in 1 .. e - 1 : b[i] = val[i]
    <3>1. CASE buf[len] = 0
      <4>1. GetStr(h, k, n) = [[rc |-> len, buf |-> buf] EXCEPT !.rc = @ - 1]
        BY <2>4, <2>5, <2>7, <3>1 DEF GetStr
      <4>2. b = buf
        BY <4>1
      <4>3. QED
        BY <2>1, <2>3, <2>5, <2>6, <2>7, <3>1, <4>2
    <3>2. CASE buf[len] # 0 /\ len = n
      <4>1. GetStr(h, k, n) = [[rc |-> len, buf |-> buf] EXCEPT !.buf[n] = 0]
        BY <2>4, <2>5, <2>7, <3>2 DEF GetStr
      <4>2. b = [buf EXCEPT ![n] = 0]
        BY <4>1
      <4>3. n \in 1 .. n /\ b[n] = 0 /\ b \in [1 .. n -> Nat] /\ n <= Len(val) + 1
        BY <2>1, <2>3, <2>5, <2>6, <2>7, <3>2, <4>2
      <4>4. \A i \in 1 .. n - 1 : b[i] = val[i]
        BY <2>1, <2>3, <2>5, <2>6, <3>2, <4>2
      <4>5. QED
        BY <4>3, <4>4
    <3>3. CASE buf[len] # 0 /\ len # n
      <4>1. GetStr(h, k, n) = [[rc |-> len, buf |-> buf] EXCEPT !.buf[len + 1] = 0]
        BY <2>4, <2>5, <2>7, <3>3 DEF GetStr
      <4>2. b = [buf EXCEPT ![len + 1] = 0]
        BY <4>1
      <4>3. len + 1 \in 1 .. n /\ len + 1 = Len(val) + 1
        BY <2>1, <2>3, <2>5, <3>3
      <4>4. b[len + 1] = 0 /\ b \in [1 .. n -> Nat]
        BY <2>6, <4>2, <4>3
      <4>5. \A i \in 1 .. (len + 1) - 1 : b[i] = val[i]
        BY <2>1, <2>5, <2>6, <4>2, <4>3
      <4>6. QED
        BY <2>3, <4>3, <4>4, <4>5
    <3>4. QED
      BY <3>1, <3>2, <3>3
  <2> HIDE DEF b
  <2>9. PICK e \in 1 .. n : /\ e <= Len(val) + 1
                            /\ e = n \/ e = Len(val) + 1 \/ val[e] = 0
                            /\ b \in [1 .. n -> Nat] /\ b[e] = 0
                            /\ \A i \in 1 .. e - 1 : b[i] = val[i]
    BY <2>8
  <2>10. b \in Seq(Nat) /\ Len(b) = n /\ val \in Seq(Nat)
    BY <2>1, <2>3, <2>9
  <2>11. CString(b) = SubSeq(CString(val), 1, IF Len(CString(val)) < n
                                              THEN Len(CString(val)) ELSE n - 1)
    BY <2>1, <2>9, <2>10, CutString
  <2>12. QED
    BY <2>9, <2>11 DEF b, val
<1>2. IInv => TypeOK
  BY DEF IInv
<1>3. QED
  BY <1>1, <1>2, Invariance, PTL
=============================================================================
