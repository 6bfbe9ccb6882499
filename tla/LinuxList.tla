----------------------------- MODULE LinuxList -----------------------------
(***************************************************************************)
(* linux-list.h: circular doubly linked lists whose links are embedded in  *)
(* the caller's structures.  mem is the memory: the next and prev members  *)
(* of every list_head, of a list or of an entry.  list is what the caller  *)
(* knows: the entries of each list, in order, or Stale for a head that     *)
(* list_splice or list_replace has left behind.  it is the state of one of *)
(* the loop macros.  del and reader are a list_del_init taken one store at *)
(* a time and a list_empty_careful that runs on another CPU meanwhile.     *)
(***************************************************************************)
EXTENDS Naturals, SequencesExt

CONSTANTS Heads, Entries, LIST_POISON1, LIST_POISON2, Stale, NULL

Nodes == Heads \cup Entries

ASSUME ListConstants ==
    /\ Heads \cap Entries = {}
    /\ {LIST_POISON1, LIST_POISON2, NULL} \cap Nodes = {}
    /\ Stale \notin Seq(Entries)
    /\ NULL \notin [e : Entries, step : 1..3]

VARIABLES mem, list, it, del, reader

vars == <<mem, list, it, del, reader>>

(* The heads in use, the entries on a list, and the entries that point at  *)
(* themselves, which list_del_init and INIT_LIST_HEAD leave.               *)
Live == {h \in Heads : list[h] # Stale}
On(h) == ToSet(list[h])
Linked == UNION {On(h) : h \in Live}
Free == Entries \ Linked
list_empty(m, h) == m.next[h] = h
Alone(m, n) == m.next[n] = n /\ m.prev[n] = n

(* Where node x is on list h, and the entries up to it and after it.       *)
Place(h, x) == IF x = h THEN 0 ELSE CHOOSE i \in 1..Len(list[h]) : list[h][i] = x
After(h, x) == SubSeq(list[h], Place(h, x) + 1, Len(list[h]))
UpTo(h, x) == SubSeq(list[h], 1, Place(h, x))
-----------------------------------------------------------------------------
(* The primitives, as sequences of stores.                                 *)

Next_(m, n, v) == [m EXCEPT !.next[n] = v]
Prev_(m, n, v) == [m EXCEPT !.prev[n] = v]

INIT_LIST_HEAD(m, l) == Prev_(Next_(m, l, l), l, l)

__list_add(m, new, prev, next) ==
    Next_(Prev_(Next_(Prev_(m, next, new), new, next), new, prev), prev, new)

(* Mutant: only the next entry learns of it.                               *)
__list_del_half(m, prev, next) == Prev_(m, next, prev)

__list_del(m, prev, next) == Next_(Prev_(m, next, prev), prev, next)

__list_del_entry(m, e) == __list_del(m, m.prev[e], m.next[e])

list_add(m, new, head) == __list_add(m, new, head, m.next[head])

list_add_tail(m, new, head) == __list_add(m, new, m.prev[head], head)

list_del(m, e) ==
    Prev_(Next_(__list_del_entry(m, e), e, LIST_POISON1), e, LIST_POISON2)

list_del_init(m, e) == INIT_LIST_HEAD(__list_del_entry(m, e), e)

list_replace(m, old, new) ==
    LET m1 == Next_(m, new, m.next[old])
        m2 == Prev_(m1, m1.next[new], new)
        m3 == Prev_(m2, new, m2.prev[old])
    IN  Next_(m3, m3.prev[new], new)

list_move(m, e, head) == list_add(__list_del_entry(m, e), e, head)

list_move_tail(m, e, head) == list_add_tail(__list_del_entry(m, e), e, head)

list_is_singular(m, h) == ~list_empty(m, h) /\ m.next[h] = m.prev[h]

__list_cut_position(m, l, head, entry) ==
    LET first == m.next[entry]
        m1 == Next_(m, l, m.next[head])
        m2 == Prev_(m1, m1.next[l], l)
        m3 == Next_(Prev_(m2, l, entry), entry, l)
    IN  Prev_(Next_(m3, head, first), first, head)

list_cut_position(m, l, head, entry) ==
    IF list_empty(m, head) THEN m
    ELSE IF list_is_singular(m, head) /\ m.next[head] # entry /\ head # entry THEN m
    ELSE IF entry = head THEN INIT_LIST_HEAD(m, l)
    ELSE __list_cut_position(m, l, head, entry)

__list_splice(m, l, prev, next) ==
    LET first == m.next[l]
        last == m.prev[l]
    IN  Prev_(Next_(Next_(Prev_(m, first, prev), prev, first), last, next), next, last)
-----------------------------------------------------------------------------
(* One action per operation of the header.  The guards are what its        *)
(* comments ask of the caller: add what is on no list, delete what is on   *)
(* one or points at itself, never use a head left behind before            *)
(* INIT_LIST_HEAD.  Nothing else happens during a loop, or while another   *)
(* CPU looks at the entry.                                                 *)

Quiet == it = NULL /\ del = NULL /\ reader = NULL /\ UNCHANGED <<it, del, reader>>

Init ==
    /\ mem = [next |-> [n \in Nodes |-> n], prev |-> [n \in Nodes |-> n]]
    /\ list = [h \in Heads |-> <<>>]
    /\ it = NULL /\ del = NULL /\ reader = NULL

(* At a node x of list h: after the head, or after an entry.               *)
ListAdd(h, x, new) ==
    /\ Quiet /\ h \in Live /\ x \in On(h) \cup {h} /\ new \in Free
    /\ mem' = list_add(mem, new, x)
    /\ list' = [list EXCEPT ![h] = InsertAt(@, Place(h, x) + 1, new)]

ListAddTail(h, x, new) ==
    /\ Quiet /\ h \in Live /\ x \in On(h) \cup {h} /\ new \in Free
    /\ mem' = list_add_tail(mem, new, x)
    /\ list' = [list EXCEPT ![h] = IF x = h THEN Append(@, new) ELSE InsertAt(@, Place(h, x), new)]

Removed(e) ==
    [h \in Heads |-> IF h \in Live /\ e \in On(h) THEN RemoveAt(list[h], Place(h, e)) ELSE list[h]]

ListDel(e) ==
    /\ Quiet /\ (e \in Free => Alone(mem, e))
    /\ mem' = list_del(mem, e)
    /\ list' = Removed(e)

ListDelInit(e) ==
    /\ Quiet /\ (e \in Free => Alone(mem, e))
    /\ mem' = list_del_init(mem, e)
    /\ list' = Removed(e)

ListMove(e, h) ==
    /\ Quiet /\ h \in Live /\ (e \in Free => Alone(mem, e))
    /\ mem' = list_move(mem, e, h)
    /\ list' = [Removed(e) EXCEPT ![h] = <<e>> \o @]

ListMoveTail(e, h) ==
    /\ Quiet /\ h \in Live /\ (e \in Free => Alone(mem, e))
    /\ mem' = list_move_tail(mem, e, h)
    /\ list' = [Removed(e) EXCEPT ![h] = Append(@, e)]

ListRotateLeft(h) ==
    /\ Quiet /\ h \in Live
    /\ mem' = IF list_empty(mem, h) THEN mem ELSE list_move_tail(mem, mem.next[h], h)
    /\ list' = [list EXCEPT ![h] = IF @ = <<>> THEN @ ELSE Append(Tail(@), Head(@))]

(* list_replace and list_replace_init of an entry on a list.               *)
ListReplace(h, old, new, init) ==
    /\ Quiet /\ h \in Live /\ old \in On(h) /\ new \in Free
    /\ mem' = IF init THEN INIT_LIST_HEAD(list_replace(mem, old, new), old)
              ELSE list_replace(mem, old, new)
    /\ list' = [list EXCEPT ![h] = ReplaceAll(@, old, new)]

(* The same for a head: the list hangs from the other head afterwards.     *)
ListReplaceHead(old, new, init) ==
    /\ Quiet /\ old \in Live /\ new \in Heads \ {old} /\ list[new] \in {Stale, <<>>}
    /\ mem' = IF init THEN INIT_LIST_HEAD(list_replace(mem, old, new), old)
              ELSE list_replace(mem, old, new)
    /\ list' = [list EXCEPT ![new] = list[old], ![old] = IF init THEN <<>> ELSE Stale]

(* The target may be a list "you do not care about losing its data".       *)
ListCutPosition(l, h, x) ==
    /\ Quiet /\ h \in Live /\ l \in Heads \ {h} /\ x \in On(h) \cup {h}
    /\ mem' = list_cut_position(mem, l, h, x)
    /\ list' = IF list[h] = <<>> THEN list
               ELSE [list EXCEPT ![l] = UpTo(h, x), ![h] = After(h, x)]

(* list_splice, list_splice_tail and their _init forms: without _init the  *)
(* head of a list that was not empty is left behind.                       *)
ListSplice(l, h, tail, init) ==
    LET empty == list_empty(mem, l)
        m == IF tail THEN __list_splice(mem, l, mem.prev[h], h)
             ELSE __list_splice(mem, l, h, mem.next[h])
    IN  /\ Quiet /\ l \in Live /\ h \in Live \ {l}
        /\ mem' = IF empty THEN mem ELSE IF init THEN INIT_LIST_HEAD(m, l) ELSE m
        /\ list' = IF empty THEN list
                   ELSE [list EXCEPT ![h] = IF tail THEN @ \o list[l] ELSE list[l] \o @,
                                     ![l] = IF init THEN <<>> ELSE Stale]

InitListHead(h) ==
    /\ Quiet /\ list[h] = Stale
    /\ mem' = INIT_LIST_HEAD(mem, h)
    /\ list' = [list EXCEPT ![h] = <<>>]
-----------------------------------------------------------------------------
(* The loops.  Forwards or backwards; from the head (for_each), after a    *)
(* node (continue) or at it (from); plain, or safe, with n read ahead.     *)

Step(m, back, n) == IF back THEN m.prev[n] ELSE m.next[n]

(* Mutant: list_for_each_entry_continue begins with the entry it is given. *)
FirstAtEntry(start, back, h, x) == IF start = "for_each" THEN Step(mem, back, h) ELSE x

First(start, back, h, x) ==
    CASE start = "for_each" -> Step(mem, back, h)
      [] start = "continue" -> Step(mem, back, x)
      [] start = "from"     -> x

(* What the loop should meet.                                              *)
Ahead(start, back, h, x) ==
    LET whole == IF back THEN Reverse(list[h]) ELSE list[h]
        at == CHOOSE i \in DOMAIN whole : whole[i] = x
    IN  CASE start = "for_each" -> whole
          [] start = "continue" -> SubSeq(whole, at + 1, Len(whole))
          [] start = "from"     -> SubSeq(whole, at, Len(whole))

LoopStart(h, x, start, back, safe) ==
    /\ it = NULL /\ del = NULL /\ reader = NULL /\ h \in Live
    /\ start # "for_each" => x \in On(h)
    /\ start = "for_each" => x = h
    /\ back => start = "for_each" \/ (start = "continue" /\ ~safe)  \* the forms there are
    /\ LET pos == First(start, back, h, x)
       IN  it' = [head |-> h, back |-> back, safe |-> safe, pos |-> pos,
                  n |-> IF safe THEN Step(mem, back, pos) ELSE NULL,
                  seen |-> <<>>, todo |-> Ahead(start, back, h, x)]
    /\ UNCHANGED <<mem, list, del, reader>>

(* The body has run with pos and the loop goes on to the next.             *)
Advance(m) ==
    LET pos == IF it.safe THEN it.n ELSE Step(m, it.back, it.pos)
    IN  it' = [it EXCEPT !.seen = Append(@, it.pos), !.pos = pos,
                         !.n = IF it.safe THEN Step(m, it.back, pos) ELSE NULL]

(* A body that leaves the list alone, or, in a safe loop, takes pos out:   *)
(* deletes it, or moves it to another list or to the end of this one that  *)
(* the loop has left behind.                                               *)
LoopBody(op, h) ==
    /\ it # NULL /\ it.pos # it.head
    /\ op # "none" => it.safe
    /\ h \in Live
    /\ op = "move" => h # it.head \/ ~it.back
    /\ op = "move_tail" => h # it.head \/ it.back
    /\ op \notin {"move", "move_tail"} => h = it.head
    /\ mem' = CASE op = "none"      -> mem
                [] op = "del"       -> list_del(mem, it.pos)
                [] op = "del_init"  -> list_del_init(mem, it.pos)
                [] op = "move"      -> list_move(mem, it.pos, h)
                [] op = "move_tail" -> list_move_tail(mem, it.pos, h)
    /\ list' = CASE op = "none"      -> list
                 [] op = "move"      -> [Removed(it.pos) EXCEPT ![h] = <<it.pos>> \o @]
                 [] op = "move_tail" -> [Removed(it.pos) EXCEPT ![h] = Append(@, it.pos)]
                 [] OTHER            -> Removed(it.pos)
    /\ Advance(mem')
    /\ UNCHANGED <<del, reader>>

(* A body that deletes the entry after pos, which is where n points, and   *)
(* calls list_safe_reset_next.  The macro reads pos->next: loops forwards. *)
LoopBodyReset ==
    /\ it # NULL /\ it.pos # it.head /\ it.safe /\ ~it.back /\ it.n # it.head
    /\ mem' = list_del(mem, it.n)
    /\ list' = Removed(it.n)
    /\ LET n == mem'.next[it.pos]
           at == CHOOSE i \in DOMAIN it.todo : it.todo[i] = it.n
       IN  it' = [it EXCEPT !.seen = Append(@, it.pos), !.todo = RemoveAt(@, at),
                            !.pos = n, !.n = mem'.next[n]]
    /\ UNCHANGED <<del, reader>>

(* Mutant: the end is looked for like that of a list that is no ring.      *)
LoopEndAtNull ==
    /\ it # NULL /\ it.pos = NULL
    /\ it' = NULL
    /\ UNCHANGED <<mem, list, del, reader>>

LoopEnd ==
    /\ it # NULL /\ it.pos = it.head
    /\ it' = NULL
    /\ UNCHANGED <<mem, list, del, reader>>
-----------------------------------------------------------------------------
(* list_del_init one store at a time, and list_empty_careful on another    *)
(* CPU, which reads next and then prev.                                    *)

DelInitStore(e) ==
    /\ it = NULL /\ UNCHANGED <<it, reader>>
    /\ \/ /\ del = NULL /\ e \in Linked
          /\ mem' = Prev_(mem, mem.next[e], mem.prev[e])
          /\ del' = [e |-> e, step |-> 1] /\ UNCHANGED list
       \/ /\ del = [e |-> e, step |-> 1]
          /\ mem' = Next_(mem, mem.prev[e], mem.next[e])
          /\ del' = [e |-> e, step |-> 2] /\ list' = Removed(e)
       \/ /\ del = [e |-> e, step |-> 2]
          /\ mem' = Next_(mem, e, e)
          /\ del' = [e |-> e, step |-> 3] /\ UNCHANGED list
       \/ /\ del = [e |-> e, step |-> 3]
          /\ mem' = Prev_(mem, e, e)
          /\ del' = NULL /\ UNCHANGED list

(* Mutant: only next is looked at.                                         *)
ListEmptyNext(next, prev, head) == next = head

list_empty_careful(next, prev, head) == next = head /\ next = prev

CarefulRead(e) ==
    /\ it = NULL /\ UNCHANGED <<mem, list, it, del>>
    /\ \/ /\ reader = NULL
          /\ (e \in Free /\ ~Alone(mem, e)) => (del # NULL /\ del.e = e)
          /\ reader' = [e |-> e, next |-> mem.next[e], empty |-> FALSE, done |-> FALSE]
       \/ /\ reader # NULL /\ reader.e = e /\ ~reader.done
          /\ reader' = [reader EXCEPT !.done = TRUE,
                           !.empty = list_empty_careful(reader.next, mem.prev[e], e)]
       \/ /\ reader # NULL /\ reader.e = e /\ reader.done
          /\ reader' = NULL
-----------------------------------------------------------------------------
Next ==
    \/ \E h \in Heads : ListRotateLeft(h) \/ InitListHead(h)
    \/ \E h \in Heads, x \in Nodes, new \in Entries : ListAdd(h, x, new) \/ ListAddTail(h, x, new)
    \/ \E e \in Entries : ListDel(e) \/ ListDelInit(e) \/ DelInitStore(e) \/ CarefulRead(e)
    \/ \E e \in Entries, h \in Heads : ListMove(e, h) \/ ListMoveTail(e, h)
    \/ \E h \in Heads, old, new \in Entries, init \in BOOLEAN : ListReplace(h, old, new, init)
    \/ \E old, new \in Heads, init \in BOOLEAN : ListReplaceHead(old, new, init)
    \/ \E l, h \in Heads, x \in Nodes : ListCutPosition(l, h, x)
    \/ \E l, h \in Heads, tail, init \in BOOLEAN : ListSplice(l, h, tail, init)
    \/ \E h \in Heads, x \in Nodes, start \in {"for_each", "continue", "from"},
          back, safe \in BOOLEAN : LoopStart(h, x, start, back, safe)
    \/ \E op \in {"none", "del", "del_init", "move", "move_tail"}, h \in Heads : LoopBody(op, h)
    \/ LoopBodyReset
    \/ LoopEnd

(* A loop that has begun goes on: it is the caller's own thread.           *)
Loop ==
    \/ \E op \in {"none", "del", "del_init", "move", "move_tail"}, h \in Heads : LoopBody(op, h)
    \/ LoopBodyReset
    \/ LoopEnd

Spec == Init /\ [][Next]_vars /\ WF_vars(Loop)
-----------------------------------------------------------------------------
(* The nodes of a list as a ring: the head at 0 and at Len + 1.            *)
Ring(h, i) == IF i \in 1..Len(list[h]) THEN list[h][i] ELSE h

(* Types of the variables.                                                 *)
TypeOK ==
    /\ mem \in [next : [Nodes -> Nodes \cup {LIST_POISON1}],
               prev : [Nodes -> Nodes \cup {LIST_POISON2}]]
    /\ \A h \in Live : list[h] \in Seq(Entries)
    /\ it # NULL => it.head \in Live /\ it.pos \in Nodes
    /\ del # NULL => del.e \in Entries
    /\ reader # NULL => reader.e \in Entries

(* Following next from a head meets the entries of its list in order and   *)
(* comes back to the head, after every operation and even between two      *)
(* stores of __list_del (linux-list.h:190), where a reader may be under    *)
(* way on another CPU: it never meets a poisoned or a half linked entry.   *)
NextIsList ==
    \A h \in Live : \A i \in 0..Len(list[h]) : mem.next[Ring(h, i)] = Ring(h, i + 1)

(* Following prev meets them in the opposite order whenever no operation   *)
(* is under way: cut, splice, replace and move keep both directions equal. *)
PrevIsList ==
    del = NULL =>
        \A h \in Live : \A i \in 0..Len(list[h]) : mem.prev[Ring(h, i + 1)] = Ring(h, i)

(* Every list is a ring of the entries that the caller put there, and none *)
(* else, in both directions (linux-list.h:128-446).                        *)
ListsAreRings == TypeOK /\ NextIsList /\ PrevIsList

(* The loops (linux-list.h:510-676) run their body once for each entry     *)
(* that was ahead when they began and that nobody took out ahead of them,  *)
(* in order, whatever the body of a safe loop does to its own entry, and   *)
(* the one after it when list_safe_reset_next is called.                   *)
LoopMeetsAll ==
    it # NULL =>
        /\ IsPrefix(it.seen, it.todo)
        /\ it.pos = it.head => it.seen = it.todo

(* list_empty_careful (linux-list.h:308) is true only once the             *)
(* list_del_init on the other CPU has done its last store.                 *)
CarefulMeansDone ==
    (reader # NULL /\ reader.empty) => (Alone(mem, reader.e) /\ (del # NULL => del.e # reader.e))

(* Every loop ends, also when its body keeps moving entries to the end it  *)
(* has left behind.                                                        *)
LoopEnds == it # NULL ~> it = NULL
=============================================================================
