-------------------------------- MODULE Walk --------------------------------
(***************************************************************************)
(* walkfiles.c: the ignores, filters and flags that a walkfile_struct      *)
(* collects, and the walk of a directory tree with them.  Names and paths  *)
(* are sequences of characters; a path is put together with strconcat in a *)
(* buffer of PATH_SIZE cells (1024 in the code), a name is matched with    *)
(* fnmatch.  A regular expression is modelled by what it is used for: it   *)
(* is a name, and matches the paths that contain it.                       *)
(***************************************************************************)
EXTENDS Fnmatch, Strings

PATH_SIZE == 8
MAX_OPEN == 4      \* directories a process can have open at once

(* The file types as the bits of st_mode, and the flags beside them.       *)
S_IFREG == {"0100000"}
S_IFDIR == {"0040000"}
S_IFCHR == {"0020000"}
S_IFBLK == {"0020000", "0040000"}
S_IFLNK == {"0020000", "0100000"}
WALK_XDEV         == {"xdev"}
WALK_NO_SUBDIRS   == {"no subdirs"}
WALK_DOTFILES     == {"dotfiles"}
WALK_ONE_DIR      == {"one dir"}
WALK_INCLUDE_DIRS == {"include dirs"}

(* The tree: each path's type, device and, for a directory, its entries in *)
(* the order in which readdir returns them.  The entries of the directory  *)
(* r/d/e/f have paths that do not fit.                                     *)
Dot == <<".">>
DotDot == <<".", ".">>
Dir(entries, dev) == [mode |-> S_IFDIR, dev |-> dev, entries |-> <<Dot, DotDot>> \o entries]
File(mode) == [mode |-> mode, dev |-> 1]
Root == <<"r">>
SubPath(path, name) == path \o <<"/">> \o name

Tree(deep) ==
    LET r == Root
        d == SubPath(r, <<"d">>)
        e == SubPath(d, <<"e">>)
        i == SubPath(r, <<"i">>)
        f == SubPath(e, <<"f">>)
    IN  (r :> Dir(<<<<"a">>, <<".", "h">>, <<"d">>, <<"i">>, <<"l">>>>, 1))
        @@ (SubPath(r, <<"a">>) :> File(S_IFREG)) @@ (SubPath(r, <<".", "h">>) :> File(S_IFREG))
        @@ (SubPath(r, <<"l">>) :> File(S_IFLNK))
        @@ (d :> Dir(<<<<"b">>, <<"a">>, <<"e">>>>, 1))
        @@ (SubPath(d, <<"a">>) :> File(S_IFCHR)) @@ (SubPath(d, <<"b">>) :> File(S_IFBLK))
        @@ (i :> Dir(<<<<"a">>>>, 2)) @@ (SubPath(i, <<"a">>) :> File(S_IFREG))
        @@ (e :> Dir(IF deep THEN <<<<"f">>>> ELSE <<<<"a">>>>, 1))
        @@ (IF deep THEN (f :> Dir(<<<<"g">>>>, 1)) @@ (SubPath(f, <<"g">>) :> File(S_IFREG))
            ELSE SubPath(e, <<"a">>) :> File(S_IFREG))

(* regexec: does the expression match somewhere in the path?               *)
RegExec(re, path) == \E i \in 1..Len(path) : IsPrefix(re, SubSeq(path, i, Len(path)))
-----------------------------------------------------------------------------
add_ignore(walk, re) == [walk EXCEPT !.ignores = <<re>> \o @]

check_ignores(walk, path) == \E i \in DOMAIN walk.ignores : RegExec(walk.ignores[i], path)

(* A filter is a glob or, with pat = <<>>, a regular expression.  A glob   *)
(* that is there already is not added again; strcmp is not prepared for a  *)
(* filter without a glob, and the program ends there.                      *)
add_filter(walk, pat) ==
    LET same == {i \in DOMAIN walk.filters : walk.filters[i].pat = pat}
        regexes == {i \in DOMAIN walk.filters : walk.filters[i].pat = <<>>}
    IN  IF regexes # {} /\ \A i \in same : Min(regexes) < i THEN [walk EXCEPT !.crashed = TRUE]
        ELSE IF same # {} THEN walk
        ELSE [walk EXCEPT !.filters = <<[pat |-> pat, re |-> <<>>]>> \o @]

add_filter_re(walk, re) == [walk EXCEPT !.filters = <<[pat |-> <<>>, re |-> re]>> \o @]

check_filters(walk, fname) ==
    walk.filters = <<>> \/ \E i \in DOMAIN walk.filters :
        IF walk.filters[i].pat # <<>> THEN fnmatch(walk.filters[i].pat, fname, {})
        ELSE RegExec(walk.filters[i].re, fname)

(* lstat; gone are the paths that were removed meanwhile.                  *)
Exists(tree, gone, path) == path \in DOMAIN tree /\ path \notin gone

(* The path of an entry, cut off where the buffer ends.                    *)
EntryPath(dname, name) ==
    String(strconcat([i \in 1..PATH_SIZE |-> "?"], PATH_SIZE,
                     IF dname = <<"/">> THEN <<dname, name>> ELSE <<dname, <<"/">>, name>>).mem)

(* Mutant: the result of file_func replaces the error so far.              *)
FileFuncReplaces(done, path, bad) == [met |-> Append(done.met, path), error |-> path \in bad]

(* What a call of file_func does to what is known of the walk so far.      *)
FileFunc(done, path, bad) == [met |-> Append(done.met, path), error |-> done.error \/ path \in bad]

RECURSIVE do_dir(_, _, _, _, _, _)
RECURSIVE Entries(_, _, _, _, _, _, _)

(* w holds the tree and what goes wrong in it: the paths that are gone and *)
(* those for which file_func fails.                                        *)
do_dir(walk, w, dname, dev, open, done) ==
    IF open = MAX_OPEN \/ ~Exists(w.tree, w.gone, dname) THEN [done EXCEPT !.error = TRUE]
    ELSE Entries(walk, w, dname, dev, open + 1, w.tree[dname].entries, done)

Entries(walk, w, dname, dev, open, ents, done) ==
    IF ents = <<>> THEN done
    ELSE LET name == Head(ents)
             path == EntryPath(dname, name)
             s == w.tree[path]
             match == IF WALK_ONE_DIR \subseteq walk.flags /\ s.mode = S_IFDIR THEN S_IFREG ELSE s.mode
             dirDone == IF WALK_INCLUDE_DIRS \subseteq walk.flags THEN FileFunc(done, path, w.bad) ELSE done
             next == CASE name \in {Dot, DotDot} \/ (name[1] = "." /\ ~(WALK_DOTFILES \subseteq walk.flags)) -> done
                       [] OTHER ->
                            IF check_ignores(walk, path) THEN done
                            ELSE IF ~Exists(w.tree, w.gone, path) THEN [done EXCEPT !.error = TRUE]
                            ELSE IF match = S_IFDIR
                                 THEN IF \/ WALK_NO_SUBDIRS \subseteq walk.flags
                                         \/ WALK_XDEV \subseteq walk.flags /\ s.dev # dev THEN done
                                      ELSE do_dir(walk, w, path, s.dev, open, dirDone)
                            ELSE IF match # S_IFREG /\ ~(match \subseteq walk.flags) THEN done
                            ELSE IF check_filters(walk, name) THEN FileFunc(done, path, w.bad)
                            ELSE done
         IN  Entries(walk, w, dname, dev, open, Tail(ents), next)

walkfiles(walk, w, path) ==
    LET s == w.tree[path]
        start == [met |-> <<>>, error |-> FALSE]
    IN  IF ~Exists(w.tree, w.gone, path) THEN [met |-> <<>>, error |-> TRUE]
        ELSE IF s.mode = S_IFDIR THEN do_dir(walk, w, path, s.dev, 0, start)
        ELSE FileFunc(start, path, w.bad)
-----------------------------------------------------------------------------
MAX_SETUP == 2     \* additions before the first walk
MAX_WALKS == 2

WalkInit ==
    /\ call = Idle
    /\ call' = [fn |-> "walk", walk |-> [ignores |-> <<>>, filters |-> <<>>, flags |-> {}, crashed |-> FALSE],
                asked |-> {}, setups |-> 0, walks |-> <<>>]

WalkSetup(walk) ==
    /\ call.setups < MAX_SETUP /\ call.walks = <<>> /\ ~call.walk.crashed
    /\ call' = [call EXCEPT !.walk = walk, !.setups = @ + 1]

(* The flags are added to those of the earlier calls, unless the path has  *)
(* gone.  asked records the flags for the property.                        *)
Walkfiles(path, flags, deep, gone, bad) ==
    /\ Len(call.walks) < MAX_WALKS /\ ~call.walk.crashed
    /\ LET added == IF Exists(Tree(deep), gone, path) THEN flags ELSE {}
           walk == [call.walk EXCEPT !.flags = @ \cup added]
           w == [tree |-> Tree(deep), gone |-> gone, bad |-> bad]
       IN  call' = [call EXCEPT !.walk = walk, !.asked = @ \cup added,
                                !.walks = Append(@, [path |-> path, deep |-> deep, gone |-> gone, bad |-> bad,
                                                     res |-> walkfiles(walk, w, path)])]

FlagSets == {{}, S_IFLNK, S_IFCHR, S_IFBLK, WALK_XDEV, WALK_NO_SUBDIRS, WALK_DOTFILES, WALK_ONE_DIR,
             WALK_INCLUDE_DIRS}

(* What goes wrong during the first walk: paths that have gone, and paths  *)
(* for which file_func returns an error.                                   *)
NoTrouble == [gone |-> {}, bad |-> {}]
Troubles ==
    LET a == SubPath(Root, <<"a">>)
        d == SubPath(Root, <<"d">>)
    IN  {NoTrouble, [gone |-> {d}, bad |-> {}], [gone |-> {a}, bad |-> {d}], [gone |-> {}, bad |-> {a}]}

WalkCall ==
    \/ WalkInit
    \/ /\ call.fn = "walk"
       /\ \/ \E re \in {<<"a">>, <<"d">>} : WalkSetup(add_ignore(call.walk, re))
          \/ \E pat \in {<<"?">>, <<"[", "b", "]">>} : WalkSetup(add_filter(call.walk, pat))
          \/ \E re \in {<<"a">>} : WalkSetup(add_filter_re(call.walk, re))
          \/ \E path \in {Root, SubPath(Root, <<"a">>)}, flags \in FlagSets, t \in Troubles :
                (call.walks # <<>> => t = NoTrouble) /\ Walkfiles(path, flags, FALSE, t.gone, t.bad)
          \/ call.walks = <<>> /\ \E flags \in FlagSets : Walkfiles(Root, flags, TRUE, {}, {SubPath(Root, <<"a">>)})

(* The reference: what a walk from Root should meet.                       *)
Above(tree, q) == {p \in DOMAIN tree : IsPrefix(p \o <<"/">>, q)}
Parent(tree, q) == CHOOSE p \in Above(tree, q) : \A o \in Above(tree, q) : Len(o) <= Len(p)
NameOf(tree, q) == SubSeq(q, Len(Parent(tree, q)) + 2, Len(q))

Considered(tree, walk, q) ==
    /\ q # Root
    /\ NameOf(tree, q)[1] = "." => WALK_DOTFILES \subseteq walk.flags
    /\ ~check_ignores(walk, q)

Entered(tree, walk, gone, p) ==
    \/ p = Root
    \/ /\ tree[p].mode = S_IFDIR /\ Considered(tree, walk, p) /\ p \notin gone
       /\ walk.flags \cap (WALK_ONE_DIR \cup WALK_NO_SUBDIRS) = {}
       /\ WALK_XDEV \subseteq walk.flags => tree[p].dev = tree[Parent(tree, p)].dev

Seen(tree, walk, gone, q) ==
    Considered(tree, walk, q) /\ \A p \in Above(tree, q) : Entered(tree, walk, gone, p)

Reported(tree, walk, gone, q) ==
    /\ Seen(tree, walk, gone, q) /\ q \notin gone
    /\ IF tree[q].mode = S_IFDIR /\ ~(WALK_ONE_DIR \subseteq walk.flags)
       THEN Entered(tree, walk, gone, q) /\ WALK_INCLUDE_DIRS \subseteq walk.flags
       ELSE /\ tree[q].mode \in {S_IFREG, S_IFDIR} \/ tree[q].mode \subseteq walk.flags
            /\ check_filters(walk, NameOf(tree, q))

(* A walk (walkfiles.c:128, 223) calls file_func once for every path that  *)
(* the ignores, the filters and the flags of this and of all earlier calls *)
(* on the structure (line 241) select, below directories that it enters,   *)
(* and for no other; it returns an error exactly when a path had gone when *)
(* it was to be looked at (line 167) or file_func failed for one (lines    *)
(* 189, 202), whatever came later.  A flag selects the types whose bits it *)
(* contains, so S_IFBLK also character devices, as samlib.h:184 says, and  *)
(* S_IFLNK too, which it does not say.  Paths too long for the buffer are  *)
(* left out: the test at line 155 never finds one.                         *)
WalkMeetsSelected ==
    (call.fn = "walk" /\ call.walks # <<>>) =>
        LET last == call.walks[Len(call.walks)]
            tree == Tree(FALSE)
            walk == [call.walk EXCEPT !.flags = call.asked]
        IN  last.path = Root /\ ~last.deep =>
                /\ IsInjective(last.res.met)
                /\ Range(last.res.met) = {q \in DOMAIN tree : Reported(tree, walk, last.gone, q)}
                /\ last.res.error = ((\E q \in last.gone : Seen(tree, walk, last.gone, q))
                                      \/ (\E q \in last.bad : Reported(tree, walk, last.gone, q)))
=============================================================================
