-------------------------------- MODULE Vfs ---------------------------------
(***************************************************************************)
(* The file system that drivers and libc build together: directories and   *)
(* symbolic links are robjects of drivers (librdi/class_dir.c,             *)
(* class_link.c), a client resolves paths with requests to them            *)
(* (libc/natio/fs_find.c, fs_cons.c, fs_link.c, rp_list.c, rp_slink.c;     *)
(* libc/path).                                                             *)
(*                                                                         *)
(* A path is a sequence of names, a symbolic link an object to start from  *)
(* ("@rp", or the root) and a path.  A step is a section under the mutex   *)
(* of a robject, or the part of a request between two of them.             *)
(***************************************************************************)
EXTENDS Integers, Sequences, SequencesExt, FiniteSets

CONSTANTS Dir, Link, File,  \* objects, by their type
          Root,             \* the directory fs_root
          Initial,          \* Initial[d][n]: the entries that drivers set up
          NULL,
          Client,           \* threads that make calls
          Plans,            \* Plans[k]: the targets that links have, the calls of
                            \* each client, and their paths, with "." and ".."
          MaxLinks,         \* how many links are followed (64)
          MaxNodes          \* bound on the nodes of directory lists

VARIABLES entry,   \* entry[d][n]: the robject data "dirent-n" of directory d
          list,    \* list[d]: the first node of the list of d
          node,    \* the nodes: name, next, prev
          target,  \* target[l]: where link l leads
          made,    \* the files that exist
          plan,    \* which of the plans is carried out
          find,    \* find[c]: the request "find" of c that a driver works on
          call     \* call[c]: the call that c is in

vars == <<entry, list, node, target, made, plan, find, call>>

Obj == Dir \cup Link \cup File
Name == UNION {DOMAIN Initial[d] : d \in Dir}

(* path_simplify: by the text of the path alone.  NULL above the root.     *)
path_simplify(p) ==
  LET Step(s, n) == CASE s = NULL \/ n = "." -> s
                      [] s # NULL /\ n = ".." -> IF s = <<>> THEN NULL ELSE Front(s)
                      [] OTHER -> Append(s, n)
  IN FoldLeft(Step, <<>>, p)

path_parent(p) == Front(p)
path_name(p) == Last(p)

NoFind == [at |-> NULL, rest |-> <<>>, left |-> 0, link |-> FALSE, state |-> "none"]
NoCall == [does |-> "none", path |-> <<>>, stage |-> "none", dir |-> NULL, obj |-> NULL,
           list |-> 0, must |-> {}, seen |-> <<>>]

(* The list of directory d after a node for name n was put in front.       *)
Inserted(s, d, n, first) ==
  LET i == Len(s.node) + 1
  IN [node |-> Append([k \in DOMAIN s.node |-> IF k = first THEN [s.node[k] EXCEPT !.prev = i]
                                                ELSE s.node[k]],
                      [name |-> n, next |-> first, prev |-> 0]),
      list |-> [s.list EXCEPT ![d] = i]]

(* rdi_vfs_add: the entries that drivers set up are in the lists as well.  *)
rdi_vfs_add ==
  LET Add(s, e) == Inserted(s, e[1], e[2], s.list[e[1]])
  IN FoldLeft(Add, [node |-> <<>>, list |-> [d \in Dir |-> 0]],
              SetToSeq({e \in Dir \X Name : Initial[e[1]][e[2]] # NULL}))

Init ==
  /\ entry = Initial
  /\ list = rdi_vfs_add.list /\ node = rdi_vfs_add.node
  /\ plan \in DOMAIN Plans /\ target \in Plans[plan].targets
  /\ made = {o \in File : \E d \in Dir, n \in Name : Initial[d][n] = o}
  /\ find = [c \in Client |-> NoFind] /\ call = [c \in Client |-> NoCall]

-----------------------------------------------------------------------------
(* __fs_find with root r and path p, when `left` more links may be         *)
(* followed: fails, is the root itself, or asks the driver of r, with the  *)
(* flag -L if a link at the end of the path is not to be followed.         *)
__fs_find(r, p, left, link) ==
  LET s == path_simplify(p)
  IN IF left < 0 THEN [NoFind EXCEPT !.state = "failed"]
     ELSE IF p = <<>> THEN [NoFind EXCEPT !.state = "found", !.at = r]
     ELSE IF s = NULL THEN [NoFind EXCEPT !.state = "failed"]
     ELSE [at |-> r, rest |-> s, left |-> left, link |-> link,
           state |-> IF r \in Dir THEN "walk" ELSE "other"]

(* Mutant of Redirected: the links are not counted.                        *)
Redirected_free(f, tail) == __fs_find(target[f.at].from, target[f.at].path \o tail, f.left, f.link)

(* Mutant of Redirected: the rest of the path is lost.                     *)
Redirected_short(f, tail) == __fs_find(target[f.at].from, target[f.at].path, f.left - 1, f.link)

(* The reply ">> link/tail".                                               *)
Redirected(f, tail) == __fs_find(target[f.at].from, target[f.at].path \o tail, f.left - 1, f.link)

(* One step of the request: __find and _find of class_dir.c; a robject     *)
(* that is no directory is asked by its own type (class_core.c: itself;    *)
(* class_link.c: its target, without the rest of the path, or with -L      *)
(* itself).                                                                *)
find_step(c) ==
  LET f == find[c]
  IN /\ f.state \in {"walk", "other"}
     /\ find' = [find EXCEPT ![c] =
          CASE f.state = "other" -> IF f.at \in Link /\ ~f.link THEN Redirected(f, <<>>)
                                    ELSE [f EXCEPT !.state = "found"]
            [] f.state = "walk" /\ f.at \in Link /\ ~(f.rest = <<>> /\ f.link) ->
                 Redirected(f, f.rest)
            [] f.state = "walk" /\ f.rest = <<>> /\ (f.at \in Link => f.link) ->
                 [f EXCEPT !.state = "found"]
            [] OTHER ->
                 LET o == IF f.at \in Dir THEN entry[f.at][Head(f.rest)] ELSE NULL
                 IN IF o = NULL THEN [NoFind EXCEPT !.state = "failed"]
                    ELSE [f EXCEPT !.at = o, !.rest = Tail(@)]]
     /\ UNCHANGED <<entry, list, node, target, made, plan, call>>

(* What fs_find returned.                                                  *)
Result(c) == IF find[c].state = "found" THEN find[c].at ELSE NULL
Resolved(c) == find[c].state \in {"found", "failed"}

(* Client c goes on with another stage of its call; a call that is done    *)
(* leaves nothing behind.                                                  *)
Goto(c, r) == call' = [call EXCEPT ![c] = r] /\ find' = [find EXCEPT ![c] = NoFind]
Done(c) == Goto(c, NoCall)
Searching(c, r, p) ==
  /\ call' = [call EXCEPT ![c] = r]
  /\ find' = [find EXCEPT ![c] = __fs_find(Root, p, MaxLinks, r.does = "findl")]

(* A client makes a call: each begins with the search for a path.          *)
begin(c, does, p) ==
  /\ call[c].does = "none" /\ does \in Plans[plan].does[c]
  /\ does \in {"cons", "ulink"} => p # <<>> /\ Last(p) \in Name
  /\ IF does = "ulink"
     THEN Searching(c, [NoCall EXCEPT !.does = does, !.path = p, !.stage = "dir"], path_parent(p))
     ELSE Searching(c, [NoCall EXCEPT !.does = does, !.path = p, !.stage = "path"], p)
  /\ UNCHANGED <<entry, list, node, target, made, plan>>

(* fs_find, and fs_findl, which asks with the flag -L.                     *)
fs_find(c) ==
  /\ call[c].does \in {"find", "findl"} /\ Resolved(c)
  /\ Done(c)
  /\ UNCHANGED <<entry, list, node, target, made, plan>>

(* fs_cons: fails if the path exists (it returns 1).                       *)
fs_cons_check(c) ==
  /\ call[c].does = "cons" /\ call[c].stage = "path" /\ Resolved(c)
  /\ IF Result(c) # NULL THEN Done(c)
     ELSE Searching(c, [call[c] EXCEPT !.stage = "dir"], path_parent(call[c].path))
  /\ UNCHANGED <<entry, list, node, target, made, plan>>

(* rp_cons: the driver of the directory makes an object.  It is lost if    *)
(* what was found is no directory, since "link" is then refused.           *)
rp_cons(c) ==
  /\ call[c].does = "cons" /\ call[c].stage = "dir" /\ Resolved(c)
  /\ IF Result(c) = NULL THEN Done(c) /\ UNCHANGED made
     ELSE \E o \in File \ made :
            /\ made' = made \cup {o}
            /\ IF Result(c) \in Dir
               THEN Goto(c, [call[c] EXCEPT !.stage = "link", !.dir = Result(c), !.obj = o])
               ELSE Done(c)
  /\ UNCHANGED <<entry, list, node, target, plan>>

-----------------------------------------------------------------------------
(* _link: an entry that exists is only changed.                            *)
_link_check(c) ==
  LET k == call[c]
  IN /\ k.stage = "link"
     /\ Goto(c, [k EXCEPT !.stage = IF entry[k.dir][path_name(k.path)] # NULL
                                    THEN "replace" ELSE "enter"])
     /\ UNCHANGED <<entry, list, node, target, made, plan>>

_link_set(c) ==
  LET k == call[c]
  IN /\ k.stage \in {"replace", "enter"}
     /\ entry' = [entry EXCEPT ![k.dir][path_name(k.path)] = k.obj]
     /\ IF k.stage = "replace" THEN Done(c) ELSE Goto(c, [k EXCEPT !.stage = "list"])
     /\ UNCHANGED <<list, node, target, made, plan>>

_link_list(c) ==
  /\ call[c].stage = "list"
  /\ Goto(c, [call[c] EXCEPT !.stage = "insert", !.list = list[call[c].dir]])
  /\ UNCHANGED <<entry, list, node, target, made, plan>>

_link_insert(c) ==
  LET k == call[c]
      s == Inserted([node |-> node, list |-> list], k.dir, path_name(k.path), k.list)
  IN /\ k.stage = "insert" /\ Len(node) < MaxNodes
     /\ node' = s.node /\ list' = s.list
     /\ Done(c)
     /\ UNCHANGED <<entry, target, made, plan>>

-----------------------------------------------------------------------------
(* fs_ulink: the entry is cleared first, then its node leaves the list.    *)
_unlink_check(c) ==
  /\ call[c].does = "ulink" /\ call[c].stage = "dir" /\ Resolved(c)
  /\ IF Result(c) \notin Dir THEN Done(c)
     ELSE IF entry[Result(c)][path_name(call[c].path)] = NULL THEN Done(c)
     ELSE Goto(c, [call[c] EXCEPT !.stage = "clear", !.dir = Result(c)])
  /\ UNCHANGED <<entry, list, node, target, made, plan>>

(* A call "list" that runs no longer has to show the name.                 *)
_unlink_clear(c) ==
  LET k == call[c]
      n == path_name(k.path)
      r == [k EXCEPT !.stage = "search"]
  IN /\ k.stage = "clear"
     /\ entry' = [entry EXCEPT ![k.dir][n] = NULL]
     /\ made' = made \ {entry[k.dir][n]}
     /\ call' = [d \in Client |-> IF d = c THEN r
                                  ELSE IF call[d].dir = k.dir
                                  THEN [call[d] EXCEPT !.must = @ \ {n}] ELSE call[d]]
     /\ UNCHANGED <<list, node, target, plan, find>>

_unlink_list(c) ==
  /\ call[c].stage = "search"
  /\ Goto(c, [call[c] EXCEPT !.stage = "remove", !.list = list[call[c].dir]])
  /\ UNCHANGED <<entry, list, node, target, made, plan>>

(* The nodes from n on, in the order of the list.                          *)
RECURSIVE Nodes(_)
Nodes(n) == IF n = 0 THEN <<>> ELSE <<n>> \o Nodes(node[n].next)

(* Mutant of _unlink_remove: the node before is not told.                  *)
_unlink_remove_first(c) ==
  LET k == call[c]
      hits == SelectSeq(Nodes(k.list), LAMBDA n : node[n].name = path_name(k.path))
      gone == node[hits[1]]
  IN /\ k.stage = "remove"
     /\ IF hits = <<>> THEN UNCHANGED <<list, node>>
        ELSE /\ list' = IF gone.prev = 0 THEN [list EXCEPT ![k.dir] = gone.next] ELSE list
             /\ node' = [i \in DOMAIN node |->
                           IF i = gone.next THEN [node[i] EXCEPT !.prev = gone.prev] ELSE node[i]]
     /\ Done(c)
     /\ UNCHANGED <<entry, target, made, plan>>

(* The node is taken out and stays as it is: it is not freed.              *)
_unlink_remove(c) ==
  LET k == call[c]
      hits == SelectSeq(Nodes(k.list), LAMBDA n : node[n].name = path_name(k.path))
      gone == node[hits[1]]
  IN /\ k.stage = "remove"
     /\ IF hits = <<>> THEN UNCHANGED <<list, node>>
        ELSE /\ list' = IF gone.prev = 0 THEN [list EXCEPT ![k.dir] = gone.next] ELSE list
             /\ node' = [i \in DOMAIN node |->
                           CASE i = gone.prev -> [node[i] EXCEPT !.next = gone.next]
                             [] i = gone.next -> [node[i] EXCEPT !.prev = gone.prev]
                             [] OTHER         -> node[i]]
     /\ Done(c)
     /\ UNCHANGED <<entry, target, made, plan>>

-----------------------------------------------------------------------------
Listed(d) == {n \in Name : entry[d][n] # NULL}

(* _list: reads the first node, then follows the list.                     *)
_list_first(c) ==
  /\ call[c].does = "list" /\ call[c].stage = "path" /\ Resolved(c)
  /\ IF Result(c) \notin Dir THEN Done(c)
     ELSE LET d == Result(c)
          IN Goto(c, [call[c] EXCEPT !.stage = "walk", !.dir = d, !.list = list[d],
                        !.must = {n \in Listed(d) :
                                    \A b \in Client : ~(/\ call[b].stage \in {"list", "insert"}
                                                        /\ call[b].dir = d
                                                        /\ path_name(call[b].path) = n)}])
  /\ UNCHANGED <<entry, list, node, target, made, plan>>

_list_next(c) ==
  LET k == call[c]
  IN /\ k.stage = "walk" /\ k.list # 0
     /\ Goto(c, [k EXCEPT !.seen = Append(@, node[k.list].name), !.list = node[k.list].next])
     /\ UNCHANGED <<entry, list, node, target, made, plan>>

_list_done(c) ==
  /\ call[c].stage = "walk" /\ call[c].list = 0
  /\ Done(c)
  /\ UNCHANGED <<entry, list, node, target, made, plan>>

Step(c) ==
  \/ find_step(c) \/ fs_find(c)
  \/ fs_cons_check(c) \/ rp_cons(c)
  \/ _link_check(c) \/ _link_set(c) \/ _link_list(c) \/ _link_insert(c)
  \/ _unlink_check(c) \/ _unlink_clear(c) \/ _unlink_list(c) \/ _unlink_remove(c)
  \/ _list_first(c) \/ _list_next(c) \/ _list_done(c)

Next ==
  \E c \in Client :
    \/ \E does \in {"find", "findl", "cons", "ulink", "list"}, p \in Plans[plan].paths : begin(c, does, p)
    \/ Step(c)

Spec == Init /\ [][Next]_vars

(* The threads of clients and drivers run again and again.                 *)
Fairness == \A c \in Client : WF_vars(find_step(c))

FairSpec == Spec /\ Fairness

-----------------------------------------------------------------------------
(* The object that a path leads to, name by name: the directory first,     *)
(* then its entry, then the links from there; n links were followed.       *)
RECURSIVE Meaning(_, _, _), Follow(_)
Follow(m) ==
  IF m.o \notin Link THEN m
  ELSE LET p == path_simplify(target[m.o].path)
       IN IF m.n = MaxLinks \/ p = NULL THEN [m EXCEPT !.o = NULL]
          ELSE Meaning(target[m.o].from, p, m.n + 1)
Meaning(r, p, n) ==
  IF p = <<>> THEN [o |-> r, n |-> n]
  ELSE LET d == Meaning(r, Front(p), n)
       IN IF d.o \notin Dir THEN [d EXCEPT !.o = NULL]
          ELSE Follow([d EXCEPT !.o = entry[d.o][Last(p)]])

(* The object that a path names, with a link at its end left as it is.     *)
Named(p) ==
  IF p = <<>> THEN Root
  ELSE LET d == Meaning(Root, Front(p), 0).o
       IN IF d \in Dir THEN entry[d][Last(p)] ELSE NULL

Writers == {c \in Client : Plans[plan].does[c] \cap {"cons", "ulink"} # {}}

(* Replacing a link in the text of a path and asking again leads to what   *)
(* resolving it name by name does, and fails after as many links           *)
(* (class_dir.c:91, fs_find.c:98); fs_findl() follows all links but one at *)
(* the end of the path.                                                    *)
FindRight ==
  \A c \in Client :
    LET s == path_simplify(call[c].path)
    IN (Resolved(c) /\ Writers \subseteq {c} /\ s # NULL) =>
         /\ call[c].does = "find"  => Result(c) = Meaning(Root, s, 0).o
         /\ call[c].does = "findl" => Result(c) = Named(s)

(* Every search ends, links in a circle included (fs_find.c:51).           *)
FindsEnd == \A c \in Client : find[c].state \in {"walk", "other"} ~> find[c].state \notin {"walk", "other"}

(* Between the calls that change it, the list of a directory holds the     *)
(* names of its entries, each once (class_dir.c:159, 197), if one client   *)
(* makes them.                                                             *)
ListExact ==
  (Cardinality(Writers) = 1 /\ \A c \in Writers : call[c].does = "none") =>
    \A d \in Dir : LET ns == Nodes(list[d])
                   IN /\ {node[ns[i]].name : i \in DOMAIN ns} = Listed(d)
                      /\ Len(ns) = Cardinality(Listed(d))

(* A list that is read while one other client changes the directory shows  *)
(* every entry that was there all the time, once (class_dir.c:107-120).    *)
ListSees ==
  \A c \in Client :
    (Cardinality(Writers) = 1 /\ call[c].stage = "walk" /\ call[c].list = 0) =>
      \A n \in call[c].must : Cardinality({i \in DOMAIN call[c].seen : call[c].seen[i] = n}) = 1

Replaces(d, n) == entry[d][n] # NULL /\ entry'[d][n] \notin {entry[d][n], NULL}

(* fs_cons never takes the place of a file or a directory (fs_cons.c:44),  *)
(* if one client creates files.                                            *)
NoReplace ==
  [][\A d \in Dir, n \in Name :
       (Cardinality(Writers) = 1 /\ Replaces(d, n)) => entry[d][n] \in Link]_vars

(* The same for any number of clients, and for links: see the README.      *)
NoReplaceAlways == [][\A d \in Dir, n \in Name : Replaces(d, n) => entry[d][n] \in Link]_vars

LinkKept == [][\A d \in Dir, n \in Name : ~Replaces(d, n)]_vars

(* The lists, when several clients change directories; see the README.     *)
ListExactAlways ==
  (\A c \in Client : call[c].does = "none") =>
    \A d \in Dir : {node[n].name : n \in {Nodes(list[d])[i] : i \in DOMAIN Nodes(list[d])}} = Listed(d)

=============================================================================
