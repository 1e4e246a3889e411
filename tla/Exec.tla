-------------------------------- MODULE Exec --------------------------------
(***************************************************************************)
(* What a process keeps when it executes another program: environment,     *)
(* arguments, standard streams and root (libc/exec, libc/stdlib/env.c,     *)
(* libc/pack, libc/init).  They are packed into a list, written to pages   *)
(* that the new program finds, and unpacked by its _init.                  *)
(*                                                                         *)
(* What the code does not withstand is left out, unless named in Beyond:   *)
(*   "missing"   a variable is deleted that does not exist                 *)
(*   "refused"   dl_exec refuses the image, and the process goes on        *)
(*   "backspace" an argument begins with the character that ends a pack    *)
(***************************************************************************)
EXTENDS Naturals, Sequences, SequencesExt, FiniteSets

CONSTANTS Name, Value,  \* of environment variables
          Args,         \* lists of arguments; "bs" begins with a backspace
          Rp,           \* resource pointers of streams and root
          Opens,        \* descriptors that are opened anew
          MaxSize,      \* bound on the size of the environment
          NULL,
          Beyond        \* the restrictions that are lifted

VARIABLES environ,   \* the environment: a sequence of variables and holes
          endless,   \* the NULL pointer that ends the environment is missing
          argv, fd,  \* arguments; fd[0..2] are the streams, fd[3] is fs_root
          pack,      \* __pack_list
          held,      \* the variable that another thread got from getenv
          crashed,   \* memory is used that is not there any more
          want       \* want[n]: the value of n that was set last, or NULL

vars == <<environ, endless, argv, fd, pack, held, crashed, want>>

Hole == [name |-> "", value |-> ""]
End == [name |-> "bs", value |-> ""]

Init ==
  /\ environ = <<>> /\ endless = FALSE /\ argv = <<>> /\ fd = [i \in 0..3 |-> CHOOSE r \in Rp : TRUE]
  /\ pack = <<>> /\ held = NULL /\ crashed = FALSE
  /\ want = [n \in Name |-> NULL]

-----------------------------------------------------------------------------
Index(env, n) == SelectInSeq(env, LAMBDA v : v.name = n)

(* The value that getenv returns.                                          *)
getenv(n) == LET i == Index(environ, n) IN IF i = 0 THEN NULL ELSE environ[i].value

Set(env, n, v) ==
  LET i == Index(env, n)
      new == [name |-> n, value |-> v]
  IN IF i = 0 THEN Append(env, new) ELSE [env EXCEPT ![i] = new]

Freed(n) == IF held # NULL /\ held.name = n THEN [held EXCEPT !.live = FALSE] ELSE held

setenv(n, v) ==
  /\ ~crashed /\ (Index(environ, n) = 0 => Len(environ) < MaxSize)
  /\ environ' = Set(environ, n, v)
  /\ endless' = (endless /\ Index(environ, n) # 0)
  /\ held' = Freed(n)
  /\ want' = [want EXCEPT ![n] = v]
  /\ UNCHANGED <<argv, fd, pack, crashed>>

(* setenv with value NULL: the variable becomes a hole.  If there is none, *)
(* the NULL pointer that ends the array does, or there is no array.        *)
unsetenv(n) ==
  LET i == Index(environ, n)
  IN /\ ~crashed /\ (i = 0 => "missing" \in Beyond)
     /\ environ' = IF i = 0 THEN environ ELSE [environ EXCEPT ![i] = Hole]
     /\ endless' = (endless \/ i = 0)
     /\ crashed' = (environ = <<>>)
     /\ held' = Freed(n)
     /\ want' = [want EXCEPT ![n] = NULL]
     /\ UNCHANGED <<argv, fd, pack>>

(* Another thread looks at a variable, and does so for a while.            *)
getenv_thread(n) ==
  /\ ~crashed /\ held = NULL /\ getenv(n) # NULL
  /\ held' = [name |-> n, live |-> TRUE]
  /\ UNCHANGED <<environ, endless, argv, fd, pack, crashed, want>>

getenv_done ==
  /\ held # NULL /\ held' = NULL
  /\ UNCHANGED <<environ, endless, argv, fd, pack, crashed, want>>

(* The process opens something else as a stream, or changes its root.      *)
ropen(i, r) ==
  /\ ~crashed /\ fd[i] # r
  /\ fd' = [fd EXCEPT ![i] = r]
  /\ UNCHANGED <<environ, endless, argv, pack, held, crashed, want>>

-----------------------------------------------------------------------------
(* Mutant of packenv: the environment ends at the first hole.              *)
packenv_short(env) ==
  LET i == SelectInSeq(env, LAMBDA v : v = Hole)
  IN Append(IF i = 0 THEN env ELSE SubSeq(env, 1, i - 1), End)

(* packenv leaves holes out, and a backspace ends the pack.  It runs over  *)
(* the end of the array if a hole is the last one, or nothing ends it.     *)
packenv(env) == Append(SelectSeq(env, LAMBDA v : v # Hole), End)
packenv_crash == environ # <<>> /\ (Last(environ) = Hole \/ endless)

(* The part of a pack before the backspace that ends it.                   *)
Before(p, end) == SubSeq(p, 1, SelectInSeq(p, LAMBDA x : x = end) - 1)

loadenv(p) ==
  LET Load(env, v) == Set(env, v.name, v.value) IN FoldLeft(Load, <<>>, Before(p, End))

packarg(a) == Append(a, "bs")
loadarg(p) == Before(p, "bs")

Item(k, d) == [key |-> k, data |-> d, freed |-> FALSE]

__pack_add(list, k, d) == <<Item(k, d)>> \o list

(* What execiv adds to the list before it is saved.                        *)
Packed(a) ==
  LET Add(list, i) == __pack_add(list, <<"file", i>>, fd[i])
      files == FoldLeft(Add, pack, <<0, 1, 2, 3>>)
      withargs == __pack_add(files, <<"arg", 0>>, packarg(a))
  IN IF environ = <<>> THEN withargs ELSE __pack_add(withargs, <<"env", 0>>, packenv(environ))

(* The first item with a key.                                              *)
__pack_load(vector, k, none) ==
  LET i == SelectInSeq(vector, LAMBDA x : x.key = k) IN IF i = 0 THEN none ELSE vector[i].data

(* execiv, and _init of the new program.  __pack_save copies each item and *)
(* frees it; an item that was freed before is copied and freed again.      *)
execiv(a) ==
  LET list == Packed(a)
      bad == packenv_crash \/ \E i \in DOMAIN list : list[i].freed
  IN /\ ~crashed
     /\ "bs" \in ToSet(a) => "backspace" \in Beyond
     /\ IF bad THEN crashed' = TRUE /\ UNCHANGED <<environ, endless, argv, fd, pack, held, want>>
        ELSE /\ environ' = loadenv(__pack_load(list, <<"env", 0>>, <<End>>))
             /\ fd' = [i \in 0..3 |-> __pack_load(list, <<"file", i>>, NULL)]
             /\ argv' = loadarg(__pack_load(list, <<"arg", 0>>, <<"bs">>))
             /\ pack' = <<>> /\ held' = NULL /\ endless' = FALSE
             /\ UNCHANGED <<crashed, want>>

(* dl_exec fails after everything was saved: the items stay in the list.   *)
execiv_refused(a) ==
  /\ ~crashed /\ "refused" \in Beyond /\ ~packenv_crash
  /\ pack' = [i \in DOMAIN Packed(a) |-> [Packed(a)[i] EXCEPT !.freed = TRUE]]
  /\ UNCHANGED <<environ, endless, argv, fd, held, crashed, want>>

Next ==
  \/ \E n \in Name : (\E v \in Value : setenv(n, v)) \/ unsetenv(n) \/ getenv_thread(n)
  \/ getenv_done
  \/ \E i \in Opens, r \in Rp : ropen(i, r)
  \/ \E a \in Args : execiv(a)

Spec == Init /\ [][Next]_vars

(* With images that are refused.                                           *)
RefusingSpec == Init /\ [][Next \/ \E a \in Args : execiv_refused(a)]_vars

-----------------------------------------------------------------------------
(* A variable has the value that was set last, through any number of       *)
(* programs, until it is deleted (env.c:44, 135, 172).                     *)
GetenvRight == ~crashed => \A n \in Name : getenv(n) = want[n]

(* The new program gets the arguments that execiv was called with, and has *)
(* the same streams and root (exec.c:30-76, init.c:95-150).                *)
KeepsStep == \A a \in Args : execiv(a) /\ ~crashed' => argv' = a /\ fd' = fd
ExecKeeps == [][KeepsStep]_vars

(* No memory is used that is not there any more (env.c:140, __pack_save).  *)
NoCrash == ~crashed

(* "This function is thread-safe." (env.c:36): what getenv returned stays  *)
(* valid while it is looked at; see the README.                            *)
ThreadSafe == held # NULL => held.live

=============================================================================
