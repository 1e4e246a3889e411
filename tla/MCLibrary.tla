----------------------------- MODULE MCLibrary ------------------------------
(***************************************************************************)
(* Data structures of libraries, kernel and applications, which do not     *)
(* interact: a run uses one of them, which is chosen in its initial state. *)
(***************************************************************************)
EXTENDS Integers, Sequences

CONSTANTS NULL, Crash, MaxPos, MaxMoves, Beyond, Chosen

VARIABLES which, root, tree, plan, table, hash, dict, file, stream, second, got,
          environ, endless, argv, fd, pack, held, crashed, want,
          handlerv, mutex, at, sets, ran, ended, bucket, brk, live, panic,
          board, turn, moves

(* A driver that only adds objects, and one that also deletes some.        *)
Tree == INSTANCE Index
          WITH Key <- 1..7, Object <- {"o"}, dict <- tree,
               Plans <- {[keys |-> 1..7, deletes |-> FALSE], [keys |-> 1..4, deletes |-> TRUE]}

(* A table that starts with two slots: four keys with any hashes; eight,   *)
(* two of which always collide, so that it shrinks with a chain in it.     *)
Hash == INSTANCE Table
          WITH Key <- 1..8, Data <- {"x", "y"}, MinLog <- 1,
               Hashes <- {h \in [1..4 -> 0..3] : \A k \in 1..3 : h[k] <= h[k + 1]}
                           \cup {<<0, 16, 1, 2, 3, 4, 5, 6>>}

File == INSTANCE Stdio
          WITH Data <- {<<"a">>, <<"n", "a">>}, Newline <- "n", Counts <- {1, 2},
               BufSizes <- {2}, Junk <- "?", Unset <- {0, 2}, None <- NULL

Env == INSTANCE Exec
         WITH Name <- {"m", "n", "o"}, Value <- {"x", "y"}, Rp <- {"p", "q"}, Opens <- {1, 3},
              MaxSize <- 3, Args <- {<<"a">>, <<"a", "b">>, <<"a", "bs", "b">>}

Sig == INSTANCE Signals
         WITH Signal <- {"s1", "s2"}, Thread <- {"t1", "t2", "t3"}, Program <- {"m1", "m2"},
              MaxSets <- 3

(* Slabs of one page of four words, and of four blocks of eight words.     *)
Blocks == INSTANCE Slab
            WITH Buckets <- 4, PageLog <- 2, HeapEnd <- 41, Sizes <- {1, 3, 5}, MaxLive <- 3

Go == INSTANCE Goban WITH N <- 3, Ids <- 5

treeVars  == <<root, tree, plan>>
tableVars == <<table, hash, dict>>
fileVars  == <<file, stream, second, got>>
envVars   == <<environ, endless, argv, fd, pack, held, crashed, want>>
sigVars   == <<handlerv, mutex, at, sets, ran, ended>>
slabVars  == <<bucket, brk, live, panic>>
goVars    == <<board, turn, moves>>
processVars == <<envVars, sigVars, slabVars, goVars>>
vars == <<which, treeVars, tableVars, fileVars, processVars>>

(* What is not chosen does not exist, but for what a PROPERTY is about.    *)
Init ==
  /\ which \in Chosen
  /\ File!Init /\ Env!Init
  /\ IF which = "tree" THEN Tree!Init ELSE root = NULL /\ tree = NULL /\ plan = NULL
  /\ IF which = "table" THEN Hash!Init ELSE table = NULL /\ hash = NULL /\ dict = NULL
  /\ IF which = "signal" THEN Sig!Init
     ELSE handlerv = NULL /\ mutex = NULL /\ at = NULL /\ sets = NULL /\ ran = NULL /\ ended = NULL
  /\ IF which = "slab" THEN Blocks!Init ELSE bucket = NULL /\ brk = NULL /\ live = NULL /\ panic = NULL
  /\ IF which = "go" THEN Go!Init ELSE board = NULL /\ turn = NULL /\ moves = NULL

TreeNext  == which = "tree"  /\ Tree!Next /\ UNCHANGED <<which, tableVars, fileVars, processVars>>
TableNext == which = "table" /\ Hash!Next /\ UNCHANGED <<which, treeVars, fileVars, processVars>>
FileNext  == which = "file"  /\ File!Next /\ UNCHANGED <<which, treeVars, tableVars, processVars>>

OthersUnchanged == UNCHANGED <<which, treeVars, tableVars, fileVars>>
EnvNext == which = "exec" /\ OthersUnchanged /\ Env!Next /\ UNCHANGED <<sigVars, slabVars, goVars>>
SigNext == which = "signal" /\ OthersUnchanged /\ Sig!Next /\ UNCHANGED <<envVars, slabVars, goVars>>
SlabNext == which = "slab" /\ OthersUnchanged /\ Blocks!Next /\ UNCHANGED <<envVars, sigVars, goVars>>
GoNext == which = "go" /\ OthersUnchanged /\ Go!Next /\ UNCHANGED <<envVars, sigVars, slabVars>>

Next == TreeNext \/ TableNext \/ FileNext \/ EnvNext \/ SigNext \/ SlabNext \/ GoNext

(* With images that are refused by dl_exec.                                *)
RefusingNext ==
  /\ which = "exec" /\ OthersUnchanged
  /\ \E a \in {<<"a">>, <<"a", "b">>} : Env!execiv_refused(a)
  /\ UNCHANGED <<sigVars, slabVars, goVars>>
RefusingSpec == Init /\ [][Next \/ RefusingNext]_vars

Spec == Init /\ [][Next]_vars

-----------------------------------------------------------------------------
(* A search in the tree of objects finds what was last stored, and as long *)
(* as objects are only added, balancing never follows a NULL pointer       *)
(* (librdi/robject/index.c:50, 120).                                       *)
IndexRight == which = "tree" => Tree!NoCrash /\ Tree!Lookup

(* What the comment "AVL tree implementation" says (index.c:27).           *)
IndexBalanced == which = "tree" => Tree!Balanced

(* Deletions leave no tree that balancing could crash on.                  *)
IndexNeverCrash == which = "tree" => Tree!NeverCrash

(* A hash table finds what was last stored, through collisions and         *)
(* resizing, walking it meets every key once, and its load, which decides  *)
(* on resizing, is exact (libc/struct/table.c:196, 217, 266-289).          *)
TableRight == which = "table" => Hash!Lookup /\ Hash!IterExact /\ Hash!LoadExact

(* Between calls the buffer of a stream has room (fwrite.c:62-97).         *)
StreamFits == which = "file" => File!BufferFits

(* Each call does what it would do without a buffer (libc/stdio).          *)
StreamTransparent == [][which = "file" => File!TransparentStep]_vars

(* A buffered stream implements an unbuffered one, and no call shows that  *)
(* there is a buffer (libc/stdio).                                         *)
StreamExact == File!IsStream /\ StreamTransparent

(* Arguments, environment, streams and root survive the execution of       *)
(* programs (libc/exec/exec.c:36-76, libc/stdlib/env.c).                   *)
ExecKeeps == [][which = "exec" => Env!KeepsStep /\ Env!GetenvRight']_vars

(* Neither deleting a variable nor executing a program uses memory that is *)
(* not there (env.c:118-121, 150-153).                                     *)
ExecNoCrash == Env!NoCrash

(* What getenv returned stays valid while a thread looks at it (env.c:41). *)
ExecThreadSafe == Env!ThreadSafe

(* A signal handler runs once at most for each time it was installed       *)
(* (libc/signal/__raise.c:24).                                             *)
SignalOnce == which = "signal" => Sig!Once

(* A handler that is installed while another one runs is not lost to the   *)
(* reset of that one (libc/signal/__raise.c:33-37).                        *)
SignalKept == [][which = "signal" => Sig!ResetsOnlyRun]_vars

(* Whoever holds the mutex of the signal handlers goes on                  *)
(* (libc/signal/__raise.c:33-36).                                          *)
SignalNoSelfWait == which = "signal" => Sig!NoSelfWait

(* The blocks of the kernel's heap neither overlap nor get lost            *)
(* (kernel/mem/heap.c:49-147).                                             *)
SlabPartition == which = "slab" => Blocks!Partition

(* Blocks of the kernel's heap are aligned as its comment says             *)
(* (kernel/mem/heap.c:45).                                                 *)
SlabAligned == which = "slab" => Blocks!Aligned

(* The groups of stones that are kept are those on the board               *)
(* (apps/calico/src/goban.c:194-390).                                      *)
GoGroupsExact == which = "go" => Go!GroupsExact

(* Every stone played is on the board or was captured (goban.c:316-325).   *)
GoStonesCounted == which = "go" => Go!StonesCounted

(* The number of liberties that is kept is right (apps/calico/src/calico.h:44). *)
GoLibsExact == which = "go" => Go!LibsExact

(* Only stones without liberties are captured (goban.c:180-331).           *)
GoCapturesRight == Go!CapturesRight

=============================================================================
