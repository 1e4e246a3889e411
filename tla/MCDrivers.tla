----------------------------- MODULE MCDrivers ------------------------------
(***************************************************************************)
(* Drivers and daemons that do not interact: a run uses one of them, which *)
(* is chosen in its initial state.                                         *)
(***************************************************************************)
EXTENDS Integers, Sequences

CONSTANTS NULL, Beyond, Chosen, Calls

VARIABLES which,
          next, front, back, status, opens, req, sent, taken,
          entry, list, node, target, made, calls, find, call,
          use, w, h, cell, cursor, c_base, task, buffer, ending, lines, line, line_pos, reads,
          typed, got,
          win, windows, active, panel, tags, screen, mouse, winkey, sharing, moves, scene

Pipes == INSTANCE Pipe
           WITH Proc <- {"p1", "p2", "p3"}, Creator <- "p1",
                MaxSize <- 2, MaxBytes <- 3, MaxOpens <- 2, got <- taken

-----------------------------------------------------------------------------
(* The root has a directory d, a link l and no x; d has a link l; the      *)
(* directory S of another driver has a file x.                             *)
Entries ==
  [d \in {"R", "D", "S"} |->
     CASE d = "R" -> [d |-> "D",  l |-> "L1", x |-> NULL]
       [] d = "D" -> [d |-> NULL, l |-> "L2", x |-> NULL]
       [] d = "S" -> [d |-> NULL, l |-> NULL, x |-> "f0"]]

To(r, p) == [from |-> r, path |-> p]

Targets == {To("R", <<"d">>), To("R", <<"l">>), To("S", <<>>), To("R", <<"d", "l">>),
            To("R", <<"d", "..", "x">>), To("S", <<"x">>)}

OneWay == [l \in {"L1", "L2"} |-> IF l = "L1" THEN To("R", <<"d">>) ELSE To("S", <<>>)]
Dangling == [OneWay EXCEPT !["L1"] = To("R", <<"d", "x">>)]

Both(a, b) == [c \in {"c1", "c2"} |-> IF c = "c1" THEN a ELSE b]

(* What the clients do: one finds paths, with any targets of the links;    *)
(* one changes directories; one changes them while another one lists them; *)
(* both change them; one makes files where dangling links are.             *)
AllCalls ==
  [find   |-> [does |-> Both({"find", "findl"}, {}), targets |-> [{"L1", "L2"} -> Targets],
               paths |-> {<<"d">>, <<"l">>, <<"x">>, <<"d", "l">>, <<"l", "x">>, <<"l", "l">>,
                          <<"d", "l", "x">>, <<"d", "..", "l">>, <<"..">>, <<".">>}],
   change |-> [does |-> Both({"find", "cons", "ulink"}, {}), targets |-> {OneWay},
               paths |-> {<<"x">>, <<"l", "x">>, <<"l">>, <<"d">>}],
   list   |-> [does |-> Both({"cons", "ulink"}, {"list"}), targets |-> {OneWay},
               paths |-> {<<"x">>, <<"l">>, <<>>}],
   both   |-> [does |-> Both({"cons", "ulink"}, {"cons", "ulink"}), targets |-> {OneWay},
               paths |-> {<<"x">>, <<"d">>}],
   link   |-> [does |-> Both({"cons"}, {}), targets |-> {Dangling}, paths |-> {<<"l">>}]]

Files == INSTANCE Vfs
           WITH Dir <- {"R", "D", "S"}, Link <- {"L1", "L2"}, File <- {"f0", "f1", "f2"},
                Root <- "R", Initial <- Entries, Client <- {"c1", "c2"},
                Plans <- [k \in Calls |-> AllCalls[k]], MaxLinks <- 3, MaxNodes <- 5,
                plan <- calls

-----------------------------------------------------------------------------
Term == INSTANCE Terminal
          WITH Sizes <- {<<2, 2>>, <<3, 2>>, <<3, 3>>, <<8, 2>>}, Letter <- {"a"},
               Uses <- {{"screen"}, {"screen", "tab"}, {"keys"}},
               MaxTop <- 3, MaxBack <- 2, MaxTyped <- 5, Reader <- {"r1", "r2"}, ReadSizes <- {1, 3}

Scene(ws, does) == [windows |-> ws, does |-> does]
Scenes == {Scene(1..2, {"mode", "flags", "panel"}), Scene(1..2, {"mode", "share"}),
           Scene(1..3, {"mode", "panel", "mouse"}), Scene(1..2, {"screen", "share", "panel"}),
           Scene(1..2, {"mouse", "buttons"})}

Desk == INSTANCE Windows
          WITH Window <- 1..3, Sizes <- {<<12, 12>>}, Screens <- {<<60, 40>>, <<40, 45>>},
               Tags <- {{1}, {2}}, Deltas <- {<<20, 15>>, <<-20, -15>>}, MaxMoves <- 2,
               Flags <- {{}, {"floating"}, {"constant"}, {"constant", "floating"}},
               Plans <- Scenes,
               plan <- scene

pipeVars == <<next, front, back, status, opens, req, sent, taken>>
fileVars == <<entry, list, node, target, made, calls, find, call>>
termVars == <<use, w, h, cell, cursor, c_base, task, buffer, ending, lines, line, line_pos,
              reads, typed, got>>
deskVars == <<win, windows, active, panel, tags, screen, mouse, winkey, sharing, moves, scene>>
vars == <<which, pipeVars, fileVars, termVars, deskVars>>

Init ==
  /\ which \in Chosen
  /\ Pipes!Init /\ Files!Init /\ Term!Init /\ Desk!Init
  /\ which # "files" => calls = CHOOSE k \in Calls : TRUE
  /\ which # "files" => target = CHOOSE t \in AllCalls[calls].targets : TRUE
  /\ which # "term" => use = {"keys"} /\ <<w, h>> = <<2, 2>>
  /\ which # "desk" => scene = Scene(1..2, {"mouse", "buttons"})
  /\ "screen" \notin scene.does => screen = <<60, 40>>

PipeNext == which = "pipe"  /\ Pipes!Next /\ UNCHANGED <<which, fileVars, termVars, deskVars>>
FileNext == which = "files" /\ Files!Next /\ UNCHANGED <<which, pipeVars, termVars, deskVars>>
TermNext == which = "term"  /\ Term!Next  /\ UNCHANGED <<which, pipeVars, fileVars, deskVars>>
DeskNext == which = "desk"  /\ Desk!Next  /\ UNCHANGED <<which, pipeVars, fileVars, termVars>>

Next == PipeNext \/ FileNext \/ TermNext \/ DeskNext

Spec == Init /\ [][Next]_vars

(* The threads of the drivers that work on a request.                      *)
Fairness ==
  /\ \A p \in {"p1", "p2", "p3"} : WF_pipeVars(which = "pipe" /\ Pipes!Step(p))
  /\ \A c \in {"c1", "c2"} : WF_fileVars(which = "files" /\ Files!find_step(c))

FairSpec == Spec /\ Fairness

-----------------------------------------------------------------------------
(* A pipe is a queue (driver/pipe/main.c:53-92).                           *)
PipeIsQueue == Pipes!IsQueue

(* A read of a pipe ends when nobody can write any more (main.c:105).      *)
PipeReadsEnd == Pipes!ReadsEnd

(* A read of a pipe ends early only if nothing is left (main.c:104).       *)
PipeEndOfFile == Pipes!EndOfFile

(* Paths lead where their names and links do (librdi/class_dir.c:34,       *)
(* libc/natio/fs_find.c:43).                                               *)
FilesFindRight == which = "files" => Files!FindRight

(* Every search for a path ends (libc/natio/fs_find.c:51).                 *)
FilesFindsEnd == Files!FindsEnd

(* The list of a directory has its entries, and a client that lists it     *)
(* while it changes sees what was there all the time (class_dir.c:159, 197). *)
FilesListRight == which = "files" => Files!ListExact /\ Files!ListSees

(* Making a file does not take the place of another (fs_cons.c:44).        *)
FilesNoReplace == Files!NoReplace

(* The three above, for more clients and for links.                        *)
FilesNoReplaceAlways == Files!NoReplaceAlways
FilesLinkKept == Files!LinkKept
FilesListExactAlways == Files!ListExactAlways

(* What is printed appears on the screen, and the cursor is drawn once,    *)
(* where it is (driver/fbterm/terminal.c:32, 64, screen.c:96).             *)
TermShows == which = "term" => Term!Lands /\ Term!OneBlock

(* Lines are read whole and once (driver/fbterm/keyboard.c:64-139).        *)
TermWhole == which = "term" => Term!Whole

(* Lines are read in the order in which they were typed.                   *)
TermInOrder == Term!InOrder

(* Shared memory is as large as its window (daemon/wmanager/window.c:150). *)
DeskBitmapFits == which = "desk" => Desk!BitmapFits

(* The tiling is up to date after every handler, and input goes to a       *)
(* window the user sees (tiling.c:22, mouse.c:115).                        *)
DeskLaidOut == which = "desk" => Desk!LaidOut /\ Desk!ActiveVisible

(* The same when no window is tiled, and the key for the main window.      *)
DeskActiveVisibleAlways == Desk!ActiveVisibleAlways
DeskMainChanges == Desk!MainChanges

=============================================================================
