------------------------------ MODULE Windows -------------------------------
(***************************************************************************)
(* The window manager, daemon/wmanager: the list of windows, the tiling,   *)
(* the active window, and the events of mouse, keyboard and screen.        *)
(*                                                                         *)
(* A handler is one step.  The code has no lock on the list of windows:    *)
(* that events and requests come one at a time is an assumption, although  *)
(* update_screen, which update_tiling and others call, waits for a reply   *)
(* of the screen (screen.c:66) while they may come.  The exception is      *)
(* "share", which looks at the size before it takes the mutex of the       *)
(* window.  Drawing is left out.                                           *)
(*                                                                         *)
(* What the code does not withstand is left out, unless named in Beyond:   *)
(*   "share"  a window changes between the two parts of share              *)
(*   "flags"  a tiled window gets or loses a constant size                 *)
(*   "panel"  the panel is resized, or made a tile, once it is the panel   *)
(***************************************************************************)
EXTENDS Integers, Sequences, SequencesExt, FiniteSets

CONSTANTS Window,   \* windows, by their index
          Sizes,    \* sizes that programs ask for
          Screens,  \* sizes of the screen
          Tags,     \* the sets of tags that can be current
          Deltas,   \* movements of the mouse
          Flags,    \* sets of flags that programs set
          Plans,    \* records: which windows are made, and what else happens
                    \* ("mode", "flags", "share", "panel", "mouse", "buttons", "screen")
          MaxMoves, \* bound on the movements of the mouse
          NULL,
          Beyond    \* the restrictions that are lifted

VARIABLES win,     \* win[w]: the window, or NULL
          windows, \* the list of windows, the last one is in front
          active, panel,
          tags,    \* current_tags
          screen,  \* its size
          mouse,   \* position, buttons, and whether a window is being moved
          winkey,
          sharing, \* a call of share between its two parts
          moves,   \* movements of the mouse so far
          plan

vars == <<win, windows, active, panel, tags, screen, mouse, winkey, sharing, moves, plan>>

Larger(a, b) == IF a > b THEN a ELSE b

(* What the operators below work on.                                       *)
State == [win |-> win, windows |-> windows, active |-> active, panel |-> panel,
          tags |-> tags, screen |-> screen, mouse |-> mouse]
Becomes(s) ==
  /\ win' = s.win /\ windows' = s.windows /\ active' = s.active /\ panel' = s.panel
  /\ tags' = s.tags /\ screen' = s.screen /\ mouse' = s.mouse

Visible(s, w) == s.win[w].tags \cap s.tags # {}
Floating(s, w) == "floating" \in s.win[w].flags
Constant(s, w) == "constant" \in s.win[w].flags
Tiled(s) == SelectSeq(s.windows, LAMBDA w : ~Floating(s, w) /\ Visible(s, w))

-----------------------------------------------------------------------------
(* The bitmap, which has the old size, is dropped.                         *)
resize_window(s, w, width, height) ==
  IF s.win[w].width = width /\ s.win[w].height = height THEN s
  ELSE [s EXCEPT !.win[w].width = Larger(width, 10), !.win[w].height = Larger(height, 10),
                 !.win[w].bitmap = 0]

(* The last window in the list that is visible and under the mouse.        *)
activate_window(s) ==
  LET hit == SelectSeq(s.windows, LAMBDA w :
               /\ Visible(s, w)
               /\ s.mouse.x \in s.win[w].x - 1..s.win[w].x + s.win[w].width
               /\ s.mouse.y \in s.win[w].y - 1..s.win[w].y + s.win[w].height)
  IN [s EXCEPT !.active = IF hit = <<>> THEN NULL ELSE Last(hit)]

(* The windows beside the main window, one below the other.                *)
Column(s, ws, x, y, width, height, count, last) ==
  LET Place(a, w) ==
        LET t == [a.s EXCEPT !.win[w].x = x, !.win[w].y = a.y]
            r == IF Constant(t, w) THEN t
                 ELSE resize_window(t, w, width,
                        height \div count + (IF w = last THEN height % count ELSE -2))
        IN [s |-> r, y |-> a.y + r.win[w].height + 2]
  IN FoldLeft(Place, [s |-> s, y |-> y], ws).s

(* update_tiling: the first tiled window is the main one, on the left; if  *)
(* no window is tiled nothing happens, the active window included.         *)
update_tiling(s) ==
  LET tiles  == Tiled(s)
      main   == Head(tiles)
      others == Tail(tiles)
      fixed  == SelectSeq(others, LAMBDA w : Constant(s, w))
      free   == SelectSeq(others, LAMBDA w : ~Constant(s, w))
      Taken(h, w) == h + s.win[w].height + 2
      Narrow(d, w) == IF s.screen[1] - d < s.win[w].width THEN s.screen[1] - s.win[w].width ELSE d
      top    == IF s.panel = NULL THEN 0 ELSE s.win[s.panel].height + 2
      height == s.screen[2] - FoldLeft(Taken, 0, fixed) - top
      left   == IF Constant(s, main) THEN s.win[main].width
                ELSE Larger(FoldLeft(Narrow, s.screen[1] \div 2, fixed), 10)
      placed == [s EXCEPT !.win[main].x = 0, !.win[main].y = top]
      sized  == IF Constant(s, main) THEN placed
                ELSE resize_window(placed, main, IF others = <<>> THEN s.screen[1] ELSE left, height)
  IN IF tiles = <<>> THEN s
     ELSE activate_window(
            Column(sized, others, left + 2, top, s.screen[1] - left - 2, height, Len(free),
                   IF free = <<>> THEN NULL ELSE Last(free)))

bring_to_front(s, w) == [s EXCEPT !.windows = Append(SelectSeq(@, LAMBDA v : v # w), w)]

-----------------------------------------------------------------------------
Init ==
  /\ win = [w \in Window |-> NULL] /\ windows = <<>>
  /\ active = NULL /\ panel = NULL
  /\ tags = {1} /\ screen \in Screens
  /\ mouse = [x |-> 0, y |-> 0, buttons |-> {}, moving |-> FALSE]
  /\ winkey = FALSE /\ sharing = NULL /\ moves = 0 /\ plan \in Plans

Rest == UNCHANGED <<winkey, sharing, moves, plan>>
Quiet == sharing = NULL \/ "share" \in Beyond
Exists(w) == win[w] # NULL

createwindow(w) ==
  /\ Quiet /\ ~Exists(w) /\ w \in plan.windows
  /\ Becomes(update_tiling(
       [State EXCEPT !.win[w] = [flags |-> {}, x |-> 0, y |-> 0, width |-> 0, height |-> 0,
                                 tags |-> tags, bitmap |-> 0],
                     !.windows = Append(@, w)]))
  /\ Rest

(* A tiled window that has no constant size floats from now on.            *)
setmode(w, size) ==
  LET s == resize_window(State, w, size[1], size[2])
      t == IF Constant(s, w) \/ Floating(s, w) THEN s
           ELSE [s EXCEPT !.win[w].flags = @ \cup {"floating"}]
  IN /\ Quiet /\ Exists(w) /\ (w = panel => "panel" \in Beyond)
     /\ Becomes(IF Floating(State, w) THEN t ELSE update_tiling(t))
     /\ Rest

unshare(w) ==
  /\ Quiet /\ Exists(w) /\ win[w].bitmap # 0
  /\ Becomes([State EXCEPT !.win[w].bitmap = 0])
  /\ Rest

Area(w) == win[w].width * win[w].height

(* share: memory of another size than the window is refused.               *)
share_check(w) ==
  /\ Quiet /\ Exists(w) /\ sharing = NULL
  /\ sharing' = [window |-> w, size |-> Area(w)]
  /\ UNCHANGED <<win, windows, active, panel, tags, screen, mouse, winkey, moves, plan>>

share_set ==
  /\ sharing # NULL
  /\ win' = [win EXCEPT ![sharing.window].bitmap = sharing.size]
  /\ sharing' = NULL
  /\ UNCHANGED <<windows, active, panel, tags, screen, mouse, winkey, moves, plan>>

(* Mutant of setwindowflags: the tiling is not updated.                    *)
setwindowflags_lazy(w, flags) ==
  /\ Quiet /\ Exists(w) /\ (w = panel => "panel" \in Beyond)
  /\ Becomes([State EXCEPT !.win[w].flags = flags])
  /\ Rest

setwindowflags(w, flags) ==
  LET s == [State EXCEPT !.win[w].flags = flags]
  IN /\ Quiet /\ Exists(w) /\ (w = panel => "panel" \in Beyond)
     /\ Constant(State, w) # Constant(s, w) => "flags" \in Beyond \/ Floating(State, w) # Floating(s, w)
                                               \/ Floating(s, w)
     /\ Becomes(IF Floating(State, w) = Floating(s, w) THEN s ELSE update_tiling(s))
     /\ Rest

setpanel(w) ==
  /\ Quiet /\ Exists(w) /\ panel = NULL
  /\ Becomes(update_tiling(resize_window(
       [State EXCEPT !.panel = w, !.win[w].flags = @ \cup {"floating"}, !.win[w].tags = UNION Tags],
       w, screen[1], win[w].height)))
  /\ Rest

settags(t) ==
  /\ Quiet /\ panel # NULL /\ t # tags
  /\ Becomes(update_tiling([State EXCEPT !.tags = t]))
  /\ Rest

-----------------------------------------------------------------------------
(* The mouse stays on the screen, and its distance is cut accordingly.     *)
Clipped(at, d, size) ==
  LET e == IF at + d < 0 THEN -at ELSE d
  IN IF at + e >= size THEN size - at - 1 ELSE e

(* Moving or resizing makes a window float, in front of the others.        *)
mouse_move(d) ==
  LET dx == Clipped(mouse.x, d[1], screen[1])
      dy == Clipped(mouse.y, d[2], screen[2])
      s  == [State EXCEPT !.mouse.x = @ + dx, !.mouse.y = @ + dy]
      t  == IF mouse.buttons = {} THEN activate_window(s) ELSE s
      w  == t.active
      held == [t EXCEPT !.mouse.moving = TRUE]
      front(u) == bring_to_front([u EXCEPT !.win[w].flags = @ \cup {"floating"}], w)
      moved == front([held EXCEPT !.win[w].x = @ + dx, !.win[w].y = @ + dy])
      grown == front(resize_window(held, w, held.win[w].width + dx, held.win[w].height + dy))
      last  == [grown EXCEPT !.mouse.x = grown.win[w].x + grown.win[w].width,
                             !.mouse.y = grown.win[w].y + grown.win[w].height]
      r == IF w = NULL \/ w = panel \/ ~(winkey \/ mouse.moving) THEN t
           ELSE IF "move" \in mouse.buttons THEN moved
           ELSE IF "resize" \in mouse.buttons /\ ~Constant(t, w) THEN last
           ELSE held
  IN /\ Quiet /\ moves < MaxMoves /\ moves' = moves + 1
     /\ Becomes(IF w # NULL /\ Floating(t, w) # Floating(r, w) THEN update_tiling(r) ELSE r)
     /\ UNCHANGED <<winkey, sharing, plan>>

mouse_buttons(b) ==
  LET s == IF mouse.buttons \ b # {} THEN [State EXCEPT !.mouse.moving = FALSE] ELSE State
      t == IF "toggle" \in b \ mouse.buttons /\ active # NULL /\ Floating(State, active)
           THEN update_tiling([s EXCEPT !.mouse.moving = FALSE, !.win[active].flags = @ \ {"floating"}])
           ELSE s
  IN /\ Quiet /\ b # mouse.buttons
     /\ active = panel /\ "toggle" \in b /\ panel # NULL => "panel" \in Beyond
     /\ Becomes([t EXCEPT !.mouse.buttons = b])
     /\ Rest

key_win(pressed) ==
  /\ Quiet /\ winkey # pressed
  /\ winkey' = pressed
  /\ UNCHANGED <<win, windows, active, panel, tags, screen, mouse, sharing, moves, plan>>

(* CHANGE_MAIN_WINDOW_KEY: the active window goes to the end of the list.  *)
key_main ==
  /\ Quiet /\ winkey /\ active # NULL /\ active # windows[1]
  /\ Becomes(update_tiling(bring_to_front(State, active)))
  /\ Rest

resize_screen(size) ==
  LET s == [State EXCEPT !.screen = size]
  IN /\ Quiet /\ size # screen
     /\ Becomes(update_tiling(IF panel = NULL THEN s
                              ELSE resize_window(s, panel, size[1], s.win[panel].height)))
     /\ Rest

Share == share_set \/ \E w \in Window : unshare(w) \/ share_check(w)

Buttons ==
  \/ \E b \in {{}, {"move"}, {"resize"}, {"toggle"}} : mouse_buttons(b)
  \/ \E pressed \in BOOLEAN : key_win(pressed)
  \/ key_main

Next ==
  \/ \E w \in Window : createwindow(w)
  \/ "mode" \in plan.does /\ \E w \in Window, size \in Sizes : setmode(w, size)
  \/ "flags" \in plan.does /\ \E w \in Window, flags \in Flags : setwindowflags(w, flags)
  \/ "share" \in plan.does /\ Share
  \/ "panel" \in plan.does /\ ((\E w \in Window : setpanel(w)) \/ \E t \in Tags : settags(t))
  \/ "mouse" \in plan.does /\ \E d \in Deltas : mouse_move(d)
  \/ "buttons" \in plan.does /\ Buttons
  \/ "screen" \in plan.does /\ \E size \in Screens : resize_screen(size)

Spec == Init /\ [][Next]_vars

-----------------------------------------------------------------------------
(* The shared memory of a window is as large as the window, whoever        *)
(* resized it last: drawing reads no byte behind it (screen.c:66).         *)
BitmapFits == \A w \in Window : Exists(w) => win[w].bitmap \in {0, Area(w)}

(* The layout is up to date after every request and event: updating the    *)
(* tiling again would move and resize no window (tiling.c:22).             *)
LaidOut ==
  LET s == update_tiling(State)
  IN \A w \in Window : Exists(w) =>
       \A field \in {"x", "y", "width", "height"} : s.win[w][field] = win[w][field]

(* If a window is tiled, the active one is visible: keys and buttons go to *)
(* a window the user sees (tiling.c:57, mouse.c:115).                      *)
ActiveVisible ==
  active # NULL => Visible(State, active) \/ Tiled(State) = <<>>

(* The same without a tiled window; see the README.                        *)
ActiveVisibleAlways == active # NULL => Visible(State, active)

(* The key that changes the main window makes the active window the main   *)
(* one.  It does not: see the README.                                      *)
MainChanges ==
  [][key_main => (~Floating(State, active) => Head(Tiled(State)') = active)]_vars

=============================================================================
