------------------------------- MODULE Windows -------------------------------
(***************************************************************************)
(* The desktop's windows (desktop/desktop.c): their order, focus and       *)
(* geometry under the pointer, the start menu and the taskbar, the flags   *)
(* that say what must be drawn again, and the callbacks of applications.   *)
(*                                                                         *)
(* One axis stands for both, in units of a column, so a window has a left  *)
(* and a right edge; which row of a window the pointer is in is a free     *)
(* choice.  The desktop is the record desk, so that the functions of the   *)
(* source compose; each call of desktop_handle_mouse is one step.          *)
(***************************************************************************)
EXTENDS Integers, Sequences, FiniteSetsExt

CONSTANTS
    Builtins,       \* terminal, clock and system info windows
    Apps,           \* app_registry, without its limit
    Fixed,          \* the apps without APP_FLAG_RESIZABLE
    Launchers,      \* the apps whose callbacks open another one
    MaxWindows,     \* DESKTOP_WINDOW_MAX
    Screen,         \* gfx_get_width
    MinWidth,       \* DESKTOP_WINDOW_MIN_WIDTH, app->min_w
    MaxPresses,     \* bound on presses of the button
    None

VARIABLES
    desk,       \* windows, order and dirty flags
    gesture,    \* what the left button was pressed on, "none" when it is up
    presses,    \* presses of the button so far
    menu,       \* desktop_start_menu_open
    up,         \* desktop_running
    stale,      \* history: something shown changed since the scene was drawn
    left        \* history: the desktop was left with an application open

vars == <<desk, gesture, presses, menu, up, stale, left>>

Windows == Builtins \cup Apps

\* A window as desktop_create_window leaves it.
Fresh(x) ==
    [x |-> x, w |-> MinWidth, hidden |-> FALSE, minimized |-> FALSE, maximized |-> FALSE,
     focused |-> FALSE, dirty |-> TRUE, rx |-> 0, rw |-> 0]

Visible(d, w) == ~d.win[w].hidden /\ ~d.win[w].minimized
Created(d) == Range(d.order)

\* What the screen shows of a desktop: each window, in front of which ones.
Shown(d) ==
    LET seen == {w \in Created(d) : Visible(d, w)}
        behind(v, w) == \E i, j \in DOMAIN d.order : i < j /\ d.order[i] = v /\ d.order[j] = w
    IN  <<[w \in seen |->
              <<d.win[w].x, d.win[w].w, d.win[w].focused, {v \in seen : behind(v, w)}>>],
          {w \in Created(d) \cap Apps : ~d.win[w].hidden}>>

\* desktop_any_visible_window_dirty
AnyDirty(d) == \E w \in Created(d) : Visible(d, w) /\ d.win[w].dirty

\* The topmost of the visible windows in S, or None.
Topmost(d, S) ==
    LET found == {i \in DOMAIN d.order : Visible(d, d.order[i]) /\ d.order[i] \in S}
    IN  IF found = {} THEN None ELSE d.order[Max(found)]

\* desktop_find_window_at
Under(d, x) == Topmost(d, {w \in Windows : x \in d.win[w].x .. d.win[w].x + d.win[w].w - 1})

-----------------------------------------------------------------------------
(* The functions that change windows, as functions of the desktop. *)

Put(d, w, v) == [d EXCEPT !.win[w] = v]

Dirty(d, w) == Put(d, w, [d.win[w] EXCEPT !.dirty = TRUE])

\* Mutant of Focus: the window is focused where it is.
FocusInPlace(d, w) ==
    [d EXCEPT !.win = [v \in Windows |-> [d.win[v] EXCEPT !.focused = (v = w)]]]

\* The order with a window at its end and those after it one place lower.
Raised(order, w) ==
    LET found == CHOOSE i \in DOMAIN order : order[i] = w
    IN  [i \in DOMAIN order |->
            IF i < found THEN order[i] ELSE IF i < Len(order) THEN order[i + 1] ELSE w]

\* desktop_focus_window: the window alone is focused and comes to the front.
Focus(d, w) ==
    [d EXCEPT !.win = [v \in Windows |-> [d.win[v] EXCEPT !.focused = (v = w)]],
              !.order = IF w \in Created(d) THEN Raised(d.order, w) ELSE d.order]

\* desktop_focus_top_visible_window
FocusTop(d) == Focus(d, Topmost(d, Windows))

\* desktop_restore_window
Restore(d, w) ==
    Put(d, w, [d.win[w] EXCEPT !.hidden = FALSE, !.minimized = FALSE, !.dirty = TRUE])

\* desktop_maximize_window: to the whole screen, or back; where to is of no
\* use to a window that is not maximized.
Maximize(d, w) ==
    LET v == d.win[w]
    IN  Put(d, w, IF v.maximized
                  THEN [v EXCEPT !.x = v.rx, !.w = v.rw, !.rx = 0, !.rw = 0,
                                 !.maximized = FALSE, !.dirty = TRUE]
                  ELSE [v EXCEPT !.rx = v.x, !.rw = v.w, !.x = 0, !.w = Screen,
                                 !.maximized = TRUE, !.dirty = TRUE])

\* desktop_minimize_window
Minimize(d, w) ==
    Put(d, w, [d.win[w] EXCEPT !.minimized = TRUE, !.hidden = FALSE, !.focused = FALSE])

\* desktop_close_window, with the application's on_close.
Close(d, w) ==
    [Put(d, w, [d.win[w] EXCEPT !.hidden = TRUE, !.minimized = FALSE, !.focused = FALSE])
        EXCEPT !.open = d.open \ {w}, !.bar = d.bar \/ w \in Apps]

\* An application's on_init; it is a mistake to call it on an open one.
Start(d, a) == [d EXCEPT !.open = d.open \cup {a}, !.twice = d.twice \/ a \in d.open]

\* Mutant of MoveTo: only the left edge is kept on the screen.
MoveToLeftOnly(d, w, x) == Put(d, w, [d.win[w] EXCEPT !.x = IF x < 0 THEN 0 ELSE x])

\* desktop_clamp, desktop_move_window
MoveTo(d, w, x) ==
    LET max == IF Screen > d.win[w].w THEN Screen - d.win[w].w ELSE 0
    IN  Put(d, w, [d.win[w] EXCEPT !.x = IF x < 0 THEN 0 ELSE IF x > max THEN max ELSE x])

\* desktop_create_window: the next of the fixed array, drawn last.
Create(d, w, x) ==
    MoveTo([Put(d, w, Fresh(x)) EXCEPT !.order = Append(d.order, w)], w, x)

\* Mutant of Launch: an application is initialised whenever it is opened.
LaunchAgain(d, a) ==
    LET seen == a \in Created(d)
        made == IF seen THEN d ELSE Create(d, a, 0)
        ready == Start(Put(made, a, [made.win[a] EXCEPT !.hidden = FALSE, !.minimized = FALSE]), a)
    IN  IF ~seen /\ Len(d.order) >= MaxWindows THEN d
        ELSE Focus([Dirty(ready, a) EXCEPT !.bar = TRUE], a)

\* desktop_launch_app: a window is made for the app, or shown again.
Launch(d, a) ==
    LET seen == a \in Created(d)
        shown == Put(d, a, [d.win[a] EXCEPT !.hidden = FALSE, !.minimized = FALSE])
        ready == IF ~seen THEN Start(Create(d, a, 0), a)
                 ELSE IF d.win[a].hidden THEN Start(shown, a) ELSE shown
    IN  IF ~seen /\ Len(d.order) >= MaxWindows THEN d
        ELSE Focus([Dirty(ready, a) EXCEPT !.bar = TRUE], a)

\* desktop_open_builtin_window, desktop_open_launcher_icon
Open(d, w) ==
    IF w \in Apps THEN Launch(d, w)
    ELSE IF w \in Created(d) THEN Focus(Restore(d, w), w) ELSE d

\* desktop_resize_window_to_cursor, for a pointer that has moved by dx since
\* the edge was pressed.
Resized(g, dx) ==
    LET end == g.x + g.w
        fit(x, w) == LET v == IF w > Screen - x THEN Screen - x ELSE w
                     IN  [x |-> x, w |-> IF v < MinWidth THEN MinWidth ELSE v]
    IN  IF g.edge = "right" THEN fit(g.x, g.w + dx)
        ELSE LET x == IF g.w - dx < MinWidth THEN end - MinWidth ELSE g.x + dx
             IN  IF x < 0 THEN fit(0, end) ELSE fit(x, end - x)

-----------------------------------------------------------------------------
NoGesture == [kind |-> "none", w |-> None, at |-> 0, x |-> 0, size |-> 0, edge |-> "none"]
Gesture(kind, w, x, edge) ==
    [kind |-> kind, w |-> w, at |-> x, edge |-> edge,
     x |-> IF w = None THEN 0 ELSE desk.win[w].x, size |-> IF w = None THEN 0 ELSE desk.win[w].w]

Hidden(x) == [Fresh(x) EXCEPT !.hidden = TRUE]
Nothing ==
    [win |-> [w \in Windows |-> Hidden(0)], order |-> <<>>,
     open |-> {}, twice |-> FALSE, scene |-> TRUE, bar |-> TRUE]

\* The order in which the code names them does not matter.
InOrder(S) == CHOOSE order \in Bijection(1 .. Cardinality(S), S) : TRUE

\* desktop_init: the windows of the desktop itself are made and hidden, one
\* application greets, in the middle of the screen.
Begin(d, welcome) ==
    LET corner == Screen - MinWidth
        builtin == [Nothing EXCEPT !.win = [w \in Windows |-> Hidden(IF w \in Builtins THEN corner ELSE 0)],
                                   !.order = InOrder(Builtins),
                                   !.open = d.open, !.twice = d.twice]
    IN  Dirty(MoveTo(Launch(builtin, welcome), welcome, corner \div 2), welcome)

Init ==
    /\ \E a \in Apps : desk = Begin(Nothing, a)
    /\ gesture = NoGesture /\ presses = 0 /\ menu = FALSE /\ up = TRUE
    /\ stale = TRUE /\ left = FALSE

\* A step that leaves the desktop as d with these flags set; what changed on
\* the screen is stale until it is drawn.
Become(d, scene, bar) ==
    /\ desk' = [d EXCEPT !.scene = d.scene \/ scene, !.bar = d.bar \/ bar]
    /\ stale' = (stale \/ Shown(desk') # Shown(desk) \/ menu' # menu)
    /\ UNCHANGED <<up, left>>

\* desktop_handle_mouse: the window whose client area the pointer is in is
\* drawn again, for its hover states.
Hovered(x) ==
    LET w == Under(desk, x) IN IF w \in Apps THEN {desk, Dirty(desk, w)} ELSE {desk}

Columns == 0 .. Screen - 1
Idle == up /\ gesture.kind = "none"
Press == Idle /\ presses < MaxPresses /\ presses' = presses + 1

\* desktop_handle_mouse, a press while the start menu is open: on an entry
\* that opens a window, or outside menu and start button.
MenuChoose ==
    /\ Press /\ menu
    /\ menu' = FALSE /\ gesture' = [NoGesture EXCEPT !.kind = "nothing"]
    /\ \E w \in Windows \cup {None} :
           Become(IF w = None THEN desk ELSE Open(desk, w), TRUE, TRUE)

\* A press on the start button.
PressStart ==
    /\ Press
    /\ menu' = ~menu /\ gesture' = [NoGesture EXCEPT !.kind = "nothing"]
    /\ Become(desk, TRUE, TRUE)

\* A press on a button of the taskbar: only applications have one.
PressTaskbar ==
    /\ Press /\ ~menu
    /\ UNCHANGED menu
    /\ \E w \in Created(desk) \cap Apps :
           ~desk.win[w].hidden /\ gesture' = Gesture("task", w, 0, "none")
    /\ Become(desk, FALSE, FALSE)

\* desktop_hit_window_button, desktop_window_resize_edges and
\* desktop_point_in_titlebar: what of a window is under the pointer.
Parts(w, x) ==
    LET v == desk.win[w]
    IN  {<<"close", "none">>, <<"maximize", "none">>, <<"minimize", "none">>, <<"client", "none">>}
        \cup IF v.maximized \/ w \in Fixed THEN {<<"move", "none">>}
             ELSE IF x = v.x THEN {<<"resize", "left">>}
             ELSE IF x = v.x + v.w - 1 THEN {<<"resize", "right">>}
             ELSE {<<"move", "none">>}

\* A press on a window: it is focused; a click on its client area calls the
\* application, which may open another one.
PressWindow ==
    /\ Press /\ ~menu
    /\ UNCHANGED menu
    /\ \E x \in Columns :
           LET w == Under(desk, x)
           IN  /\ w # None
               /\ \E p \in Parts(w, x), h \in Hovered(x) :
                      /\ gesture' = Gesture(p[1], w, x, p[2])
                      /\ \E d \in {Focus(h, w)} \cup
                                  (IF p[1] = "client" /\ w \in Launchers
                                   THEN {Launch(Focus(h, w), a) : a \in Apps} ELSE {}) :
                             Become(IF p[1] = "client" /\ w \in Apps THEN Dirty(d, w) ELSE d, TRUE, FALSE)

\* A press where no window is, perhaps on an icon.
PressDesktop ==
    /\ Press /\ ~menu
    /\ UNCHANGED menu
    /\ \E x \in Columns : Under(desk, x) = None
    /\ gesture' = [NoGesture EXCEPT !.kind = "icon"]
    /\ Become(desk, TRUE, FALSE)

\* The pointer moves with the button held: the window is resized or dragged.
Drag ==
    /\ up /\ gesture.kind \in {"resize", "move"}
    /\ UNCHANGED <<gesture, presses, menu>>
    /\ \E x \in Columns :
           LET w == gesture.w
               r == Resized([x |-> gesture.x, w |-> gesture.size, edge |-> gesture.edge], x - gesture.at)
               d == IF gesture.kind = "move" THEN MoveTo(desk, w, x - (gesture.at - gesture.x))
                    ELSE Put(desk, w, [desk.win[w] EXCEPT !.x = r.x, !.w = r.w, !.dirty = TRUE])
               changed == d.win[w].x # desk.win[w].x \/ d.win[w].w # desk.win[w].w
           IN  Become(d, changed, FALSE)

\* The pointer moves with no button down.
Hover ==
    /\ Idle
    /\ UNCHANGED <<gesture, presses, menu>>
    /\ \E x \in Columns : \E d \in Hovered(x) : Become(d, FALSE, menu)

\* The button is released: off what it was pressed on, or on it.
Released(d) ==
    LET w == gesture.w
    IN  CASE gesture.kind = "task" -> {d, Focus(Restore(d, w), w)}
          [] gesture.kind = "close" -> {d, FocusTop(Close(d, w))}
          [] gesture.kind = "maximize" -> {d, Focus(Maximize(d, w), w)}
          [] gesture.kind = "minimize" -> {d, FocusTop(Minimize(d, w))}
          [] gesture.kind = "icon" -> {d} \cup {Open(d, v) : v \in Windows}
          [] OTHER -> {d}

Release ==
    /\ up /\ gesture.kind # "none"
    /\ UNCHANGED <<presses, menu>>
    /\ gesture' = NoGesture
    /\ \E d \in Released(desk) : Become(d, d # desk, d # desk)

\* desktop_run: a key goes to the focused application or to the terminal,
\* whose commands may open an application or ask for a repaint.
Key ==
    /\ up
    /\ UNCHANGED <<gesture, presses, menu>>
    /\ LET w == Topmost(desk, {v \in Windows : desk.win[v].focused})
       IN  /\ w # None
           /\ \E d \in {desk} \cup (IF w \in Launchers \cup Builtins
                                    THEN {Launch(desk, a) : a \in Apps} ELSE {}) :
                  Become(Dirty(d, w), FALSE, FALSE)

\* desktop_mark_animated_apps_dirty, desktop_request_app_redraw, the clock's
\* second and desktop_set_window_title: a window is to be drawn again.
Redraw ==
    /\ up
    /\ UNCHANGED <<gesture, presses, menu>>
    /\ \E w \in Created(desk), scene \in BOOLEAN : Become(Dirty(desk, w), scene, TRUE)

\* The end of desktop_run's loop: the scene when it or a window is dirty, else
\* the taskbar.  Drawing a scene draws every visible window.
Draw ==
    /\ up
    /\ desk.scene \/ AnyDirty(desk) \/ desk.bar
    /\ LET whole == desk.scene \/ AnyDirty(desk)
       IN  /\ desk' = [desk EXCEPT !.scene = FALSE, !.bar = FALSE,
                         !.win = [w \in Windows |->
                             [desk.win[w] EXCEPT !.dirty = @ /\ ~(whole /\ w \in Created(desk) /\ Visible(desk, w))]]]
           /\ stale' = (stale /\ ~whole)
    /\ UNCHANGED <<gesture, presses, menu, up, left>>

\* desktop_request_kernel_shell ends the loop; the shell's desktop command
\* starts it again with new windows, and no application was closed.
Leave ==
    /\ Idle /\ menu
    /\ up' = FALSE /\ menu' = FALSE
    /\ left' = (left \/ desk.open # {})
    /\ UNCHANGED <<desk, gesture, presses, stale>>

Enter ==
    /\ ~up
    /\ up' = TRUE /\ stale' = TRUE
    /\ \E a \in Apps : desk' = Begin(desk, a)
    /\ UNCHANGED <<gesture, presses, menu, left>>

Next ==
    \/ MenuChoose \/ PressStart \/ PressTaskbar \/ PressWindow \/ PressDesktop
    \/ Drag \/ Hover \/ Release \/ Key \/ Redraw \/ Draw \/ Leave \/ Enter

Spec == Init /\ [][Next]_vars

-----------------------------------------------------------------------------
(* Properties. *)

\* The variables are of their types.
TypeOK ==
    /\ Created(desk) \subseteq Windows
    /\ desk.open \subseteq Apps
    /\ \A w \in Windows : desk.win[w].x \in 0 .. Screen /\ desk.win[w].w \in 0 .. Screen
    /\ gesture.w \in Windows \cup {None}

\* Each window is in the drawing order once, and the window that is focused,
\* which desktop_draw_scene draws last, is the one the pointer finds first.
FocusedOnTop ==
    /\ \A i, j \in DOMAIN desk.order : desk.order[i] = desk.order[j] => i = j
    /\ {w \in Windows : desk.win[w].focused} = {Topmost(desk, Windows)} \ {None}

\* A window stays on the screen and no smaller than its minimum, dragged,
\* resized, maximized or restored.
OnScreen ==
    \A w \in Created(desk) : desk.win[w].w >= MinWidth /\ desk.win[w].x + desk.win[w].w <= Screen

\* What differs from the screen will be drawn by the next pass of the loop.
NothingStale == up /\ stale => desk.scene \/ AnyDirty(desk)

\* An application's on_init and on_close alternate, and one that is initialised
\* has a window, unless the desktop was left with it open.
AppsPaired ==
    ~left => ~desk.twice /\ desk.open = {w \in Created(desk) \cap Apps : ~desk.win[w].hidden}

WindowsSound == FocusedOnTop /\ OnScreen /\ NothingStale /\ AppsPaired
=============================================================================
