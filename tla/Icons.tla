-------------------------------- MODULE Icons --------------------------------
(***************************************************************************)
(* The icons of the desktop (desktop/desktop.c): dragged with the left     *)
(* button, copied by a drag with the right one, and put on the grid when   *)
(* the button is released.  One axis stands for both; which icon is        *)
(* highlighted and what a click opens are left out (Windows opens them).   *)
(***************************************************************************)
EXTENDS Integers, Sequences, FiniteSetsExt

CONSTANTS
    Launchers,      \* desktop_launcher_icon_count
    MaxIcons,       \* DESKTOP_ICON_INSTANCE_MAX
    Cells,          \* columns of the grid
    CellWidth,      \* DESKTOP_ICON_CELL_WIDTH
    IconWidth       \* DESKTOP_ICON_TILE_SIZE

VARIABLES
    icon,           \* the position of each desktop icon
    button,         \* the buttons held at the last event
    pressed, copy, start,       \* desktop_pressed_icon and how it was pressed
    drag, dragCopy, offset,     \* desktop_drag_icon and how it is dragged
    mixed           \* history: a button went down while the other was held

vars == <<icon, button, pressed, copy, start, drag, dragCopy, offset, mixed>>

No == 0
Columns == 0 .. Cells - 1
Positions == 0 .. Cells * CellWidth - 1
Cell(c) == c * CellWidth
LastPosition == Cells * CellWidth - IconWidth

\* desktop_clamp
Clamp(n, lo, hi) == IF n < lo THEN lo ELSE IF n > hi THEN hi ELSE n
Dist(a, b) == IF a < b THEN b - a ELSE a - b

\* desktop_init_icons: one icon for each launcher, in the cells in turn.
Init ==
    /\ icon = [i \in 1 .. Launchers |-> Cell((i - 1) % Cells)]
    /\ button = {}
    /\ pressed = No /\ copy = FALSE /\ start = 0
    /\ drag = No /\ dragCopy = FALSE /\ offset = 0
    /\ mixed = FALSE

\* desktop_find_icon_at: the first one.
At(s, x) ==
    LET found == {i \in DOMAIN s.icon : x \in s.icon[i] .. s.icon[i] + IconWidth - 1}
    IN  IF found = {} THEN No ELSE Min(found)

\* Mutant of Snap: the nearest cell, taken or not.
SnapNearest(s, i) ==
    [s EXCEPT !.icon[i] = Cell(Clamp((s.icon[i] + CellWidth \div 2) \div CellWidth, 0, Cells - 1))]

\* desktop_snap_icon_to_grid: the free cell nearest to the icon, the first of
\* several; its own when none is free.
Snap(s, i) ==
    LET col == Clamp((s.icon[i] + CellWidth \div 2) \div CellWidth, 0, Cells - 1)
        free == {c \in Columns : \A j \in DOMAIN s.icon \ {i} : s.icon[j] # Cell(c)}
        near == {c \in free : \A e \in free : Dist(c, col) <= Dist(e, col)}
    IN  [s EXCEPT !.icon[i] = Cell(IF free = {} THEN col ELSE Min(near))]

-----------------------------------------------------------------------------
(* The stages of desktop_handle_mouse, each from a state of the icons to the *)
(* next.                                                                     *)

\* A held icon that leaves the place it was pressed at is dragged; one pressed
\* with the right button is copied first, if there is room.
BeginDrag(s, x) ==
    LET new == s.copy /\ Len(s.icon) < MaxIcons
        icons == IF new THEN Append(s.icon, s.icon[s.pressed]) ELSE s.icon
        i == IF new THEN Len(icons) ELSE s.pressed
    IN  IF s.pressed = No \/ s.drag # No \/ x = s.start THEN s
        ELSE [s EXCEPT !.icon = icons, !.drag = i, !.dragCopy = s.copy, !.offset = x - s.icon[s.pressed]]

\* desktop_move_icon
MoveIcon(s, x) ==
    IF s.drag = No THEN s
    ELSE [s EXCEPT !.icon[s.drag] = Clamp(x - s.offset, 0, LastPosition)]

Forget(s) == [s EXCEPT !.pressed = No, !.drag = No, !.dragCopy = FALSE, !.offset = 0]

\* A press of the left button forgets a drag; over a window or the taskbar it
\* presses no icon.
LeftPress(s, x, over) ==
    [Forget(s) EXCEPT !.pressed = IF over THEN No ELSE At(s, x), !.start = x, !.copy = FALSE]

RightPress(s, x, over) ==
    IF over \/ At(s, x) = No THEN s
    ELSE [Forget(s) EXCEPT !.pressed = At(s, x), !.start = x, !.copy = TRUE]

\* A release ends a drag of its own button on the grid, and any drag.
LetGo(s, right) ==
    Forget(IF s.drag # No /\ s.dragCopy = right THEN Snap(s, s.drag) ELSE s)

When(cond, s, t) == IF cond THEN t ELSE s

\* One report of the mouse: position, buttons, and whether a window is there.
Mouse ==
    \E x \in Positions, now \in SUBSET {"left", "right"}, over \in BOOLEAN :
        LET s0 == [icon |-> icon, pressed |-> pressed, copy |-> copy, start |-> start,
                   drag |-> drag, dragCopy |-> dragCopy, offset |-> offset]
            s1 == When(now # {}, s0, MoveIcon(BeginDrag(s0, x), x))
            s2 == When("left" \in now \ button, s1, LeftPress(s1, x, over))
            s3 == When("right" \in now \ button, s2, RightPress(s2, x, over))
            s4 == When("left" \in button \ now, s3, LetGo(s3, FALSE))
            s5 == When("right" \in button \ now, s4, LetGo(s4, TRUE))
        IN  /\ button' = now
            /\ mixed' = (mixed \/ now \cup button = {"left", "right"})
            /\ icon' = s5.icon /\ drag' = s5.drag
            /\ pressed' = s5.pressed /\ copy' = s5.copy /\ start' = s5.start
            /\ dragCopy' = s5.dragCopy /\ offset' = s5.offset

\* What follows the use of both buttons at once is not looked at.
Next == ~mixed /\ Mouse

Spec == Init /\ [][Next]_vars

-----------------------------------------------------------------------------
\* The variables are of their types.
TypeOK ==
    /\ Len(icon) \in Launchers .. MaxIcons
    /\ \A i \in DOMAIN icon : icon[i] \in 0 .. LastPosition
    /\ pressed \in 0 .. Len(icon) /\ drag \in 0 .. Len(icon)

\* Icons at rest are on the grid, and none hides another unless there are more
\* of them than cells; as long as one button was used at a time.
IconsSound ==
    ~mixed => \A i \in DOMAIN icon \ {drag} :
        /\ \E c \in Columns : icon[i] = Cell(c)
        /\ Len(icon) <= Cells => \A j \in DOMAIN icon \ {i, drag} : icon[j] # icon[i]
=============================================================================
