----------------------------- MODULE Compositor -----------------------------
(***************************************************************************)
(* The screen: a scene drawn into a back buffer, a cursor laid over it     *)
(* with the pixels beneath it saved, and the dirty part of the back buffer *)
(* copied to the frame buffer (drivers/gfx.c), in the order of the         *)
(* desktop's loop (desktop/desktop.c, desktop_run).                        *)
(*                                                                         *)
(* The screen is one row of pixels, the last one the taskbar; a pixel is   *)
(* what is drawn there.                                                    *)
(***************************************************************************)
EXTENDS Integers, FiniteSets

CONSTANTS
    Width,          \* framebuffer_width_px
    CursorWidth,    \* of the cursor's sprite
    Colors          \* what windows and taskbar may show in a pixel

VARIABLES
    content,        \* what the scene would show if drawn now
    back, front,    \* backbuffer, framebuffer_base
    dirty,          \* the dirty region, as the set of its columns
    saved,          \* cursor_saved_x and cursor_saved_pixels
    cursorDrawn,    \* cursor_drawn
    x, lastX,       \* desktop_cursor_x, last_cursor_x
    scene, window, bar,         \* desktop_scene_dirty, a dirty window, desktop_taskbar_dirty
    rendered,       \* of this pass of the loop
    pc

vars == <<content, back, front, dirty, saved, cursorDrawn, x, lastX, scene, window, bar, rendered, pc>>

Columns == 0 .. Width - 1
Taskbar == Width - 1
Cursor == "cursor"
Text == "text"

Span(S) == {c \in Columns : (\E a \in S : a <= c) /\ (\E b \in S : c <= b)}

\* Mutant of Mark: a mark replaces the ones before it.
MarkLast(S) == Span(S \cap Columns)

\* gfx_mark_dirty: clipped to the screen; the region is the span of all marks.
Mark(S) == Span(dirty \cup (S \cap Columns))

\* fill_rect and what is built on it: pixels are stored and marked.
Paint(S, image) ==
    /\ back' = [c \in Columns |-> IF c \in S THEN image[c] ELSE back[c]]
    /\ dirty' = Mark(S)

\* gfx_erase_cursor: the saved pixels are put back.
Sprite(at) == at .. at + CursorWidth - 1

Erased == [c \in Columns |-> IF cursorDrawn /\ c \in Sprite(saved.x) THEN saved.pixels[c] ELSE back[c]]

\* gfx_draw_cursor: one that is still drawn is erased first.
DrawCursor(at) ==
    /\ saved' = [x |-> at, pixels |-> [c \in Columns |-> IF c \in Sprite(at) THEN Erased[c] ELSE Text]]
    /\ back' = [c \in Columns |-> IF c \in Sprite(at) THEN Cursor ELSE Erased[c]]
    /\ cursorDrawn' = TRUE

\* gfx_present: the dirty region is copied.
Present(marks) ==
    /\ front' = [c \in Columns |-> IF c \in marks THEN back'[c] ELSE front[c]]
    /\ dirty' = {}

Marked(at) == Mark(Sprite(at) \cup (IF cursorDrawn THEN Sprite(saved.x) ELSE {}))

-----------------------------------------------------------------------------
\* The console's text is shown and the desktop not started.
Init ==
    /\ content \in [Columns -> Colors]
    /\ back = [c \in Columns |-> Text] /\ front = back
    /\ dirty = {} /\ cursorDrawn = FALSE
    /\ saved = [x |-> 0, pixels |-> back]
    /\ x = 0 /\ lastX = 0
    /\ scene = FALSE /\ window = FALSE /\ bar = FALSE /\ rendered = FALSE
    /\ pc = "shell"

\* desktop_run: the first scene, with the cursor over it, before the loop.
Start ==
    /\ pc = "shell" /\ pc' = "enter"
    /\ Paint(Columns, content)
    /\ scene' = TRUE /\ bar' = TRUE
    /\ x' \in Columns /\ lastX' = x'
    /\ UNCHANGED <<content, front, saved, cursorDrawn, window, rendered>>

Enter ==
    /\ pc = "enter" /\ pc' = "events"
    /\ DrawCursor(x) /\ Present(Marked(x))
    /\ UNCHANGED <<content, x, lastX, scene, window, bar, rendered>>

\* The events of a pass: the pointer moves, and what windows or taskbar show
\* changes, with a flag that says so.
Events ==
    /\ pc = "events" /\ pc' = "timed"
    /\ x' \in Columns
    /\ \E new \in [Columns -> Colors] :
           /\ content' = new
           /\ \/ new = content /\ UNCHANGED <<scene, window, bar>>
              \/ scene' = TRUE /\ UNCHANGED <<window, bar>>
              \/ window' = TRUE /\ UNCHANGED <<scene, bar>>
              \/ /\ \A c \in Columns \ {Taskbar} : new[c] = content[c]
                 /\ bar' = TRUE /\ UNCHANGED <<scene, window>>
    /\ rendered' = FALSE
    /\ UNCHANGED <<back, front, dirty, saved, cursorDrawn, lastX>>

\* The clock, the system's information and animated applications, once the
\* events have been handled.
Timed ==
    /\ pc = "timed" /\ pc' = "erase"
    /\ \/ UNCHANGED <<content, window, bar>>
       \/ /\ content' \in [Columns -> Colors]
          /\ window' = TRUE /\ bar' = TRUE
       \/ /\ \E color \in Colors : content' = [content EXCEPT ![Taskbar] = color]
          /\ bar' = TRUE /\ UNCHANGED window
    /\ UNCHANGED <<back, front, dirty, saved, cursorDrawn, x, lastX, scene, rendered>>

\* Mutant of Changed: a drawing of the taskbar alone is forgotten.
ChangedButBar == x # lastX \/ scene \/ window

\* The cursor is taken off the back buffer before anything is drawn there.
Changed == x # lastX \/ scene \/ window \/ bar

Erase ==
    /\ pc = "erase" /\ pc' = "draw"
    /\ IF Changed
       THEN /\ back' = Erased
            /\ dirty' = IF cursorDrawn THEN Mark(Sprite(saved.x)) ELSE dirty
            /\ cursorDrawn' = FALSE
       ELSE UNCHANGED <<back, dirty, cursorDrawn>>
    /\ UNCHANGED <<content, front, saved, x, lastX, scene, window, bar, rendered>>

\* desktop_draw_scene, or the taskbar alone.
Draw ==
    /\ pc = "draw" /\ pc' = "cursor"
    /\ IF scene \/ window THEN Paint(Columns, content)
       ELSE IF bar THEN Paint({Taskbar}, content)
       ELSE UNCHANGED <<back, dirty>>
    /\ rendered' = (scene \/ window \/ bar)
    /\ scene' = FALSE /\ window' = FALSE /\ bar' = FALSE
    /\ UNCHANGED <<content, front, saved, cursorDrawn, x, lastX>>

\* The cursor is drawn and presented after a movement or a drawing, and when
\* it was erased for nothing; then the loop waits for the next frame.
Finish ==
    /\ pc = "cursor" /\ pc' = "wait"
    /\ IF x # lastX \/ rendered \/ ~cursorDrawn
       THEN DrawCursor(x) /\ Present(Marked(x))
       ELSE UNCHANGED <<back, front, dirty, saved, cursorDrawn>>
    /\ lastX' = IF x # lastX \/ rendered THEN x ELSE lastX
    /\ UNCHANGED <<content, x, scene, window, bar, rendered>>

Wait ==
    /\ pc = "wait" /\ pc' = "events"
    /\ UNCHANGED <<content, back, front, dirty, saved, cursorDrawn, x, lastX, scene, window, bar, rendered>>

\* desktop_exit_to_shell: the console is painted over everything and shown
\* with its next character; the cursor stays marked as drawn.
Leave ==
    /\ pc = "timed" /\ pc' = "shell"
    /\ back' = [c \in Columns |-> Text]
    /\ Present(Columns)
    /\ UNCHANGED <<content, saved, cursorDrawn, x, lastX, scene, window, bar, rendered>>

Next == Start \/ Enter \/ Events \/ Timed \/ Erase \/ Draw \/ Finish \/ Wait \/ Leave

Spec == Init /\ [][Next]_vars

-----------------------------------------------------------------------------
(* Properties. *)

\* The variables are of their types.
TypeOK ==
    /\ content \in [Columns -> Colors]
    /\ back \in [Columns -> Colors \cup {Cursor, Text}]
    /\ front \in [Columns -> Colors \cup {Cursor, Text}]
    /\ dirty \subseteq Columns /\ x \in Columns /\ lastX \in Columns

\* After every pass the screen shows the scene as it is, with the cursor at the
\* pointer and no imprint of it elsewhere, and the saved pixels are the scene's.
ScreenTrue ==
    pc = "wait" =>
        /\ front = [c \in Columns |-> IF c \in Sprite(x) THEN Cursor ELSE content[c]]
        /\ \A c \in Columns \cap Sprite(x) : saved.pixels[c] = content[c]
=============================================================================
