--------------------------- MODULE CompositorProofs ---------------------------
(***************************************************************************)
(* A proof about Compositor for any width of screen and cursor and any     *)
(* pictures: after every pass of the desktop's loop the screen shows the   *)
(* scene with the cursor at the pointer.                                   *)
(*                                                                         *)
(* Erased is the back buffer without the cursor.  The argument follows it  *)
(* through a pass: where nothing is marked to be drawn it shows the scene, *)
(* erasing the cursor does not change it, and drawing brings the rest up   *)
(* to date.  The frame buffer differs from the back buffer only inside the *)
(* dirty region.                                                           *)
(***************************************************************************)
EXTENDS Compositor, TLAPS

Typing ==
    /\ back = [c \in Columns |-> back[c]]
    /\ front = [c \in Columns |-> front[c]]
    /\ content = [c \in Columns |-> content[c]]
    /\ dirty \subseteq Columns

\* What the frame buffer lacks is marked.
FrontFollows == \A c \in Columns \ dirty : front[c] = back[c]

\* A cursor that is drawn stands where the loop drew it last, and everything
\* is presented.
CursorInPlace ==
    /\ cursorDrawn /\ saved.x = lastX /\ dirty = {}
    /\ \A c \in Columns \cap Sprite(lastX) : back[c] = Cursor

\* Where no flag asks for a drawing, the scene is shown.
Shows(c) == Erased[c] = content[c]

SceneKept ==
    scene \/ window \/ \A c \in Columns : (c = Taskbar /\ bar) \/ Shows(c)

\* What holds at each place of the loop.
Placed ==
    /\ pc \in {"enter"} => scene /\ x = lastX
    /\ pc \in {"events", "timed", "erase"} => CursorInPlace /\ SceneKept
    /\ pc = "draw" => SceneKept /\ (IF Changed THEN ~cursorDrawn ELSE CursorInPlace)
    /\ pc = "cursor" =>
          /\ ~scene /\ ~window /\ ~bar /\ \A c \in Columns : Shows(c)
          /\ IF x # lastX \/ rendered THEN ~cursorDrawn ELSE CursorInPlace
    /\ pc = "wait" =>
          /\ ~scene /\ ~window /\ ~bar /\ \A c \in Columns : Shows(c)
          /\ x = lastX /\ CursorInPlace

IInv == Typing /\ FrontFollows /\ Placed

-----------------------------------------------------------------------------
(* The dirty region. *)

\* A mark covers what it is asked to and what was marked before.
LEMMA MarkCovers ==
    ASSUME Typing, NEW S
    PROVE  /\ Mark(S) \subseteq Columns
           /\ dirty \subseteq Mark(S) /\ S \cap Columns \subseteq Mark(S)
<1>1. \A c \in Columns : c <= c
  BY DEF Columns
<1> QED BY <1>1 DEF Mark, Span, Typing

\* Storing and marking keeps the frame buffer behind the back buffer only where
\* it is marked.
LEMMA PaintFollows ==
    ASSUME Typing, FrontFollows, NEW S, NEW image, Paint(S, image), front' = front
    PROVE  /\ FrontFollows' /\ dirty' \subseteq Columns
           /\ back' = [c \in Columns |-> back'[c]]
           /\ \A c \in Columns : back'[c] = IF c \in S THEN image[c] ELSE back[c]
<1>1. /\ Mark(S) \subseteq Columns
      /\ dirty \subseteq Mark(S) /\ S \cap Columns \subseteq Mark(S)
  BY MarkCovers
<1>2. /\ back' = [c \in Columns |-> IF c \in S THEN image[c] ELSE back[c]]
      /\ dirty' = Mark(S)
  BY DEF Paint
<1>3. \A c \in Columns : back'[c] = IF c \in S THEN image[c] ELSE back[c]
  BY <1>2
<1>4. back' = [c \in Columns |-> back'[c]]
  BY <1>2
<1>5. FrontFollows'
  BY <1>1, <1>2, <1>3 DEF FrontFollows
<1> QED BY <1>1, <1>2, <1>3, <1>4, <1>5

\* Drawing the cursor at the pointer and presenting leaves the two buffers
\* equal, the cursor in place and the picture beneath it saved.
LEMMA CursorShown ==
    ASSUME Typing, FrontFollows, DrawCursor(x), Present(Marked(x)), lastX' = x
    PROVE  /\ FrontFollows' /\ CursorInPlace' /\ dirty' = {}
           /\ back' = [c \in Columns |-> back'[c]]
           /\ front' = [c \in Columns |-> front'[c]]
           /\ \A c \in Columns : Erased'[c] = Erased[c]
<1> DEFINE old == IF cursorDrawn THEN Sprite(saved.x) ELSE {}
<1>1. /\ dirty \subseteq Marked(x)
      /\ (Sprite(x) \cup old) \cap Columns \subseteq Marked(x)
  BY MarkCovers DEF Marked
<1>2. /\ saved'.x = x
      /\ \A c \in Columns : saved'.pixels[c] = IF c \in Sprite(x) THEN Erased[c] ELSE Text
      /\ back' = [c \in Columns |-> IF c \in Sprite(x) THEN Cursor ELSE Erased[c]]
      /\ cursorDrawn' = TRUE
  BY DEF DrawCursor
<1>3. /\ \A c \in Columns : back'[c] = IF c \in Sprite(x) THEN Cursor ELSE Erased[c]
      /\ back' = [c \in Columns |-> back'[c]]
  BY <1>2
<1>4. /\ front' = [c \in Columns |-> IF c \in Marked(x) THEN back'[c] ELSE front[c]]
      /\ dirty' = {}
  BY DEF Present
<1>5. \A c \in Columns : Erased[c] = IF c \in old THEN saved.pixels[c] ELSE back[c]
  BY DEF Erased
<1> HIDE DEF old
<1>6. ASSUME NEW c \in Columns PROVE front'[c] = back'[c]
  <2>1. CASE c \in Marked(x)
    BY <1>4, <2>1
  <2>2. CASE c \notin Marked(x)
    <3>1. c \notin Sprite(x) /\ c \notin old /\ c \notin dirty
      BY <1>1, <2>2
    <3>2. back'[c] = back[c]
      BY <1>3, <1>5, <3>1
    <3> QED BY <1>4, <2>2, <3>1, <3>2 DEF FrontFollows
  <2> QED BY <2>1, <2>2
<1>7. front' = [c \in Columns |-> front'[c]]
  BY <1>4
<1>8. \A c \in Columns : Erased'[c] = IF c \in Sprite(x) THEN saved'.pixels[c] ELSE back'[c]
  BY <1>2 DEF Erased, Sprite
<1>9. \A c \in Columns : Erased'[c] = Erased[c]
  BY <1>2, <1>3, <1>8
<1>10. CursorInPlace'
  BY <1>2, <1>3, <1>4 DEF CursorInPlace, Sprite
<1>11. FrontFollows'
  BY <1>6 DEF FrontFollows
<1> QED BY <1>3, <1>4, <1>7, <1>9, <1>10, <1>11

\* Without a cursor on it the back buffer is the picture.
LEMMA Bare == ~cursorDrawn => \A c \in Columns : Erased[c] = back[c]
BY DEF Erased

-----------------------------------------------------------------------------
(* The steps of the loop. *)

LEMMA InitInv == Init => IInv
BY DEF Init, IInv, Typing, FrontFollows, Placed

LEMMA StartInv == IInv /\ Start => IInv'
<1> SUFFICES ASSUME IInv, Start PROVE IInv'
  OBVIOUS
<1>1. Typing /\ FrontFollows
  BY DEF IInv
<1>2. /\ FrontFollows' /\ dirty' \subseteq Columns
      /\ back' = [c \in Columns |-> back'[c]]
  BY <1>1, PaintFollows DEF Start
<1>3. Typing'
  BY <1>1, <1>2 DEF Typing, Start
<1>4. Placed'
  BY DEF Placed, Start
<1> QED BY <1>2, <1>3, <1>4 DEF IInv

LEMMA EnterInv == IInv /\ Enter => IInv'
<1> SUFFICES ASSUME IInv, Enter PROVE IInv'
  OBVIOUS
<1>1. Typing /\ FrontFollows /\ scene /\ x = lastX
  BY DEF IInv, Placed, Enter
<1>2. /\ DrawCursor(x) /\ Present(Marked(x)) /\ pc' = "events"
      /\ UNCHANGED <<content, x, lastX, scene, window, bar, rendered>>
  BY DEF Enter
<1>3. /\ FrontFollows' /\ CursorInPlace' /\ dirty' = {}
      /\ back' = [c \in Columns |-> back'[c]]
      /\ front' = [c \in Columns |-> front'[c]]
  BY <1>1, <1>2, CursorShown
<1>4. Typing'
  BY <1>1, <1>2, <1>3 DEF Typing
<1>5. SceneKept'
  BY <1>1, <1>2 DEF SceneKept
<1>6. Placed'
  BY <1>2, <1>3, <1>5 DEF Placed
<1> QED BY <1>3, <1>4, <1>6 DEF IInv

\* What changes the scene raises the flag that covers the change.
LEMMA ChangeInv == IInv /\ (Events \/ Timed) => IInv'
<1> SUFFICES ASSUME IInv, Events \/ Timed PROVE IInv'
  OBVIOUS
<1>1. Typing /\ FrontFollows /\ CursorInPlace /\ SceneKept
  BY DEF IInv, Placed, Events, Timed
<1>2. /\ UNCHANGED <<back, front, dirty, saved, cursorDrawn, lastX>>
      /\ pc' \in {"timed", "erase"}
  BY DEF Events, Timed
<1>3. content' = [c \in Columns |-> content'[c]]
  <2>1. CASE UNCHANGED content
    BY <1>1, <2>1 DEF Typing
  <2>2. CASE content' \in [Columns -> Colors]
    BY <2>2
  <2>3. CASE \E color \in Colors : content' = [content EXCEPT ![Taskbar] = color]
    BY <1>1, <2>3 DEF Typing
  <2> QED BY <2>1, <2>2, <2>3 DEF Events, Timed
<1>4. Typing' /\ FrontFollows' /\ CursorInPlace'
  BY <1>1, <1>2, <1>3 DEF Typing, FrontFollows, CursorInPlace
<1>5. Erased' = Erased
  BY <1>2 DEF Erased
<1>6. \/ UNCHANGED <<content, scene, window, bar>>
      \/ scene' \/ window'
      \/ /\ \A c \in Columns \ {Taskbar} : content'[c] = content[c]
         /\ bar' /\ UNCHANGED <<scene, window>>
  BY <1>1 DEF Events, Timed, Typing
<1>7. SceneKept'
  BY <1>1, <1>5, <1>6 DEF SceneKept, Shows
<1> QED BY <1>2, <1>4, <1>7 DEF IInv, Placed

LEMMA EraseInv == IInv /\ Erase => IInv'
<1> SUFFICES ASSUME IInv, Erase PROVE IInv'
  OBVIOUS
<1>1. Typing /\ FrontFollows /\ CursorInPlace /\ SceneKept
  BY DEF IInv, Placed, Erase
<1>2. /\ pc' = "draw"
      /\ UNCHANGED <<content, front, saved, x, lastX, scene, window, bar, rendered>>
  BY DEF Erase
<1>3. CASE ~Changed
  <2>1. UNCHANGED <<back, dirty, cursorDrawn>>
    BY <1>3 DEF Erase
  <2>2. Erased' = Erased /\ ~Changed'
    BY <1>2, <1>3, <2>1 DEF Erased, Changed
  <2>3. Typing' /\ FrontFollows' /\ CursorInPlace' /\ SceneKept'
    BY <1>1, <1>2, <2>1, <2>2
       DEF Typing, FrontFollows, CursorInPlace, SceneKept, Shows
  <2> QED BY <1>2, <2>2, <2>3 DEF IInv, Placed
<1>4. CASE Changed
  <2>1. /\ back' = Erased /\ ~cursorDrawn' /\ cursorDrawn
        /\ dirty' = Mark(Sprite(saved.x))
    BY <1>1, <1>4 DEF Erase, CursorInPlace
  <2>2. /\ dirty \subseteq dirty' /\ dirty' \subseteq Columns
        /\ Sprite(saved.x) \cap Columns \subseteq dirty'
    BY <1>1, <2>1, MarkCovers
  <2>3. \A c \in Columns \ Sprite(saved.x) : Erased[c] = back[c]
    BY DEF Erased
  <2>4. FrontFollows'
    BY <1>1, <1>2, <2>1, <2>2, <2>3 DEF FrontFollows
  <2>5. \A c \in Columns : Erased'[c] = Erased[c]
    BY <2>1 DEF Erased
  <2>6. SceneKept'
    BY <1>1, <1>2, <2>5 DEF SceneKept, Shows
  <2>7. Typing'
    <3>1. back' = [c \in Columns |-> back'[c]]
      BY <2>1 DEF Erased
    <3> QED BY <1>1, <1>2, <2>2, <3>1 DEF Typing
  <2>8. Changed'
    BY <1>2, <1>4 DEF Changed
  <2> QED BY <1>2, <2>1, <2>4, <2>6, <2>7, <2>8 DEF IInv, Placed
<1> QED BY <1>3, <1>4

LEMMA DrawInv == IInv /\ Draw => IInv'
<1> SUFFICES ASSUME IInv, Draw PROVE IInv'
  OBVIOUS
<1>1. /\ Typing /\ FrontFollows /\ SceneKept
      /\ IF Changed THEN ~cursorDrawn ELSE CursorInPlace
  BY DEF IInv, Placed, Draw
<1>2. /\ pc' = "cursor" /\ rendered' = (scene \/ window \/ bar)
      /\ ~scene' /\ ~window' /\ ~bar'
      /\ UNCHANGED <<content, front, saved, cursorDrawn, x, lastX>>
  BY DEF Draw
<1> DEFINE Fine ==
        /\ FrontFollows' /\ dirty' \subseteq Columns
        /\ back' = [c \in Columns |-> back'[c]]
        /\ \A c \in Columns : Shows(c)'
<1>3. ASSUME scene \/ window PROVE Fine
  <2>1. Paint(Columns, content) /\ ~cursorDrawn'
    BY <1>1, <1>2, <1>3 DEF Draw, Changed
  <2>2. /\ FrontFollows' /\ dirty' \subseteq Columns
        /\ back' = [c \in Columns |-> back'[c]]
        /\ \A c \in Columns : back'[c] = content[c]
    BY <1>1, <1>2, <2>1, PaintFollows
  <2>3. \A c \in Columns : Erased'[c] = back'[c]
    BY <2>1 DEF Erased
  <2> QED BY <1>2, <2>2, <2>3 DEF Shows
<1>4. ASSUME ~scene, ~window, bar PROVE Fine
  <2>1. Paint({Taskbar}, content) /\ ~cursorDrawn /\ ~cursorDrawn'
    BY <1>1, <1>2, <1>4 DEF Draw, Changed
  <2>2. /\ FrontFollows' /\ dirty' \subseteq Columns
        /\ back' = [c \in Columns |-> back'[c]]
        /\ \A c \in Columns : back'[c] = IF c \in {Taskbar} THEN content[c] ELSE back[c]
    BY <1>1, <1>2, <2>1, PaintFollows
  <2>3. \A c \in Columns : Erased'[c] = back'[c]
    BY <2>1 DEF Erased
  <2>4. \A c \in Columns : c = Taskbar \/ back[c] = content[c]
    BY <1>1, <1>4, <2>1, Bare DEF SceneKept, Shows
  <2> QED BY <1>2, <2>2, <2>3, <2>4 DEF Shows
<1>5. ASSUME ~scene, ~window, ~bar PROVE Fine
  <2>1. UNCHANGED <<back, dirty>>
    BY <1>5 DEF Draw
  <2>2. Erased' = Erased
    BY <1>2, <2>1 DEF Erased
  <2> QED BY <1>1, <1>2, <1>5, <2>1, <2>2 DEF Typing, FrontFollows, SceneKept, Shows
<1>6. Fine
  BY <1>3, <1>4, <1>5
<1>7. Typing'
  BY <1>1, <1>2, <1>6 DEF Typing
<1>8. IF x' # lastX' \/ rendered' THEN ~cursorDrawn' ELSE CursorInPlace'
  <2>1. CASE Changed
    <3>1. ~cursorDrawn' /\ (x' # lastX' \/ rendered')
      BY <1>1, <1>2, <2>1 DEF Changed
    <3> QED BY <3>1
  <2>2. CASE ~Changed
    <3>1. UNCHANGED <<back, dirty>> /\ CursorInPlace /\ ~(x' # lastX' \/ rendered')
      BY <1>1, <1>2, <2>2 DEF Draw, Changed
    <3> QED BY <1>2, <3>1 DEF CursorInPlace
  <2> QED BY <2>1, <2>2
<1>9. Placed'
  BY <1>2, <1>6, <1>8 DEF Placed
<1> QED BY <1>6, <1>7, <1>9 DEF IInv

LEMMA FinishInv == IInv /\ Finish => IInv'
<1> SUFFICES ASSUME IInv, Finish PROVE IInv'
  OBVIOUS
<1>1. /\ Typing /\ FrontFollows /\ ~scene /\ ~window /\ ~bar
      /\ \A c \in Columns : Shows(c)
      /\ IF x # lastX \/ rendered THEN ~cursorDrawn ELSE CursorInPlace
  BY DEF IInv, Placed, Finish
<1>2. pc' = "wait" /\ UNCHANGED <<content, x, scene, window, bar, rendered>> /\ lastX' = x
  BY DEF Finish
<1>3. CASE x # lastX \/ rendered \/ ~cursorDrawn
  <2>1. DrawCursor(x) /\ Present(Marked(x))
    BY <1>3 DEF Finish
  <2>2. /\ FrontFollows' /\ CursorInPlace' /\ dirty' = {}
        /\ back' = [c \in Columns |-> back'[c]]
        /\ front' = [c \in Columns |-> front'[c]]
        /\ \A c \in Columns : Erased'[c] = Erased[c]
    BY <1>1, <1>2, <2>1, CursorShown
  <2>3. Typing'
    BY <1>1, <1>2, <2>2 DEF Typing
  <2>4. \A c \in Columns : Shows(c)'
    BY <1>1, <1>2, <2>2 DEF Shows
  <2> QED BY <1>1, <1>2, <2>2, <2>3, <2>4 DEF IInv, Placed
<1>4. CASE ~(x # lastX \/ rendered \/ ~cursorDrawn)
  <2>1. UNCHANGED <<back, front, dirty, saved, cursorDrawn>> /\ lastX' = lastX
    BY <1>2, <1>4 DEF Finish
  <2>2. Erased' = Erased
    BY <2>1 DEF Erased
  <2>3. Typing' /\ FrontFollows' /\ CursorInPlace'
    BY <1>1, <1>2, <1>4, <2>1 DEF Typing, FrontFollows, CursorInPlace
  <2>4. \A c \in Columns : Shows(c)'
    BY <1>1, <1>2, <2>2 DEF Shows
  <2> QED BY <1>1, <1>2, <2>1, <2>3, <2>4 DEF IInv, Placed
<1> QED BY <1>3, <1>4

LEMMA WaitInv == IInv /\ Wait => IInv'
<1> SUFFICES ASSUME IInv, Wait PROVE IInv'
  OBVIOUS
<1>1. /\ Typing /\ FrontFollows /\ CursorInPlace /\ \A c \in Columns : Shows(c)
  BY DEF IInv, Placed, Wait
<1>2. /\ pc' = "events"
      /\ UNCHANGED <<content, back, front, dirty, saved, cursorDrawn, x, lastX, scene, window, bar>>
  BY DEF Wait
<1>3. Erased' = Erased
  BY <1>2 DEF Erased
<1>4. Typing' /\ FrontFollows' /\ CursorInPlace' /\ SceneKept'
  BY <1>1, <1>2, <1>3 DEF Typing, FrontFollows, CursorInPlace, SceneKept, Shows
<1> QED BY <1>2, <1>4 DEF IInv, Placed

LEMMA LeaveInv == IInv /\ Leave => IInv'
<1> SUFFICES ASSUME IInv, Leave PROVE IInv'
  OBVIOUS
<1>1. /\ pc' = "shell" /\ back' = [c \in Columns |-> Text] /\ dirty' = {}
      /\ front' = [c \in Columns |-> IF c \in Columns THEN back'[c] ELSE front[c]]
      /\ UNCHANGED content
  BY DEF Leave, Present
<1>2. Typing' /\ FrontFollows'
  BY <1>1 DEF IInv, Typing, FrontFollows
<1> QED BY <1>1, <1>2 DEF IInv, Placed

-----------------------------------------------------------------------------
(* The specification. *)

LEMMA NextInv == IInv /\ [Next]_vars => IInv'
<1> SUFFICES ASSUME IInv, [Next]_vars PROVE IInv'
  OBVIOUS
<1>1. CASE UNCHANGED vars
  BY <1>1 DEF vars, IInv, Typing, FrontFollows, Placed, CursorInPlace, SceneKept, Shows,
              Erased, Changed
<1> QED BY <1>1, StartInv, EnterInv, ChangeInv, EraseInv, DrawInv, FinishInv, WaitInv, LeaveInv
        DEF Next

\* A screen that shows the scene after a pass shows it where the cursor is not,
\* and holds it beneath the cursor.
LEMMA WaitShows == IInv => ScreenTrue
<1> SUFFICES ASSUME IInv, pc = "wait"
             PROVE  /\ front = [c \in Columns |-> IF c \in Sprite(x) THEN Cursor ELSE content[c]]
                    /\ \A c \in Columns \cap Sprite(x) : saved.pixels[c] = content[c]
  BY DEF ScreenTrue
<1>1. /\ Typing /\ FrontFollows /\ \A c \in Columns : Shows(c)
      /\ x = lastX /\ CursorInPlace
  BY DEF IInv, Placed
<1>2. \A c \in Columns : Erased[c] = IF c \in Sprite(x) THEN saved.pixels[c] ELSE back[c]
  BY <1>1 DEF Erased, CursorInPlace
<1>3. \A c \in Columns : front[c] = back[c]
  BY <1>1 DEF FrontFollows, CursorInPlace
<1>4. \A c \in Columns : front[c] = IF c \in Sprite(x) THEN Cursor ELSE content[c]
  BY <1>1, <1>2, <1>3 DEF CursorInPlace, Shows
<1>5. front = [c \in Columns |-> IF c \in Sprite(x) THEN Cursor ELSE content[c]]
  <2>1. front = [c \in Columns |-> front[c]]
    BY <1>1 DEF Typing
  <2> QED BY <1>4, <2>1
<1> QED BY <1>1, <1>2, <1>5 DEF Shows

\* After every pass of desktop_run the frame buffer shows the scene with one
\* cursor, at the pointer, and the pixels saved beneath it are the scene's,
\* however windows, taskbar and pointer changed and however often the desktop
\* was left for the console and entered again.
THEOREM ScreenAlwaysTrue == Spec => []ScreenTrue
<1>1. Init => IInv
  BY InitInv
<1>2. IInv /\ [Next]_vars => IInv'
  BY NextInv
<1>3. IInv => ScreenTrue
  BY WaitShows
<1> QED BY <1>1, <1>2, <1>3, PTL DEF Spec

=============================================================================
