---------------------------- MODULE PartsProofs ----------------------------
(***************************************************************************)
(* What the run of MCParts checks of memory, processes, names, storage,    *)
(* input and sound, of the desktop with its windows, icons and screen, and *)
(* of the applications holds in every instance.                            *)
(*                                                                         *)
(* The inductive invariants of the kernel's parts are those of             *)
(* KernelProofs.  Here are those of the desktop and the applications:      *)
(* IconsInv, WindowsInv, CalcInv and DocsInv; that of the screen is IInv   *)
(* of CompositorProofs.  A part has a lemma for its first state, one for   *)
(* its steps, one for the steps of the others, and one for what follows.   *)
(***************************************************************************)
EXTENDS MCParts, KernelProofs

-----------------------------------------------------------------------------
(* Icons: dragged and copied one button at a time, put on the grid.           *)

IconPlaces == 0 .. Icons!LastPosition
IconState ==
    [icon |-> icon, pressed |-> pressed, copy |-> copy, start |-> start,
     drag |-> drag, dragCopy |-> dragCopy, offset |-> offset]

IconRecords(S) ==
    [icon : S, pressed : Nat, copy : BOOLEAN, start : Int, drag : Nat, dragCopy : BOOLEAN, offset : Int]
IconsTyped(s) ==
    /\ s \in IconRecords(Seq(IconPlaces))
    /\ Len(s.icon) \in IconLaunchers .. MaxIcons
    /\ s.pressed <= Len(s.icon) /\ s.drag <= Len(s.icon)

\* The icons but the one that is dragged are on the grid, each in its own cell.
OnGrid(s) ==
    \A i \in DOMAIN s.icon \ {s.drag} :
        /\ \E c \in Icons!Columns : s.icon[i] = Icons!Cell(c)
        /\ Len(s.icon) <= Cells =>
               \A j \in DOMAIN s.icon \ {i, s.drag} : s.icon[j] # s.icon[i]

\* An icon is held by the button that is down: by the right one to be copied.
HeldBy(s, buttons) ==
    /\ buttons \in {{}, {"left"}, {"right"}}
    /\ s.pressed # 0 => buttons # {} /\ (s.copy <=> buttons = {"right"})
    /\ s.drag # 0 => buttons # {} /\ (s.dragCopy <=> buttons = {"right"})

IconsInv ==
    /\ IconsTyped(IconState) /\ button \subseteq {"left", "right"}
    /\ ~mixed => OnGrid(IconState) /\ HeldBy(IconState, button)

LEMMA IconFields ==
    ASSUME NEW S, NEW s \in IconRecords(S)
    PROVE  /\ s.icon \in S /\ s.pressed \in Nat /\ s.drag \in Nat
           /\ s.copy \in BOOLEAN /\ s.dragCopy \in BOOLEAN /\ s.offset \in Int /\ s.start \in Int
           /\ s = [icon |-> s.icon, pressed |-> s.pressed, copy |-> s.copy, start |-> s.start,
                   drag |-> s.drag, dragCopy |-> s.dragCopy, offset |-> s.offset]
BY DEF IconRecords

LEMMA IconFacts ==
    ASSUME NEW s, IconsTyped(s)
    PROVE  /\ s.icon \in Seq(IconPlaces) /\ DOMAIN s.icon = 1 .. Len(s.icon) /\ Len(s.icon) \in Nat
           /\ \A i \in DOMAIN s.icon : s.icon[i] \in IconPlaces /\ s.icon[i] \in Nat
           /\ s.pressed \in 0 .. Len(s.icon) /\ s.drag \in 0 .. Len(s.icon)
           /\ s.copy \in BOOLEAN /\ s.dragCopy \in BOOLEAN /\ s.offset \in Int /\ s.start \in Int
<1>1. /\ s.icon \in Seq(IconPlaces) /\ s.pressed \in Nat /\ s.drag \in Nat
      /\ s.copy \in BOOLEAN /\ s.dragCopy \in BOOLEAN /\ s.offset \in Int /\ s.start \in Int
  BY IconFields DEF IconsTyped
<1>2. DOMAIN s.icon = 1 .. Len(s.icon) /\ Len(s.icon) \in Nat
  BY <1>1
<1>3. \A i \in DOMAIN s.icon : s.icon[i] \in IconPlaces
  BY <1>1
<1>4. IconPlaces \subseteq Nat
  BY DEF IconPlaces
<1>5. s.pressed <= Len(s.icon) /\ s.drag <= Len(s.icon)
  BY DEF IconsTyped
<1>6. \A i \in DOMAIN s.icon : s.icon[i] \in Nat
  BY <1>3, <1>4
<1>7. s.pressed \in 0 .. Len(s.icon) /\ s.drag \in 0 .. Len(s.icon)
  BY <1>1, <1>2, <1>5
<1> QED BY <1>1, <1>2, <1>3, <1>6, <1>7

\* The ways in which the fields change.
LEMMA IconChanged ==
    ASSUME NEW S, NEW s \in IconRecords(S), NEW i \in S
    PROVE  [s EXCEPT !.icon = i] \in IconRecords(S)
BY DEF IconRecords

LEMMA PressChanged ==
    ASSUME NEW S, NEW s \in IconRecords(S), NEW n \in Nat, NEW p \in Int, NEW c \in BOOLEAN
    PROVE  [s EXCEPT !.pressed = n, !.start = p, !.copy = c] \in IconRecords(S)
BY DEF IconRecords

LEMMA HeldChanged ==
    ASSUME NEW S, NEW s \in IconRecords(S), NEW n \in Nat, NEW p \in Int, NEW c \in BOOLEAN
    PROVE  [s EXCEPT !.pressed = n, !.drag = n, !.dragCopy = c, !.offset = p] \in IconRecords(S)
BY DEF IconRecords

LEMMA DragChanged ==
    ASSUME NEW S, NEW s \in IconRecords(S), NEW i \in S, NEW n \in Nat, NEW p \in Int, NEW c \in BOOLEAN
    PROVE  [s EXCEPT !.icon = i, !.drag = n, !.dragCopy = c, !.offset = p] \in IconRecords(S)
BY DEF IconRecords

\* A multiple grows with what is multiplied.
LEMMA ProductGrows ==
    ASSUME NEW m \in Nat, NEW n \in Int, NEW k \in Int, m <= n, k \in Nat
    PROVE  m * k <= n * k /\ m * k \in Nat
<1>1. n - m \in Nat /\ n = m + (n - m)
  OBVIOUS
<1>2. (n - m) * k \in Nat /\ m * k \in Nat /\ (n - m) * k = n * k - m * k
  BY <1>1
<1> QED BY <1>2

LEMMA SmallModulo == ASSUME NEW n \in Nat, NEW m \in Nat, n < m PROVE n % m = n
OBVIOUS

LEMMA IconPlaced ==
    /\ Icons!LastPosition \in Nat
    /\ \A c \in Icons!Columns : Icons!Cell(c) \in IconPlaces
    /\ \A c, e \in Icons!Columns : Icons!Cell(c) = Icons!Cell(e) => c = e
<1>1. /\ Cells \in Nat \ {0} /\ IconWidth \in Nat \ {0} /\ CellWidth \in Nat /\ IconWidth <= CellWidth
  BY IconsAssumption
<1>2. ASSUME NEW c \in Icons!Columns
      PROVE  Icons!Cell(c) \in Nat /\ Icons!Cell(c) <= Icons!LastPosition
  <2>1. c \in Nat /\ c <= Cells - 1
    BY <1>1 DEF Icons!Columns
  <2>2. c * CellWidth <= (Cells - 1) * CellWidth /\ c * CellWidth \in Nat
    BY <1>1, <2>1, ProductGrows
  <2>3. (Cells - 1) * CellWidth = Cells * CellWidth - CellWidth /\ Cells * CellWidth \in Nat
    BY <1>1
  <2> QED BY <1>1, <2>2, <2>3 DEF Icons!Cell, Icons!LastPosition
<1>3. Icons!LastPosition \in Int
  BY <1>1 DEF Icons!LastPosition
<1>4. 0 \in Icons!Columns
  BY <1>1 DEF Icons!Columns
<1>5. ASSUME NEW c \in Icons!Columns, NEW e \in Icons!Columns, c < e
      PROVE  Icons!Cell(c) # Icons!Cell(e)
  <2>1. c \in Nat /\ e \in Nat /\ c + 1 <= e
    BY <1>1, <1>5 DEF Icons!Columns
  <2>2. (c + 1) * CellWidth <= e * CellWidth
    BY <1>1, <2>1, ProductGrows
  <2>3. (c + 1) * CellWidth = c * CellWidth + CellWidth /\ c * CellWidth \in Int
    BY <1>1, <2>1
  <2> QED BY <1>1, <2>1, <2>2, <2>3 DEF Icons!Cell
<1>6. \A c, e \in Icons!Columns : c < e \/ e < c \/ c = e
  BY <1>1 DEF Icons!Columns
<1> QED BY <1>2, <1>3, <1>4, <1>5, <1>6 DEF IconPlaces

\* A set of numbers has a least one.
LEMMA IconLeast == \A S \in SUBSET Nat : S # {} => Icons!Min(S) \in S
BY LeastIndex DEF Icons!Min

\* The icon under the pointer is one of them.
LEMMA IconAt ==
    ASSUME NEW s, IconsTyped(s), NEW p \in Int
    PROVE  Icons!At(s, p) \in 0 .. Len(s.icon)
<1> DEFINE found == {i \in DOMAIN s.icon : p \in s.icon[i] .. s.icon[i] + IconWidth - 1}
<1>1. DOMAIN s.icon = 1 .. Len(s.icon) /\ Len(s.icon) \in Nat
  BY DEF IconsTyped
<1>2. CASE found = {}
  BY <1>1, <1>2 DEF Icons!At, Icons!No
<1>3. CASE found # {}
  <2>1. found \in SUBSET Nat
    BY <1>1
  <2>2. Icons!Min(found) \in found
    BY <1>3, <2>1, IconLeast
  <2> QED BY <1>1, <1>3, <2>2 DEF Icons!At
<1> QED BY <1>2, <1>3

\* A free cell is found when there are no more icons than cells.
LEMMA FreeCell ==
    ASSUME NEW s, IconsTyped(s), NEW i \in DOMAIN s.icon, Len(s.icon) <= Cells
    PROVE  \E c \in Icons!Columns : \A j \in DOMAIN s.icon \ {i} : s.icon[j] # Icons!Cell(c)
<1> SUFFICES ASSUME \A c \in Icons!Columns :
                        \E j \in DOMAIN s.icon \ {i} : s.icon[j] = Icons!Cell(c)
             PROVE  FALSE
  OBVIOUS
<1> DEFINE S == DOMAIN s.icon \ {i}
           f == [c \in Icons!Columns |-> CHOOSE j \in S : s.icon[j] = Icons!Cell(c)]
<1>1. Cells \in Nat /\ Icons!Columns = 0 .. Cells - 1
  BY IconsAssumption DEF Icons!Columns
<1>2. DOMAIN s.icon = 1 .. Len(s.icon) /\ Len(s.icon) \in Nat /\ i \in 1 .. Len(s.icon)
  BY DEF IconsTyped
<1>3. /\ IsFiniteSet(1 .. Len(s.icon)) /\ Cardinality(1 .. Len(s.icon)) = Len(s.icon)
  BY <1>2, FS_Interval
<1>4. IsFiniteSet(Icons!Columns) /\ Cardinality(Icons!Columns) = Cells
  BY <1>1, FS_Interval
<1>5. IsFiniteSet(S) /\ Cardinality(S) = Len(s.icon) - 1
  BY Zenon, <1>2, <1>3, FS_RemoveElement
<1>6. \A c \in Icons!Columns : f[c] \in S /\ s.icon[f[c]] = Icons!Cell(c)
  OBVIOUS
<1>7. f \in Injection(Icons!Columns, S)
  BY <1>6, IconPlaced DEF Injection, IsInjective
<1>8. Cardinality(Icons!Columns) <= Cardinality(S)
  BY <1>4, <1>5, <1>7, FS_Injection
<1> QED BY <1>1, <1>2, <1>4, <1>5, <1>8

\* What is put on the grid is put in a cell, and in a free one if there is one.
LEMMA SnapKept ==
    ASSUME NEW s, IconsTyped(s), s.drag # 0
    PROVE  LET t == Icons!Snap(s, s.drag)
           IN  IconsTyped(t) /\ (OnGrid(s) => OnGrid([t EXCEPT !.drag = 0]))
<1> DEFINE i == s.drag
           col == Icons!Clamp((s.icon[i] + CellWidth \div 2) \div CellWidth, 0, Cells - 1)
           free == {c \in Icons!Columns : \A j \in DOMAIN s.icon \ {i} : s.icon[j] # Icons!Cell(c)}
           near == {c \in free : \A e \in free : Icons!Dist(c, col) <= Icons!Dist(e, col)}
           cell == IF free = {} THEN col ELSE Icons!Min(near)
           t == Icons!Snap(s, s.drag)
<1>1. /\ Icons!Columns = 0 .. Cells - 1 /\ Cells \in Nat \ {0} /\ CellWidth \in Nat \ {0}
  BY IconsAssumption DEF Icons!Columns
<1>2. /\ DOMAIN s.icon = 1 .. Len(s.icon) /\ i \in DOMAIN s.icon /\ s.icon[i] \in Nat
      /\ s.icon \in Seq(IconPlaces)
  BY IconFacts
<1>3. col \in Icons!Columns
  <2>1. (s.icon[i] + CellWidth \div 2) \div CellWidth \in Int
    BY <1>1, <1>2
  <2> HIDE DEF i
  <2> QED BY <1>1, <2>1 DEF Icons!Clamp
<1> HIDE DEF col, i
<1>4. ASSUME free # {} PROVE near # {}
  <2> DEFINE dists == {Icons!Dist(c, col) : c \in free}
  <2>1. dists \in SUBSET Nat /\ dists # {}
    BY <1>1, <1>3, <1>4 DEF Icons!Dist
  <2>2. PICK m \in dists : \A n \in dists : m <= n
    BY <2>1, LeastIndex
  <2>3. PICK c \in free : m = Icons!Dist(c, col)
    BY <2>2
  <2>4. \A e \in free : Icons!Dist(c, col) <= Icons!Dist(e, col)
    BY <2>2, <2>3
  <2> QED BY <2>3, <2>4
<1>5. free # {} => Icons!Min(near) \in near
  <2>1. near \in SUBSET Nat
    BY <1>1
  <2> QED BY <1>4, <2>1, IconLeast
<1>6. cell \in Icons!Columns /\ (free # {} => cell \in free)
  BY <1>3, <1>5
<1>7. t = [s EXCEPT !.icon[i] = Icons!Cell(cell)]
  BY DEF Icons!Snap, col, i
<1> HIDE DEF cell, t
<1>8. Icons!Cell(cell) \in IconPlaces
  BY <1>6, IconPlaced
<1>9. /\ t = [s EXCEPT !.icon = [s.icon EXCEPT ![i] = Icons!Cell(cell)]]
      /\ t.icon \in Seq(IconPlaces) /\ Len(t.icon) = Len(s.icon)
      /\ t.icon = [s.icon EXCEPT ![i] = Icons!Cell(cell)]
  BY <1>2, <1>7, <1>8 DEF IconsTyped
<1>10. IconsTyped(t) /\ t.drag = s.drag
  <2>1. t \in IconRecords(Seq(IconPlaces))
    BY <1>9, IconChanged DEF IconsTyped
  <2>2. t.pressed = s.pressed /\ t.drag = s.drag
    BY <1>9 DEF IconsTyped, IconRecords
  <2> QED BY <1>9, <2>1, <2>2 DEF IconsTyped
<1>11. ASSUME OnGrid(s) PROVE OnGrid([t EXCEPT !.drag = 0])
  <2>1. \A j \in DOMAIN s.icon \ {i} :
           /\ \E c \in Icons!Columns : s.icon[j] = Icons!Cell(c)
           /\ Len(s.icon) <= Cells => \A k \in DOMAIN s.icon \ {j, i} : s.icon[k] # s.icon[j]
    BY <1>11 DEF OnGrid, i
  <2>2. Len(s.icon) <= Cells => cell \in free
    BY <1>2, <1>6, FreeCell
  <2>3. Len(s.icon) <= Cells => \A j \in DOMAIN s.icon \ {i} : s.icon[j] # Icons!Cell(cell)
    BY <2>2
  <2>4. [t EXCEPT !.drag = 0].icon = t.icon /\ [t EXCEPT !.drag = 0].drag = 0
    BY <1>10 DEF IconsTyped
  <2>5. DOMAIN t.icon = DOMAIN s.icon
    BY <1>9
  <2>6. ASSUME NEW j \in DOMAIN s.icon PROVE \E c \in Icons!Columns : t.icon[j] = Icons!Cell(c)
    BY <1>2, <1>6, <1>9, <2>1
  <2>7. ASSUME NEW j \in DOMAIN s.icon, NEW k \in DOMAIN s.icon \ {j}, Len(s.icon) <= Cells
        PROVE  t.icon[k] # t.icon[j]
    <3>1. CASE j # i /\ k # i
      BY <1>9, <2>1, <2>7, <3>1
    <3>2. CASE j = i
      BY <1>2, <1>9, <2>3, <2>7, <3>2
    <3>3. CASE k = i
      BY <1>2, <1>9, <2>3, <2>7, <3>3
    <3> QED BY <3>1, <3>2, <3>3
  <2> QED BY <1>9, <2>4, <2>5, <2>6, <2>7 DEF OnGrid
<1> QED BY <1>10, <1>11 DEF t, i

-----------------------------------------------------------------------------

\* A drag that begins takes one icon off the grid, or puts a copy of it there.
LEMMA BeginDragKept ==
    ASSUME NEW s, IconsTyped(s), NEW p \in Int
    PROVE  LET t == Icons!BeginDrag(s, p)
           IN  /\ IconsTyped(t) /\ (OnGrid(s) => OnGrid(t))
               /\ t.pressed = s.pressed /\ t.copy = s.copy
               /\ \/ t.drag = s.drag /\ t.dragCopy = s.dragCopy
                  \/ t.drag # 0 /\ s.drag = 0 /\ s.pressed # 0 /\ t.dragCopy = s.copy
<1> DEFINE t == Icons!BeginDrag(s, p)
           new == s.copy /\ Len(s.icon) < MaxIcons
           icons == IF new THEN Append(s.icon, s.icon[s.pressed]) ELSE s.icon
           i == IF new THEN Len(icons) ELSE s.pressed
<1>1. CASE s.pressed = 0 \/ s.drag # 0 \/ p = s.start
  <2>1. t = s
    BY <1>1 DEF Icons!BeginDrag, Icons!No
  <2> QED BY <2>1
<1>2. CASE ~(s.pressed = 0 \/ s.drag # 0 \/ p = s.start)
  <2>1. t = [s EXCEPT !.icon = icons, !.drag = i, !.dragCopy = s.copy,
                      !.offset = p - s.icon[s.pressed]]
    BY <1>2 DEF Icons!BeginDrag, Icons!No
  <2>2. /\ s.icon \in Seq(IconPlaces) /\ Len(s.icon) \in Nat /\ MaxIcons \in Nat
        /\ s.pressed \in 1 .. Len(s.icon) /\ DOMAIN s.icon = 1 .. Len(s.icon)
        /\ Len(s.icon) \in IconLaunchers .. MaxIcons /\ IconLaunchers \in Nat
        /\ s.drag = 0 /\ s.pressed # 0
    BY <1>2, IconsAssumption, IconFacts DEF IconsTyped
  <2>3. s.icon[s.pressed] \in IconPlaces /\ s.icon[s.pressed] \in Nat
    BY <2>2, IconFacts
  <2>4. /\ icons \in Seq(IconPlaces) /\ Len(icons) \in IconLaunchers .. MaxIcons
        /\ Len(s.icon) <= Len(icons) /\ i \in 1 .. Len(icons)
        /\ \A j \in (1 .. Len(icons)) \ {i} : j \in 1 .. Len(s.icon) /\ icons[j] = s.icon[j]
    BY <2>2, <2>3
  <2> HIDE DEF icons, i
  <2>5. /\ t.icon = icons /\ t.drag = i /\ t.dragCopy = s.copy
        /\ t.pressed = s.pressed /\ t.copy = s.copy
    BY <2>1 DEF IconsTyped
  <2>6. IconsTyped(t)
    <3>1. i \in Nat /\ p - s.icon[s.pressed] \in Int /\ s.copy \in BOOLEAN
      BY <2>3, <2>4, IconFacts
    <3>2. t \in IconRecords(Seq(IconPlaces))
      <4>1. s \in IconRecords(Seq(IconPlaces)) /\ icons \in Seq(IconPlaces)
        BY <2>4 DEF IconsTyped
      <4>2. [s EXCEPT !.icon = icons, !.drag = i, !.dragCopy = s.copy,
                      !.offset = p - s.icon[s.pressed]] \in IconRecords(Seq(IconPlaces))
        BY <3>1, <4>1, DragChanged, Zenon
      <4> QED BY <2>1, <4>2
    <3> QED BY <2>2, <2>4, <2>5, <3>2 DEF IconsTyped
  <2>7. ASSUME OnGrid(s) PROVE OnGrid(t)
    <3>1. \A j \in 1 .. Len(s.icon) :
             /\ \E c \in Icons!Columns : s.icon[j] = Icons!Cell(c)
             /\ Len(s.icon) <= Cells => \A k \in (1 .. Len(s.icon)) \ {j} : s.icon[k] # s.icon[j]
      BY <2>2, <2>7 DEF OnGrid
    <3>2. DOMAIN icons = 1 .. Len(icons) /\ Cells \in Nat
      BY <2>4, IconsAssumption
    <3>3. Len(icons) <= Cells => Len(s.icon) <= Cells
      BY <2>2, <2>4, <3>2
    <3> QED BY <2>4, <2>5, <3>1, <3>2, <3>3 DEF OnGrid
  <2>8. \/ t.drag = s.drag /\ t.dragCopy = s.dragCopy
        \/ t.drag # 0 /\ s.drag = 0 /\ s.pressed # 0 /\ t.dragCopy = s.copy
    BY <2>2, <2>4, <2>5
  <2> QED BY <2>5, <2>6, <2>7, <2>8
<1> QED BY <1>1, <1>2

\* A dragged icon stays on the screen, and the others stay where they are.
LEMMA MoveIconKept ==
    ASSUME NEW s, IconsTyped(s), NEW p \in Int
    PROVE  LET t == Icons!MoveIcon(s, p)
           IN  /\ IconsTyped(t) /\ (OnGrid(s) => OnGrid(t))
               /\ t.pressed = s.pressed /\ t.copy = s.copy
               /\ t.drag = s.drag /\ t.dragCopy = s.dragCopy
<1> DEFINE t == Icons!MoveIcon(s, p)
           to == Icons!Clamp(p - s.offset, 0, Icons!LastPosition)
<1>1. CASE s.drag = 0
  BY <1>1 DEF Icons!MoveIcon, Icons!No
<1>2. CASE s.drag # 0
  <2>1. to \in IconPlaces
    BY IconPlaced, IconFacts DEF Icons!Clamp, IconPlaces
  <2>2. t = [s EXCEPT !.icon[s.drag] = to]
    BY <1>2 DEF Icons!MoveIcon, Icons!No
  <2> HIDE DEF to
  <2>3. /\ s.icon \in Seq(IconPlaces) /\ s.drag \in DOMAIN s.icon
    BY <1>2, IconFacts
  <2>4. /\ t = [s EXCEPT !.icon = t.icon]
        /\ t.icon = [s.icon EXCEPT ![s.drag] = to]
        /\ t.icon \in Seq(IconPlaces) /\ Len(t.icon) = Len(s.icon)
        /\ DOMAIN t.icon = DOMAIN s.icon
    BY <2>1, <2>2, <2>3 DEF IconsTyped
  <2>5. /\ IconsTyped(t) /\ t.drag = s.drag /\ t.pressed = s.pressed
        /\ t.copy = s.copy /\ t.dragCopy = s.dragCopy
    <3>1. t \in IconRecords(Seq(IconPlaces))
      BY <2>4, IconChanged DEF IconsTyped
    <3>2. /\ t.drag = s.drag /\ t.pressed = s.pressed
          /\ t.copy = s.copy /\ t.dragCopy = s.dragCopy
      BY <2>4 DEF IconsTyped, IconRecords
    <3> QED BY <2>4, <3>1, <3>2 DEF IconsTyped
  <2>6. OnGrid(s) => OnGrid(t)
    BY <2>4, <2>5 DEF OnGrid
  <2> QED BY <2>5, <2>6
<1> QED BY <1>1, <1>2

\* Without a drag all icons are on the grid.
LEMMA ForgetKept ==
    ASSUME NEW s, IconsTyped(s)
    PROVE  LET t == Icons!Forget(s)
           IN  /\ IconsTyped(t) /\ t.pressed = 0 /\ t.drag = 0 /\ t.icon = s.icon
               /\ (s.drag = 0 /\ OnGrid(s) => OnGrid(t))
<1> DEFINE t == Icons!Forget(s)
<1>1. t = [s EXCEPT !.pressed = 0, !.drag = 0, !.dragCopy = FALSE, !.offset = 0]
  BY DEF Icons!Forget, Icons!No
<1> HIDE DEF t
<1>2. t.pressed = 0 /\ t.drag = 0 /\ t.icon = s.icon
  BY <1>1 DEF IconsTyped, IconRecords
<1>3. t \in IconRecords(Seq(IconPlaces))
  <2>1. FALSE \in BOOLEAN /\ 0 \in Nat /\ 0 \in Int /\ s \in IconRecords(Seq(IconPlaces))
    BY DEF IconsTyped
  <2> QED BY <1>1, <2>1, HeldChanged, Zenon
<1>4. IconsTyped(t)
  BY <1>2, <1>3, IconFacts DEF IconsTyped
<1>5. s.drag = 0 /\ OnGrid(s) => OnGrid(t)
  BY <1>2 DEF OnGrid
<1> QED BY <1>2, <1>4, <1>5 DEF t

\* A press that holds icon q, or none.
Pressed(s, q, p, c) == [Icons!Forget(s) EXCEPT !.pressed = q, !.start = p, !.copy = c]

LEMMA PressKept ==
    ASSUME NEW s, IconsTyped(s), NEW q \in 0 .. Len(s.icon), NEW p \in Int, NEW c \in BOOLEAN
    PROVE  LET t == Pressed(s, q, p, c)
           IN  /\ IconsTyped(t) /\ t.drag = 0 /\ (t.copy <=> c)
               /\ (s.drag = 0 /\ OnGrid(s) => OnGrid(t))
<1> DEFINE f == Icons!Forget(s)
           t == [f EXCEPT !.pressed = q, !.start = p, !.copy = c]
<1>1. /\ IconsTyped(f) /\ f.drag = 0 /\ f.icon = s.icon /\ (s.drag = 0 /\ OnGrid(s) => OnGrid(f))
  BY ForgetKept
<1> HIDE DEF f
<1>2. t.pressed = q /\ t.drag = 0 /\ t.copy = c /\ t.icon = s.icon
  BY <1>1 DEF IconsTyped, IconRecords
<1>3. q \in Nat
  BY IconFacts
<1>4. t \in IconRecords(Seq(IconPlaces))
  BY Zenon, <1>1, <1>3, PressChanged DEF IconsTyped
<1> HIDE DEF t
<1>5. IconsTyped(t)
  BY <1>2, <1>4, IconFacts DEF IconsTyped
<1>6. OnGrid(f) => OnGrid(t)
  BY <1>1, <1>2 DEF OnGrid
<1> QED BY <1>1, <1>2, <1>5, <1>6 DEF t, f, Pressed

LEMMA LeftPressKept ==
    ASSUME NEW s, IconsTyped(s), NEW p \in Int, NEW over \in BOOLEAN
    PROVE  LET t == Icons!LeftPress(s, p, over)
           IN  /\ IconsTyped(t) /\ t.drag = 0 /\ ~t.copy
               /\ (s.drag = 0 /\ OnGrid(s) => OnGrid(t))
<1> DEFINE q == IF over THEN 0 ELSE Icons!At(s, p)
<1>1. q \in 0 .. Len(s.icon)
  BY IconAt, IconFacts
<1>2. Icons!LeftPress(s, p, over) = [Icons!Forget(s) EXCEPT !.pressed = q, !.start = p, !.copy = FALSE]
  BY DEF Icons!LeftPress, Icons!No
<1> HIDE DEF q
<1>3. PICK c \in BOOLEAN : c = FALSE /\ ~c
  OBVIOUS
<1> DEFINE t == Pressed(s, q, p, c)
<1>4. IconsTyped(t) /\ t.drag = 0 /\ (t.copy <=> c) /\ (s.drag = 0 /\ OnGrid(s) => OnGrid(t))
  BY <1>1, PressKept
<1>5. Icons!LeftPress(s, p, over) = t
  BY <1>2, <1>3 DEF Pressed
<1> HIDE DEF t
<1> QED BY <1>3, <1>4, <1>5

LEMMA RightPressKept ==
    ASSUME NEW s, IconsTyped(s), NEW p \in Int, NEW over \in BOOLEAN
    PROVE  LET t == Icons!RightPress(s, p, over)
           IN  /\ IconsTyped(t)
               /\ s.drag = 0 /\ s.pressed = 0 => t.drag = 0 /\ (t.pressed # 0 => t.copy)
               /\ (s.drag = 0 /\ OnGrid(s) => OnGrid(t))
<1>1. CASE over \/ Icons!At(s, p) = 0
  BY <1>1 DEF Icons!RightPress, Icons!No
<1>2. CASE ~(over \/ Icons!At(s, p) = 0)
  <2>1. Icons!RightPress(s, p, over)
            = [Icons!Forget(s) EXCEPT !.pressed = Icons!At(s, p), !.start = p, !.copy = TRUE]
    BY <1>2 DEF Icons!RightPress, Icons!No
  <2>2. Icons!At(s, p) \in 0 .. Len(s.icon)
    BY IconAt
  <2>3. PICK c \in BOOLEAN : c = TRUE /\ c
    OBVIOUS
  <2> DEFINE t == Pressed(s, Icons!At(s, p), p, c)
  <2>4. IconsTyped(t) /\ t.drag = 0 /\ (t.copy <=> c) /\ (s.drag = 0 /\ OnGrid(s) => OnGrid(t))
    BY <2>2, PressKept
  <2>5. Icons!RightPress(s, p, over) = t
    BY <2>1, <2>3 DEF Pressed
  <2> HIDE DEF t
  <2> QED BY <2>3, <2>4, <2>5
<1> QED BY <1>1, <1>2

\* A release puts what its button dragged on the grid.
LEMMA LetGoKept ==
    ASSUME NEW s, IconsTyped(s), NEW right \in BOOLEAN
    PROVE  LET t == Icons!LetGo(s, right)
           IN  /\ IconsTyped(t) /\ t.pressed = 0 /\ t.drag = 0
               /\ (s.drag # 0 => (s.dragCopy <=> right)) /\ OnGrid(s) => OnGrid(t)
<1>1. CASE s.drag # 0 /\ s.dragCopy = right
  <2> DEFINE n == Icons!Snap(s, s.drag)
  <2>1. IconsTyped(n) /\ (OnGrid(s) => OnGrid([n EXCEPT !.drag = 0]))
    BY <1>1, SnapKept
  <2>2. Icons!LetGo(s, right) = Icons!Forget(n)
    BY <1>1 DEF Icons!LetGo, Icons!No
  <2> HIDE DEF n
  <2>3. /\ IconsTyped(Icons!Forget(n)) /\ Icons!Forget(n).drag = 0 /\ Icons!Forget(n).pressed = 0
        /\ Icons!Forget(n).icon = n.icon
    BY <2>1, ForgetKept
  <2>4. [n EXCEPT !.drag = 0].icon = n.icon /\ [n EXCEPT !.drag = 0].drag = 0
    BY <2>1 DEF IconsTyped
  <2>5. OnGrid(s) => OnGrid(Icons!Forget(n))
    BY <2>1, <2>3, <2>4 DEF OnGrid
  <2> QED BY <2>2, <2>3, <2>5
<1>2. CASE ~(s.drag # 0 /\ s.dragCopy = right)
  <2>1. Icons!LetGo(s, right) = Icons!Forget(s)
    BY <1>2 DEF Icons!LetGo, Icons!No
  <2>2. s.drag # 0 => ~(s.dragCopy <=> right)
    BY <1>2, IconFacts
  <2>3. LET t == Icons!Forget(s)
        IN  IconsTyped(t) /\ t.pressed = 0 /\ t.drag = 0 /\ (s.drag = 0 /\ OnGrid(s) => OnGrid(t))
    BY ForgetKept
  <2> QED BY <2>1, <2>2, <2>3
<1> QED BY <1>1, <1>2

-----------------------------------------------------------------------------

LEMMA IconsStart == ASSUME Icons!Init PROVE IconsInv
<1>1. /\ IconLaunchers \in Nat /\ MaxIcons \in Nat /\ IconLaunchers <= MaxIcons /\ Cells \in Nat \ {0}
      /\ Icons!Columns = 0 .. Cells - 1
  BY IconsAssumption DEF Icons!Columns
<1>2. /\ icon = [i \in 1 .. IconLaunchers |-> Icons!Cell((i - 1) % Cells)]
      /\ button = {} /\ pressed = 0 /\ copy = FALSE /\ start = 0
      /\ drag = 0 /\ dragCopy = FALSE /\ offset = 0 /\ mixed = FALSE
  BY DEF Icons!Init, Icons!No
<1>3. \A i \in 1 .. IconLaunchers : (i - 1) % Cells \in Icons!Columns
  BY <1>1
<1>4. icon \in Seq(IconPlaces) /\ Len(icon) = IconLaunchers /\ DOMAIN icon = 1 .. IconLaunchers
  BY <1>1, <1>2, <1>3, IconPlaced
<1>5. IconState \in IconRecords(Seq(IconPlaces))
  <2> DEFINE S == Seq(IconPlaces)
  <2>1. icon \in S
    BY <1>4
  <2> HIDE DEF S
  <2>2. /\ pressed \in Nat /\ drag \in Nat /\ start \in Int /\ offset \in Int
        /\ copy \in BOOLEAN /\ dragCopy \in BOOLEAN
    <3>1. pressed \in Nat /\ drag \in Nat /\ start \in Int /\ offset \in Int
      BY <1>2
    <3>2. copy \in BOOLEAN /\ dragCopy \in BOOLEAN
      BY <1>2, Zenon
    <3> QED BY <3>1, <3>2
  <2>3. IconState \in IconRecords(S)
    BY <2>1, <2>2 DEF IconState, IconRecords
  <2> QED BY <2>3 DEF S
<1>6. /\ IconState.icon = icon /\ IconState.pressed = 0 /\ IconState.drag = 0
  BY <1>2 DEF IconState
<1>7. IconsTyped(IconState)
  BY <1>1, <1>4, <1>5, <1>6 DEF IconsTyped
<1>8. ASSUME IconLaunchers <= Cells, NEW i \in 1 .. IconLaunchers, NEW j \in (1 .. IconLaunchers) \ {i}
      PROVE  icon[i] # icon[j]
  <2>1. /\ i - 1 \in Nat /\ i - 1 < Cells /\ j - 1 \in Nat /\ j - 1 < Cells
        /\ i - 1 # j - 1 /\ Cells \in Nat
    BY <1>1, <1>8
  <2>2. \A n \in Nat : n < Cells => n % Cells = n
    BY <2>1, SmallModulo
  <2> DEFINE m == i - 1  n == j - 1
  <2>3. m \in Nat /\ m < Cells /\ n \in Nat /\ n < Cells /\ m # n
    BY <2>1
  <2>4. icon[i] = Icons!Cell(m % Cells) /\ icon[j] = Icons!Cell(n % Cells)
    BY <1>2
  <2>5. m % Cells \in Icons!Columns /\ n % Cells \in Icons!Columns
    BY <1>3
  <2> HIDE DEF m, n
  <2> QED BY <2>2, <2>3, <2>4, <2>5, IconPlaced
<1>9. OnGrid(IconState)
  <2>1. \A i \in 1 .. IconLaunchers : \E c \in Icons!Columns : icon[i] = Icons!Cell(c)
    BY <1>2, <1>3
  <2> QED BY <1>4, <1>6, <1>8, <2>1 DEF OnGrid
<1>10. HeldBy(IconState, {})
  BY <1>6 DEF HeldBy
<1> QED BY <1>2, <1>7, <1>9, <1>10 DEF IconsInv

LEMMA IconsStep == ASSUME IconsInv, Icons!Next PROVE IconsInv'
<1>1. PICK p \in Icons!Positions, now \in SUBSET {"left", "right"}, over \in BOOLEAN :
         LET s1 == Icons!When(now # {}, IconState, Icons!MoveIcon(Icons!BeginDrag(IconState, p), p))
             s2 == Icons!When("left" \in now \ button, s1, Icons!LeftPress(s1, p, over))
             s3 == Icons!When("right" \in now \ button, s2, Icons!RightPress(s2, p, over))
             s4 == Icons!When("left" \in button \ now, s3, Icons!LetGo(s3, FALSE))
             s5 == Icons!When("right" \in button \ now, s4, Icons!LetGo(s4, TRUE))
         IN  /\ button' = now
             /\ mixed' = (mixed \/ now \cup button = {"left", "right"})
             /\ icon' = s5.icon /\ drag' = s5.drag
             /\ pressed' = s5.pressed /\ copy' = s5.copy /\ start' = s5.start
             /\ dragCopy' = s5.dragCopy /\ offset' = s5.offset
  BY Zenon DEF Icons!Next, Icons!Mouse, IconState
<1> DEFINE s0 == IconState
           s1 == Icons!When(now # {}, s0, Icons!MoveIcon(Icons!BeginDrag(s0, p), p))
           s2 == Icons!When("left" \in now \ button, s1, Icons!LeftPress(s1, p, over))
           s3 == Icons!When("right" \in now \ button, s2, Icons!RightPress(s2, p, over))
           s4 == Icons!When("left" \in button \ now, s3, Icons!LetGo(s3, FALSE))
           s5 == Icons!When("right" \in button \ now, s4, Icons!LetGo(s4, TRUE))
<1> USE DEF Icons!When
<1>0. /\ button' = now /\ mixed' = (mixed \/ now \cup button = {"left", "right"})
      /\ icon' = s5.icon /\ drag' = s5.drag
      /\ pressed' = s5.pressed /\ copy' = s5.copy /\ start' = s5.start
      /\ dragCopy' = s5.dragCopy /\ offset' = s5.offset
  BY Zenon, <1>1
<1>2. ~mixed /\ p \in Int /\ IconsTyped(s0) /\ OnGrid(s0) /\ HeldBy(s0, button) /\ button \subseteq {"left", "right"}
  BY DEF IconsInv, Icons!Next, Icons!Positions
<1> HIDE DEF s0
<1>3. /\ IconsTyped(s1) /\ OnGrid(s1)
      /\ now # {} \/ s1 = s0
      /\ s1.pressed = s0.pressed /\ s1.copy = s0.copy
      /\ \/ s1.drag = s0.drag /\ s1.dragCopy = s0.dragCopy
         \/ s1.drag # 0 /\ s0.drag = 0 /\ s0.pressed # 0 /\ s1.dragCopy = s0.copy
  <2> DEFINE b == Icons!BeginDrag(s0, p)
  <2>1. /\ IconsTyped(b) /\ OnGrid(b) /\ b.pressed = s0.pressed /\ b.copy = s0.copy
        /\ \/ b.drag = s0.drag /\ b.dragCopy = s0.dragCopy
           \/ b.drag # 0 /\ s0.drag = 0 /\ s0.pressed # 0 /\ b.dragCopy = s0.copy
    BY <1>2, BeginDragKept
  <2> HIDE DEF b
  <2>2. LET t == Icons!MoveIcon(b, p)
        IN  /\ IconsTyped(t) /\ OnGrid(t) /\ t.pressed = b.pressed /\ t.copy = b.copy
            /\ t.drag = b.drag /\ t.dragCopy = b.dragCopy
    BY <1>2, <2>1, MoveIconKept
  <2>3. CASE now = {}
    BY <1>2, <2>3
  <2>4. CASE now # {}
    <3>1. s1 = Icons!MoveIcon(b, p)
      BY <2>4 DEF b
    <3> HIDE DEF s1
    <3> QED BY <2>1, <2>2, <2>4, <3>1
  <2> QED BY <2>3, <2>4
<1> HIDE DEF s1
<1>4. /\ IconsTyped(s2)
      /\ "left" \in now \ button => s2.drag = 0 /\ ~s2.copy /\ (s1.drag = 0 => OnGrid(s2))
      /\ "left" \notin now \ button => s2 = s1
  BY <1>2, <1>3, LeftPressKept
<1> HIDE DEF s2
<1>5. /\ IconsTyped(s3)
      /\ "right" \in now \ button =>
             /\ s2.drag = 0 /\ s2.pressed = 0 => s3.drag = 0 /\ (s3.pressed # 0 => s3.copy)
             /\ s2.drag = 0 /\ OnGrid(s2) => OnGrid(s3)
      /\ "right" \notin now \ button => s3 = s2
  BY <1>2, <1>4, RightPressKept
<1> HIDE DEF s3
<1>6. /\ IconsTyped(s4)
      /\ "left" \in button \ now =>
             /\ s4.drag = 0 /\ s4.pressed = 0
             /\ (s3.drag # 0 => ~s3.dragCopy) /\ OnGrid(s3) => OnGrid(s4)
      /\ "left" \notin button \ now => s4 = s3
  <2>1. FALSE \in BOOLEAN
    OBVIOUS
  <2> QED BY <1>5, <2>1, LetGoKept
<1> HIDE DEF s4
<1>7. /\ IconsTyped(s5)
      /\ "right" \in button \ now =>
             /\ s5.drag = 0 /\ s5.pressed = 0
             /\ (s4.drag # 0 => s4.dragCopy) /\ OnGrid(s4) => OnGrid(s5)
      /\ "right" \notin button \ now => s5 = s4
  <2>1. TRUE \in BOOLEAN
    OBVIOUS
  <2> QED BY <1>6, <2>1, LetGoKept
<1>8. IconState' = s5
  <2> HIDE DEF s5
  <2> QED BY <1>0, <1>7, IconFields DEF IconState, IconsTyped
<1> HIDE DEF s5
<1>9. ASSUME now \cup button # {"left", "right"} PROVE OnGrid(s5) /\ HeldBy(s5, now)
  <2>1. /\ now \in {{}, {"left"}, {"right"}} /\ button \in {{}, {"left"}, {"right"}}
        /\ now = {} \/ button = {} \/ now = button
    <3>1. \A S \in SUBSET {"left", "right"} : S # {"left", "right"} => S \in {{}, {"left"}, {"right"}}
      OBVIOUS
    <3>2. now # {"left", "right"} /\ button # {"left", "right"}
      BY <1>2, <1>9
    <3>3. now \in {{}, {"left"}, {"right"}} /\ button \in {{}, {"left"}, {"right"}}
      BY <1>2, <3>1, <3>2
    <3>4. {"left"} \cup {"right"} = {"left", "right"} /\ {"right"} \cup {"left"} = {"left", "right"}
      OBVIOUS
    <3> QED BY <1>9, <3>3, <3>4
  <2>2. CASE now = button
    <3>1. s5 = s1
      BY <1>4, <1>5, <1>6, <1>7, <2>2
    <3> QED BY <1>2, <1>3, <2>1, <2>2, <3>1 DEF HeldBy
  <2>3. CASE button = {} /\ now # {}
    <3>1. s0.pressed = 0 /\ s0.drag = 0 /\ s1.pressed = 0 /\ s1.drag = 0
      BY <1>2, <1>3, <2>3 DEF HeldBy
    <3>2. s5 = s3
      BY <1>6, <1>7, <2>3
    <3>3. CASE now = {"left"}
      BY <1>3, <1>4, <1>5, <2>1, <2>3, <3>1, <3>2, <3>3 DEF HeldBy
    <3>4. CASE now = {"right"}
      BY <1>3, <1>4, <1>5, <2>1, <2>3, <3>1, <3>2, <3>4 DEF HeldBy
    <3> QED BY <2>1, <2>3, <3>3, <3>4
  <2>4. CASE now = {} /\ button # {}
    <3>1. s3 = s0
      BY <1>3, <1>4, <1>5, <2>4
    <3>2. CASE button = {"left"}
      BY <1>2, <1>6, <1>7, <2>4, <3>1, <3>2 DEF HeldBy
    <3>3. CASE button = {"right"}
      BY <1>2, <1>6, <1>7, <2>4, <3>1, <3>3 DEF HeldBy
    <3> QED BY <2>1, <2>4, <3>2, <3>3
  <2> QED BY <2>1, <2>2, <2>3, <2>4
<1> QED BY <1>0, <1>2, <1>7, <1>8, <1>9 DEF IconsInv

LEMMA IconsUnchanged == ASSUME IconsInv, UNCHANGED iconsVars PROVE IconsInv'
<1>1. IconState' = IconState /\ button' = button /\ mixed' = mixed
  BY DEF IconState, iconsVars
<1> QED BY <1>1 DEF IconsInv

LEMMA IconsImplies == ASSUME IconsInv PROVE Icons!TypeOK /\ Icons!IconsSound
<1>1. IconState.icon = icon /\ IconState.pressed = pressed /\ IconState.drag = drag
  BY DEF IconState
<1>2. IconsTyped(IconState)
  BY DEF IconsInv
<1>3. Icons!TypeOK
  <2>1. /\ icon \in Seq(IconPlaces) /\ \A i \in DOMAIN icon : icon[i] \in IconPlaces
        /\ pressed \in 0 .. Len(icon) /\ drag \in 0 .. Len(icon)
    BY <1>1, <1>2, IconFacts
  <2> QED BY <1>1, <1>2, <2>1 DEF Icons!TypeOK, IconsTyped, IconPlaces
<1>4. Icons!IconsSound
  BY <1>1 DEF IconsInv, OnGrid, Icons!IconsSound
<1> QED BY <1>3, <1>4

-----------------------------------------------------------------------------
(* The windows of the desktop: focus, geometry and what is to be drawn.       *)

\* A window is on the screen, and was before it was maximized.
WinRecords ==
    [x : Int, w : Int, hidden : BOOLEAN, minimized : BOOLEAN, maximized : BOOLEAN,
     focused : BOOLEAN, dirty : BOOLEAN, rx : Int, rw : Int]
WinFits(v) ==
    /\ 0 <= v.x /\ MinWidth <= v.w /\ v.x + v.w <= Screen
    /\ v.maximized => 0 <= v.rx /\ MinWidth <= v.rw /\ v.rx + v.rw <= Screen
GoodWins == {v \in WinRecords : WinFits(v)}

DeskRecords ==
    [win : [Windows!Windows -> GoodWins], order : Seq(Windows!Windows), open : SUBSET Apps,
     twice : BOOLEAN, scene : BOOLEAN, bar : BOOLEAN]

\* Each window is in the order once.
OrderedOnce(d) == \A i, j \in DOMAIN d.order : d.order[i] = d.order[j] => i = j

\* What the pointer finds first has the focus.
TopFocused(d) ==
    {v \in Windows!Windows : d.win[v].focused} = {Windows!Topmost(d, Windows!Windows)} \ {None}

\* The applications that are initialised are those with a window.
Paired(d) ==
    ~d.twice /\ d.open = {v \in Windows!Created(d) \cap Apps : ~d.win[v].hidden}

\* No window that was there has gone.
Kept(d, e) ==
    \A v \in Windows!Created(d) :
        /\ v \in Windows!Created(e)
        /\ ~d.win[v].hidden => ~e.win[v].hidden
        /\ Windows!Visible(d, v) => Windows!Visible(e, v)

LEMMA Bools == \E t, f \in BOOLEAN : t = TRUE /\ t /\ f = FALSE /\ ~f
OBVIOUS

\* The windows of another desktop that differs in one.
LEMMA PutIs ==
    ASSUME NEW d \in DeskRecords, NEW k \in Windows!Windows, NEW v \in GoodWins
    PROVE  LET e == Windows!Put(d, k, v)
           IN  /\ e \in DeskRecords /\ e.order = d.order /\ e.open = d.open
               /\ e.twice = d.twice /\ e.scene = d.scene /\ e.bar = d.bar
               /\ e.win[k] = v /\ \A u \in Windows!Windows : u # k => e.win[u] = d.win[u]
<1> DEFINE e == Windows!Put(d, k, v)
           f == [d.win EXCEPT ![k] = v]
<1>1. d.win \in [Windows!Windows -> GoodWins]
  BY DEF DeskRecords
<1>2. /\ f \in [Windows!Windows -> GoodWins] /\ f[k] = v
      /\ \A u \in Windows!Windows : u # k => f[u] = d.win[u]
  BY <1>1
<1>3. e = [d EXCEPT !.win = f]
  BY DEF Windows!Put
<1> HIDE DEF e, f
<1>4. /\ e \in DeskRecords /\ e.order = d.order /\ e.open = d.open /\ e.win = f
      /\ e.twice = d.twice /\ e.scene = d.scene /\ e.bar = d.bar
  BY <1>2, <1>3 DEF DeskRecords
<1> QED BY <1>2, <1>4 DEF e

LEMMA DeskIs ==
    ASSUME NEW d \in DeskRecords
    PROVE  /\ d.order \in Seq(Windows!Windows) /\ d.open \subseteq Apps
           /\ d.twice \in BOOLEAN /\ d.scene \in BOOLEAN /\ d.bar \in BOOLEAN
           /\ d.win \in [Windows!Windows -> GoodWins]
           /\ \A v \in Windows!Windows : d.win[v] \in GoodWins
           /\ Windows!Created(d) \subseteq Windows!Windows
           /\ \A i \in DOMAIN d.order : d.order[i] \in Windows!Created(d)
           /\ \A v \in Windows!Created(d) : \E i \in DOMAIN d.order : d.order[i] = v
<1>1. /\ d.order \in Seq(Windows!Windows) /\ d.open \subseteq Apps
      /\ d.twice \in BOOLEAN /\ d.scene \in BOOLEAN /\ d.bar \in BOOLEAN
      /\ d.win \in [Windows!Windows -> GoodWins]
  BY DEF DeskRecords
<1>2. Windows!Created(d) = {d.order[i] : i \in DOMAIN d.order}
  BY DEF Windows!Created, Windows!Range
<1>3. \A i \in DOMAIN d.order : d.order[i] \in Windows!Windows
  BY <1>1
<1> QED BY <1>1, <1>2, <1>3

\* What each function does to one window.
Dirtied(v, t) == [v EXCEPT !.dirty = t]
Focusing(v, f) == [v EXCEPT !.focused = f]
Showing(v, h, m) == [v EXCEPT !.hidden = h, !.minimized = m]
Restoring(v, h, m, t) == [v EXCEPT !.hidden = h, !.minimized = m, !.dirty = t]
Closing(v, h, m, f) == [v EXCEPT !.hidden = h, !.minimized = m, !.focused = f]
Minimizing(v, h, m, f) == [v EXCEPT !.minimized = m, !.hidden = h, !.focused = f]

LEMMA WinDirty ==
    ASSUME NEW v \in GoodWins, NEW t \in BOOLEAN
    PROVE  LET e == Dirtied(v, t)
           IN  /\ e \in GoodWins /\ e.hidden = v.hidden /\ e.minimized = v.minimized
               /\ e.focused = v.focused /\ e.dirty = t /\ e.x = v.x /\ e.w = v.w
BY DEF Dirtied, GoodWins, WinRecords, WinFits

LEMMA WinFocus ==
    ASSUME NEW v \in GoodWins, NEW f \in BOOLEAN
    PROVE  LET e == Focusing(v, f)
           IN  /\ e \in GoodWins /\ e.hidden = v.hidden /\ e.minimized = v.minimized
               /\ e.focused = f /\ e.dirty = v.dirty /\ e.x = v.x /\ e.w = v.w
BY DEF Focusing, GoodWins, WinRecords, WinFits

LEMMA WinShow ==
    ASSUME NEW v \in GoodWins, NEW h \in BOOLEAN, NEW m \in BOOLEAN
    PROVE  LET e == Showing(v, h, m)
           IN  /\ e \in GoodWins /\ e.hidden = h /\ e.minimized = m
               /\ e.focused = v.focused /\ e.dirty = v.dirty /\ e.x = v.x /\ e.w = v.w
BY DEF Showing, GoodWins, WinRecords, WinFits

LEMMA WinRestore ==
    ASSUME NEW v \in GoodWins, NEW h \in BOOLEAN, NEW m \in BOOLEAN, NEW t \in BOOLEAN
    PROVE  LET e == Restoring(v, h, m, t)
           IN  /\ e \in GoodWins /\ e.hidden = h /\ e.minimized = m
               /\ e.focused = v.focused /\ e.dirty = t /\ e.x = v.x /\ e.w = v.w
BY DEF Restoring, GoodWins, WinRecords, WinFits

LEMMA WinClose ==
    ASSUME NEW v \in GoodWins, NEW h \in BOOLEAN, NEW m \in BOOLEAN, NEW f \in BOOLEAN
    PROVE  LET e == Closing(v, h, m, f)
           IN  /\ e \in GoodWins /\ e.hidden = h /\ e.minimized = m
               /\ e.focused = f /\ e.dirty = v.dirty /\ e.x = v.x /\ e.w = v.w
BY DEF Closing, GoodWins, WinRecords, WinFits

LEMMA WinMinimize ==
    ASSUME NEW v \in GoodWins, NEW h \in BOOLEAN, NEW m \in BOOLEAN, NEW f \in BOOLEAN
    PROVE  LET e == Minimizing(v, h, m, f)
           IN  /\ e \in GoodWins /\ e.hidden = h /\ e.minimized = m
               /\ e.focused = f /\ e.dirty = v.dirty /\ e.x = v.x /\ e.w = v.w
BY DEF Minimizing, GoodWins, WinRecords, WinFits

-----------------------------------------------------------------------------
(* The order of the windows. *)

\* A set of positions that is not empty has a greatest one.
LEMMA GreatestIndex ==
    ASSUME NEW n \in Nat, NEW S \in SUBSET (1 .. n), S # {}
    PROVE  Windows!Max(S) \in S /\ \A i \in S : i <= Windows!Max(S)
<1> DEFINE R == {q \in Nat : n - q \in S}
<1>1. \A i \in S : n - i \in Nat /\ n - (n - i) = i /\ i \in Nat
  OBVIOUS
<1>2. PICK r \in R : \A q \in R : r <= q
  <2>1. R \in SUBSET Nat
    OBVIOUS
  <2>2. PICK i \in S : TRUE
    OBVIOUS
  <2>3. n - i \in R
    BY <1>1, <2>2
  <2> HIDE DEF R
  <2> QED BY <2>1, <2>3, LeastIndex
<1>3. PICK k \in S : k = n - r /\ r \in Nat
  BY <1>2
<1>4. \A i \in S : k >= i
  <2> TAKE i \in S
  <2>1. n - i \in R
    BY <1>1
  <2>2. r <= n - i /\ i \in Nat
    BY <1>1, <1>2, <2>1
  <2> QED BY <1>3, <2>2
<1>5. \E k_1 \in S : \A i \in S : k_1 >= i
  BY <1>4
<1>6. Windows!Max(S) \in S /\ \A i \in S : Windows!Max(S) >= i
  BY <1>5 DEF Windows!Max
<1> QED BY <1>6

LEMMA TopmostIs ==
    ASSUME NEW d \in DeskRecords, NEW S
    PROVE  LET t == Windows!Topmost(d, S)
           IN  \/ \E i \in DOMAIN d.order :
                      /\ t = d.order[i] /\ t \in S /\ Windows!Visible(d, t)
                      /\ \A j \in DOMAIN d.order :
                             Windows!Visible(d, d.order[j]) /\ d.order[j] \in S => j <= i
               \/ /\ t = None
                  /\ \A j \in DOMAIN d.order : ~(Windows!Visible(d, d.order[j]) /\ d.order[j] \in S)
<1> DEFINE found == {i \in DOMAIN d.order : Windows!Visible(d, d.order[i]) /\ d.order[i] \in S}
<1>1. d.order \in Seq(Windows!Windows)
  BY DeskIs
<1>2. Len(d.order) \in Nat /\ DOMAIN d.order = 1 .. Len(d.order)
  BY <1>1
<1>3. found \in SUBSET (1 .. Len(d.order))
  BY <1>2
<1>4. Windows!Topmost(d, S) = (IF found = {} THEN None ELSE d.order[Windows!Max(found)])
  BY DEF Windows!Topmost
<1>5. CASE found = {}
  BY <1>4, <1>5
<1>6. CASE found # {}
  <2>1. Windows!Max(found) \in found /\ \A i \in found : i <= Windows!Max(found)
    <3> HIDE DEF found
    <3> QED BY <1>2, <1>3, <1>6, GreatestIndex
  <2> QED BY <1>4, <1>6, <2>1
<1> QED BY <1>5, <1>6

\* Only the order and which windows are visible matter.
LEMMA TopmostSame ==
    ASSUME NEW d \in DeskRecords, NEW e \in DeskRecords, NEW S, e.order = d.order,
           \A v \in Windows!Windows : Windows!Visible(e, v) <=> Windows!Visible(d, v)
    PROVE  Windows!Topmost(e, S) = Windows!Topmost(d, S)
<1>1. \A i \in DOMAIN d.order : d.order[i] \in Windows!Windows
  BY DeskIs
<1>2. {i \in DOMAIN e.order : Windows!Visible(e, e.order[i]) /\ e.order[i] \in S}
      = {i \in DOMAIN d.order : Windows!Visible(d, d.order[i]) /\ d.order[i] \in S}
  BY <1>1
<1> QED BY <1>2, Zenon DEF Windows!Topmost

\* desktop_focus_window's loop brings one window to the end and no other out.
LEMMA RaisedIs ==
    ASSUME NEW s \in Seq(Windows!Windows), \A i, j \in DOMAIN s : s[i] = s[j] => i = j,
           NEW k \in DOMAIN s
    PROVE  LET r == Windows!Raised(s, s[k])
           IN  /\ r \in Seq(Windows!Windows) /\ Len(r) = Len(s) /\ r[Len(s)] = s[k] /\ Len(s) \in Nat
               /\ DOMAIN r = DOMAIN s
               /\ \A i, j \in DOMAIN r : r[i] = r[j] => i = j
               /\ Windows!Range(r) = Windows!Range(s)
<1> DEFINE n == Len(s)
           r == Windows!Raised(s, s[k])
<1>1. n \in Nat /\ DOMAIN s = 1 .. n /\ k \in 1 .. n
  OBVIOUS
<1>2. (CHOOSE i \in DOMAIN s : s[i] = s[k]) = k
  OBVIOUS
<1>3. r = [i \in 1 .. n |-> IF i < k THEN s[i] ELSE IF i < n THEN s[i + 1] ELSE s[k]]
  BY <1>1, <1>2 DEF Windows!Raised
<1> HIDE DEF r
<1>4. \A i \in 1 .. n : r[i] = (IF i < k THEN s[i] ELSE IF i < n THEN s[i + 1] ELSE s[k])
  BY <1>3
<1> DEFINE place(i) == IF i < k THEN i ELSE IF i < n THEN i + 1 ELSE k
<1>5. \A i \in 1 .. n : place(i) \in 1 .. n /\ r[i] = s[place(i)]
  BY <1>1, <1>4
<1>6. \A i, j \in 1 .. n : place(i) = place(j) => i = j
  <2> HIDE DEF n
  <2>1. ASSUME NEW i \in 1 .. n
        PROVE  /\ i < k => place(i) = i
               /\ ~(i < k) /\ i < n => place(i) = i + 1
               /\ ~(i < k) /\ ~(i < n) => place(i) = k
    BY Zenon
  <2> HIDE DEF place
  <2> TAKE i, j \in 1 .. n
  <2>2. /\ i \in Int /\ j \in Int /\ k \in Int /\ n \in Int
        /\ i <= n /\ j <= n /\ k <= n
    BY <1>1
  <2> QED BY <2>1, <2>2
<1>7. \A j \in 1 .. n : \E i \in 1 .. n : place(i) = j
  <2> TAKE j \in 1 .. n
  <2>1. CASE j < k
    BY <1>1, <2>1
  <2>2. CASE j = k
    <3>1. n \in 1 .. n /\ place(n) = k
      BY <1>1
    <3> QED BY <2>2, <3>1
  <2>3. CASE j > k
    <3>1. j - 1 \in 1 .. n /\ place(j - 1) = j
      BY <1>1, <2>3
    <3> QED BY <3>1
  <2> QED BY <1>1, <2>1, <2>2, <2>3
<1>8. r[n] = s[k]
  BY <1>1, <1>4
<1> HIDE DEF place
<1>9. r \in [1 .. n -> Windows!Windows] /\ DOMAIN r = 1 .. n
  BY <1>1, <1>3, <1>5
<1>10. r \in Seq(Windows!Windows) /\ Len(r) = n
  BY <1>1, <1>9
<1>11. \A i, j \in 1 .. n : r[i] = r[j] => i = j
  BY <1>1, <1>5, <1>6
<1>12. {r[i] : i \in 1 .. n} = {s[i] : i \in 1 .. n}
  <2>1. ASSUME NEW i \in 1 .. n PROVE r[i] \in {s[j] : j \in 1 .. n}
    BY <1>5
  <2>2. ASSUME NEW j \in 1 .. n PROVE s[j] \in {r[i] : i \in 1 .. n}
    <3>1. PICK i \in 1 .. n : place(i) = j
      BY <1>7
    <3>2. r[i] = s[j]
      BY <1>5, <3>1
    <3> QED BY <3>2
  <2> HIDE DEF n
  <2> QED BY <2>1, <2>2
<1>13. Windows!Range(r) = Windows!Range(s)
  BY <1>1, <1>9, <1>12 DEF Windows!Range
<1> QED BY <1>1, <1>8, <1>9, <1>10, <1>11, <1>13 DEF r

-----------------------------------------------------------------------------
(* The functions that change windows. *)

DeskSound(d) == d \in DeskRecords /\ OrderedOnce(d) /\ TopFocused(d)

\* The same windows in the same order, where they were; as open, and as dirty
\* as before at least.
Alike(d, e) ==
    /\ e.order = d.order
    /\ \A v \in Windows!Windows :
           /\ e.win[v].hidden = d.win[v].hidden /\ e.win[v].minimized = d.win[v].minimized
           /\ e.win[v].focused = d.win[v].focused
InPlace(d, e) ==
    \A v \in Windows!Windows : e.win[v].x = d.win[v].x /\ e.win[v].w = d.win[v].w
AsDirty(d, e) ==
    /\ d.scene => e.scene
    /\ \A v \in Windows!Windows : d.win[v].dirty => e.win[v].dirty
AsOpen(d, e) == e.open = d.open /\ e.twice = d.twice

LEMMA AlikeSound ==
    ASSUME NEW d, DeskSound(d), NEW e \in DeskRecords, Alike(d, e)
    PROVE  /\ DeskSound(e) /\ Kept(d, e) /\ Windows!Created(e) = Windows!Created(d)
           /\ AsOpen(d, e) /\ Paired(d) => Paired(e)
<1>1. d \in DeskRecords /\ OrderedOnce(d) /\ TopFocused(d)
  BY DEF DeskSound
<1>2. Windows!Created(e) = Windows!Created(d) /\ Windows!Created(d) \subseteq Windows!Windows
  BY <1>1, DeskIs DEF Windows!Created, Alike
<1>3. \A v \in Windows!Windows : Windows!Visible(e, v) <=> Windows!Visible(d, v)
  BY DEF Alike, Windows!Visible
<1>4. Windows!Topmost(e, Windows!Windows) = Windows!Topmost(d, Windows!Windows)
  BY <1>1, <1>3, TopmostSame DEF Alike
<1>5. {v \in Windows!Windows : e.win[v].focused} = {v \in Windows!Windows : d.win[v].focused}
  BY DEF Alike
<1>6. TopFocused(e)
  BY <1>1, <1>4, <1>5 DEF TopFocused
<1>7. OrderedOnce(e)
  BY <1>1 DEF OrderedOnce, Alike
<1>8. Kept(d, e)
  BY <1>2, <1>3 DEF Kept, Alike
<1>9. ASSUME AsOpen(d, e), Paired(d) PROVE Paired(e)
  <2>1. {v \in Windows!Created(e) \cap Apps : ~e.win[v].hidden}
        = {v \in Windows!Created(d) \cap Apps : ~d.win[v].hidden}
    BY <1>2 DEF Alike
  <2> QED BY <1>9, <2>1 DEF AsOpen, Paired
<1> QED BY <1>2, <1>6, <1>7, <1>8, <1>9 DEF DeskSound

\* What is shown is the same when windows are, where they are.
LEMMA ShownSame ==
    ASSUME NEW d \in DeskRecords, NEW e \in DeskRecords, Alike(d, e), InPlace(d, e)
    PROVE  Windows!Shown(e) = Windows!Shown(d)
<1>1. Windows!Created(e) = Windows!Created(d) /\ Windows!Created(d) \subseteq Windows!Windows
  BY DeskIs DEF Windows!Created, Alike
<1>2. \A v \in Windows!Windows : Windows!Visible(e, v) <=> Windows!Visible(d, v)
  BY DEF Alike, Windows!Visible
<1> DEFINE onScreen(g) == {v \in Windows!Created(g) : Windows!Visible(g, v)}
           behind(g, u, v) == \E i, j \in DOMAIN g.order : i < j /\ g.order[i] = u /\ g.order[j] = v
           under(g, v) == {u \in onScreen(g) : behind(g, u, v)}
           row(g, v) == <<g.win[v].x, g.win[v].w, g.win[v].focused, under(g, v)>>
           rows(g) == [v \in onScreen(g) |-> row(g, v)]
           tasks(g) == {v \in Windows!Created(g) \cap Apps : ~g.win[v].hidden}
<1>3. onScreen(e) = onScreen(d) /\ onScreen(d) \subseteq Windows!Windows
  BY <1>1, <1>2
<1>4. tasks(e) = tasks(d)
  BY <1>1 DEF Alike
<1>5. \A u, v : behind(e, u, v) <=> behind(d, u, v)
  BY DEF Alike
<1> HIDE DEF onScreen, behind
<1>6. \A v : under(e, v) = under(d, v)
  BY <1>3, <1>5
<1> HIDE DEF under
<1>7. \A v \in onScreen(d) : row(e, v) = row(d, v)
  BY <1>3, <1>6 DEF Alike, InPlace
<1> HIDE DEF row
<1>8. rows(e) = rows(d)
  BY <1>3, <1>7, Zenon
<1>9. Windows!Shown(e) = <<rows(e), tasks(e)>> /\ Windows!Shown(d) = <<rows(d), tasks(d)>>
  BY Zenon DEF Windows!Shown, rows, row, under, behind, onScreen, tasks
<1> HIDE DEF rows, tasks
<1> QED BY <1>4, <1>8, <1>9, Zenon

LEMMA DirtyIs ==
    ASSUME NEW d \in DeskRecords, NEW k \in Windows!Windows
    PROVE  LET e == Windows!Dirty(d, k)
           IN  /\ e \in DeskRecords /\ Alike(d, e) /\ InPlace(d, e) /\ AsDirty(d, e) /\ AsOpen(d, e)
               /\ e.win[k].dirty /\ e.scene = d.scene /\ e.bar = d.bar
<1>1. PICK t \in BOOLEAN : t = TRUE /\ t
  OBVIOUS
<1> DEFINE v == Dirtied(d.win[k], t)
           e == Windows!Dirty(d, k)
<1>2. d.win[k] \in GoodWins
  BY DeskIs
<1>3. /\ v \in GoodWins /\ v.hidden = d.win[k].hidden /\ v.minimized = d.win[k].minimized
      /\ v.focused = d.win[k].focused /\ v.dirty = t /\ v.x = d.win[k].x /\ v.w = d.win[k].w
  BY <1>2, WinDirty
<1>4. e = Windows!Put(d, k, v)
  BY <1>1, Zenon DEF Windows!Dirty, Dirtied
<1> HIDE DEF v, e
<1>5. /\ e \in DeskRecords /\ e.order = d.order /\ e.open = d.open
      /\ e.twice = d.twice /\ e.scene = d.scene /\ e.bar = d.bar
      /\ e.win[k] = v /\ \A u \in Windows!Windows : u # k => e.win[u] = d.win[u]
  BY <1>3, <1>4, PutIs
<1>6. Alike(d, e)
  BY <1>3, <1>5 DEF Alike
<1>7. InPlace(d, e)
  BY <1>3, <1>5 DEF InPlace
<1>8. e.win[k].dirty
  BY <1>1, <1>3, <1>5
<1>9. AsDirty(d, e) /\ AsOpen(d, e)
  BY <1>5, <1>8 DEF AsDirty, AsOpen
<1> QED BY <1>5, <1>6, <1>7, <1>8, <1>9 DEF e

\* The window is between the edges of the screen, wherever it is dragged.
LEMMA MoveToIs ==
    ASSUME NEW d \in DeskRecords, NEW k \in Windows!Windows, NEW p \in Int
    PROVE  LET e == Windows!MoveTo(d, k, p)
           IN  /\ e \in DeskRecords /\ Alike(d, e) /\ AsDirty(d, e) /\ AsOpen(d, e)
               /\ e.scene = d.scene /\ e.win[k].w = d.win[k].w
               /\ \A u \in Windows!Windows : u # k => e.win[u] = d.win[u]
<1> DEFINE max == IF Screen > d.win[k].w THEN Screen - d.win[k].w ELSE 0
           to == IF p < 0 THEN 0 ELSE IF p > max THEN max ELSE p
           v == [d.win[k] EXCEPT !.x = to]
           e == Windows!MoveTo(d, k, p)
<1>1. d.win[k] \in WinRecords /\ WinFits(d.win[k]) /\ d.win[k].w \in Int /\ d.win[k].x \in Int
  BY DeskIs DEF GoodWins, WinRecords
<1>2. Screen \in Int /\ MinWidth \in Int /\ 0 <= MinWidth
  BY WindowsAssumption
<1>3. to \in Int /\ 0 <= to /\ to + d.win[k].w <= Screen
  BY <1>1, <1>2 DEF WinFits
<1>4. e = Windows!Put(d, k, v)
  BY DEF Windows!MoveTo
<1> HIDE DEF to, max
<1>5. /\ v \in WinRecords /\ v.hidden = d.win[k].hidden /\ v.minimized = d.win[k].minimized
      /\ v.focused = d.win[k].focused /\ v.dirty = d.win[k].dirty /\ v.x = to
      /\ v.w = d.win[k].w /\ v.rx = d.win[k].rx /\ v.rw = d.win[k].rw
      /\ v.maximized = d.win[k].maximized
  BY <1>1, <1>3 DEF WinRecords
<1> HIDE DEF v, e
<1>6. v \in GoodWins
  BY <1>1, <1>3, <1>5 DEF GoodWins, WinFits
<1>7. /\ e \in DeskRecords /\ e.order = d.order /\ e.open = d.open
      /\ e.twice = d.twice /\ e.scene = d.scene /\ e.bar = d.bar
      /\ e.win[k] = v /\ \A u \in Windows!Windows : u # k => e.win[u] = d.win[u]
  BY <1>4, <1>6, PutIs
<1>8. Alike(d, e)
  BY <1>5, <1>7 DEF Alike
<1>9. AsDirty(d, e) /\ AsOpen(d, e)
  BY <1>5, <1>7 DEF AsDirty, AsOpen
<1> QED BY <1>5, <1>7, <1>8, <1>9 DEF e

\* desktop_focus_window, whatever had the focus before.
FocusedWins(d, k) == [v \in Windows!Windows |-> [d.win[v] EXCEPT !.focused = (v = k)]]

LEMMA FocusWins ==
    ASSUME NEW d \in DeskRecords, NEW k
    PROVE  LET F == FocusedWins(d, k)
           IN  /\ F \in [Windows!Windows -> GoodWins]
               /\ \A v \in Windows!Windows :
                      /\ F[v].hidden = d.win[v].hidden /\ F[v].minimized = d.win[v].minimized
                      /\ F[v].focused <=> v = k
                      /\ F[v].dirty = d.win[v].dirty /\ F[v].x = d.win[v].x /\ F[v].w = d.win[v].w
<1> DEFINE g(v) == [d.win[v] EXCEPT !.focused = (v = k)]
           F == [v \in Windows!Windows |-> g(v)]
<1>1. ASSUME NEW v \in Windows!Windows
      PROVE  /\ g(v) \in GoodWins /\ g(v).hidden = d.win[v].hidden
             /\ g(v).minimized = d.win[v].minimized /\ (g(v).focused <=> v = k)
             /\ g(v).dirty = d.win[v].dirty /\ g(v).x = d.win[v].x /\ g(v).w = d.win[v].w
  <2>1. PICK f \in BOOLEAN : f = (v = k) /\ (f <=> v = k)
    OBVIOUS
  <2>2. d.win[v] \in GoodWins
    BY DeskIs
  <2> DEFINE r == Focusing(d.win[v], f)
  <2>3. g(v) = r
    BY <2>1, Zenon DEF Focusing
  <2>4. /\ r \in GoodWins /\ r.hidden = d.win[v].hidden /\ r.minimized = d.win[v].minimized
        /\ r.focused = f /\ r.dirty = d.win[v].dirty /\ r.x = d.win[v].x /\ r.w = d.win[v].w
    BY <2>2, WinFocus
  <2> HIDE DEF r, g
  <2> QED BY <2>1, <2>3, <2>4
<1> HIDE DEF g
<1>2. F \in [Windows!Windows -> GoodWins] /\ \A v \in Windows!Windows : F[v] = g(v)
  BY <1>1
<1>3. FocusedWins(d, k) = F
  BY Zenon DEF FocusedWins, g
<1> HIDE DEF F
<1>4. \A v \in Windows!Windows :
          /\ F[v].hidden = d.win[v].hidden /\ F[v].minimized = d.win[v].minimized
          /\ F[v].focused <=> v = k
          /\ F[v].dirty = d.win[v].dirty /\ F[v].x = d.win[v].x /\ F[v].w = d.win[v].w
  BY <1>1, <1>2
<1> QED BY <1>2, <1>3, <1>4

\* All but the order and the focus is as it was.
Refocused(d, e) ==
    /\ Windows!Created(e) = Windows!Created(d) /\ e.open = d.open /\ e.twice = d.twice
    /\ e.scene = d.scene /\ e.bar = d.bar
    /\ \A v \in Windows!Windows :
           /\ e.win[v].hidden = d.win[v].hidden /\ e.win[v].minimized = d.win[v].minimized
           /\ e.win[v].dirty = d.win[v].dirty /\ e.win[v].x = d.win[v].x /\ e.win[v].w = d.win[v].w

LEMMA RefocusedKept ==
    ASSUME NEW d \in DeskRecords, NEW e \in DeskRecords, Refocused(d, e)
    PROVE  Kept(d, e) /\ AsDirty(d, e) /\ (Paired(d) => Paired(e))
<1>1. Windows!Created(d) \subseteq Windows!Windows
  BY DeskIs
<1>2. Kept(d, e) /\ AsDirty(d, e)
  BY <1>1 DEF Refocused, Kept, AsDirty, Windows!Visible
<1>3. {v \in Windows!Created(e) \cap Apps : ~e.win[v].hidden}
      = {v \in Windows!Created(d) \cap Apps : ~d.win[v].hidden}
  BY <1>1 DEF Refocused
<1> QED BY <1>2, <1>3 DEF Paired, Refocused

LEMMA FocusIs ==
    ASSUME NEW d \in DeskRecords, OrderedOnce(d), NEW k \in Windows!Created(d),
           Windows!Visible(d, k)
    PROVE  LET e == Windows!Focus(d, k) IN DeskSound(e) /\ Refocused(d, e)
<1> DEFINE F == FocusedWins(d, k)
           o == Windows!Raised(d.order, k)
           e == Windows!Focus(d, k)
<1>1. PICK p \in DOMAIN d.order : d.order[p] = k
  BY DeskIs
<1>2. d.order \in Seq(Windows!Windows) /\ Windows!Created(d) \subseteq Windows!Windows
  BY DeskIs
<1>3. /\ o \in Seq(Windows!Windows) /\ Len(o) = Len(d.order) /\ o[Len(d.order)] = k
      /\ Len(d.order) \in Nat /\ DOMAIN o = DOMAIN d.order
      /\ \A i, j \in DOMAIN o : o[i] = o[j] => i = j
      /\ Windows!Range(o) = Windows!Range(d.order)
  BY <1>1, <1>2, RaisedIs DEF OrderedOnce
<1>4. e = [d EXCEPT !.win = F, !.order = o]
  BY Zenon DEF Windows!Focus, FocusedWins, Windows!Created
<1>5. /\ F \in [Windows!Windows -> GoodWins]
      /\ \A v \in Windows!Windows :
             /\ F[v].hidden = d.win[v].hidden /\ F[v].minimized = d.win[v].minimized
             /\ F[v].focused <=> v = k
             /\ F[v].dirty = d.win[v].dirty /\ F[v].x = d.win[v].x /\ F[v].w = d.win[v].w
  BY FocusWins
<1> HIDE DEF F, o, e
<1>6. /\ e \in DeskRecords /\ e.win = F /\ e.order = o /\ e.open = d.open /\ e.twice = d.twice
      /\ e.scene = d.scene /\ e.bar = d.bar
  BY <1>3, <1>4, <1>5 DEF DeskRecords
<1>7. Windows!Created(e) = Windows!Created(d)
  BY <1>3, <1>6 DEF Windows!Created
<1>8. Refocused(d, e)
  BY <1>5, <1>6, <1>7 DEF Refocused
<1>9. Windows!Visible(e, k)
  BY <1>2, <1>5, <1>6 DEF Windows!Visible
<1> DEFINE n == Len(d.order)
<1>10. n \in DOMAIN e.order /\ e.order[n] = k /\ \A i \in DOMAIN e.order : i \in Int /\ i <= n
  <2>1. DOMAIN d.order = 1 .. n /\ n \in Nat
    BY <1>2
  <2> QED BY <1>1, <1>3, <1>6, <2>1
<1> HIDE DEF n
<1>11. Windows!Topmost(e, Windows!Windows) = k
  <2> DEFINE t == Windows!Topmost(e, Windows!Windows)
  <2>1. \/ \E i \in DOMAIN e.order :
               /\ t = e.order[i]
               /\ \A j \in DOMAIN e.order :
                      Windows!Visible(e, e.order[j]) /\ e.order[j] \in Windows!Windows => j <= i
        \/ \A j \in DOMAIN e.order :
               ~(Windows!Visible(e, e.order[j]) /\ e.order[j] \in Windows!Windows)
    BY <1>6, TopmostIs
  <2> HIDE DEF t
  <2>2. Windows!Visible(e, e.order[n]) /\ e.order[n] \in Windows!Windows
    BY <1>2, <1>9, <1>10
  <2>3. PICK i \in DOMAIN e.order :
               /\ t = e.order[i]
               /\ \A j \in DOMAIN e.order :
                      Windows!Visible(e, e.order[j]) /\ e.order[j] \in Windows!Windows => j <= i
    BY <1>10, <2>1, <2>2
  <2>4. n <= i /\ i <= n /\ i \in Int /\ n \in Int
    BY <1>10, <2>2, <2>3
  <2>5. i = n
    BY <2>4
  <2> QED BY <1>10, <2>3, <2>5 DEF t
<1>12. k # None
  BY <1>2, WindowsAssumption DEF Windows!Windows
<1>13. {v \in Windows!Windows : e.win[v].focused} = {k}
  BY <1>2, <1>5, <1>6
<1>14. TopFocused(e)
  BY <1>11, <1>12, <1>13 DEF TopFocused
<1>15. OrderedOnce(e)
  BY <1>3, <1>6 DEF OrderedOnce
<1> QED BY <1>6, <1>8, <1>14, <1>15 DEF DeskSound, e

\* desktop_focus_top_visible_window gives the focus to what the pointer finds
\* first, or to nothing.
LEMMA FocusTopIs ==
    ASSUME NEW d \in DeskRecords, OrderedOnce(d)
    PROVE  LET e == Windows!FocusTop(d) IN DeskSound(e) /\ Refocused(d, e)
<1> DEFINE t == Windows!Topmost(d, Windows!Windows)
           e == Windows!FocusTop(d)
<1>1. e = Windows!Focus(d, t)
  BY DEF Windows!FocusTop
<1>2. \/ \E i \in DOMAIN d.order : t = d.order[i] /\ Windows!Visible(d, t)
      \/ /\ t = None
         /\ \A j \in DOMAIN d.order :
                ~(Windows!Visible(d, d.order[j]) /\ d.order[j] \in Windows!Windows)
  BY TopmostIs
<1>3. CASE \E i \in DOMAIN d.order : t = d.order[i] /\ Windows!Visible(d, t)
  <2>1. t \in Windows!Created(d) /\ Windows!Visible(d, t)
    BY <1>3, DeskIs
  <2> HIDE DEF t
  <2> QED BY <1>1, <2>1, FocusIs
<1>4. CASE /\ t = None
           /\ \A j \in DOMAIN d.order :
                  ~(Windows!Visible(d, d.order[j]) /\ d.order[j] \in Windows!Windows)
  <2> DEFINE F == FocusedWins(d, None)
  <2>1. Windows!Created(d) \subseteq Windows!Windows /\ None \notin Windows!Windows
        /\ d.order \in Seq(Windows!Windows)
    BY DeskIs, WindowsAssumption DEF Windows!Windows
  <2>2. e = [d EXCEPT !.win = F, !.order = d.order]
    <3>1. None \notin Windows!Created(d)
      BY <2>1
    <3> QED BY <1>1, <1>4, <3>1, Zenon DEF Windows!Focus, FocusedWins
  <2>3. /\ F \in [Windows!Windows -> GoodWins]
        /\ \A v \in Windows!Windows :
               /\ F[v].hidden = d.win[v].hidden /\ F[v].minimized = d.win[v].minimized
               /\ F[v].focused <=> v = None
               /\ F[v].dirty = d.win[v].dirty /\ F[v].x = d.win[v].x /\ F[v].w = d.win[v].w
    BY FocusWins
  <2> HIDE DEF F, e, t
  <2>4. /\ e \in DeskRecords /\ e.win = F /\ e.order = d.order /\ e.open = d.open
        /\ e.twice = d.twice /\ e.scene = d.scene /\ e.bar = d.bar
    BY <2>1, <2>2, <2>3 DEF DeskRecords
  <2>5. Refocused(d, e)
    BY <2>3, <2>4 DEF Refocused, Windows!Created
  <2>6. \A v \in Windows!Windows : Windows!Visible(e, v) <=> Windows!Visible(d, v)
    BY <2>3, <2>4 DEF Windows!Visible
  <2>7. Windows!Topmost(e, Windows!Windows) = None
    BY <1>4, <2>4, <2>6, TopmostSame DEF t
  <2>8. {v \in Windows!Windows : e.win[v].focused} = {}
    BY <2>1, <2>3, <2>4
  <2>9. TopFocused(e)
    BY <2>7, <2>8 DEF TopFocused
  <2>10. OrderedOnce(e)
    BY <2>4 DEF OrderedOnce
  <2> QED BY <2>4, <2>5, <2>9, <2>10 DEF DeskSound, e
<1> QED BY <1>2, <1>3, <1>4

LEMMA AlikeKept ==
    ASSUME NEW d \in DeskRecords, NEW e \in DeskRecords, Alike(d, e)
    PROVE  /\ Windows!Created(e) = Windows!Created(d) /\ Kept(d, e)
           /\ \A v \in Windows!Windows : Windows!Visible(e, v) <=> Windows!Visible(d, v)
           /\ OrderedOnce(d) => OrderedOnce(e)
           /\ AsOpen(d, e) /\ Paired(d) => Paired(e)
<1>1. Windows!Created(e) = Windows!Created(d) /\ Windows!Created(d) \subseteq Windows!Windows
  BY DeskIs DEF Windows!Created, Alike
<1>2. \A v \in Windows!Windows : Windows!Visible(e, v) <=> Windows!Visible(d, v)
  BY DEF Alike, Windows!Visible
<1>3. OrderedOnce(d) => OrderedOnce(e)
  BY DEF OrderedOnce, Alike
<1>4. Kept(d, e)
  BY <1>1, <1>2 DEF Kept, Alike
<1>5. ASSUME AsOpen(d, e), Paired(d) PROVE Paired(e)
  <2>1. {v \in Windows!Created(e) \cap Apps : ~e.win[v].hidden}
        = {v \in Windows!Created(d) \cap Apps : ~d.win[v].hidden}
    BY <1>1 DEF Alike
  <2> QED BY <1>5, <2>1 DEF AsOpen, Paired
<1> QED BY <1>1, <1>2, <1>3, <1>4, <1>5

LEMMA KeptOn ==
    ASSUME NEW d, NEW e, NEW g, Kept(d, e), Kept(e, g)
    PROVE  Kept(d, g)
BY DEF Kept

\* The flags are no part of the windows.
LEMMA FlagsIs ==
    ASSUME NEW d \in DeskRecords, NEW s \in BOOLEAN, NEW b \in BOOLEAN
    PROVE  /\ LET e == [d EXCEPT !.scene = s, !.bar = b]
              IN  /\ e \in DeskRecords /\ e.win = d.win /\ e.order = d.order
                  /\ e.open = d.open /\ e.twice = d.twice /\ e.scene = s
           /\ LET e == [d EXCEPT !.bar = b]
              IN  /\ e \in DeskRecords /\ e.win = d.win /\ e.order = d.order
                  /\ e.open = d.open /\ e.twice = d.twice /\ e.scene = d.scene
<1>1. LET e == [d EXCEPT !.scene = s, !.bar = b]
      IN  /\ e \in DeskRecords /\ e.win = d.win /\ e.order = d.order
          /\ e.open = d.open /\ e.twice = d.twice /\ e.scene = s
  BY DEF DeskRecords
<1>2. LET e == [d EXCEPT !.bar = b]
      IN  /\ e \in DeskRecords /\ e.win = d.win /\ e.order = d.order
          /\ e.open = d.open /\ e.twice = d.twice /\ e.scene = d.scene
  BY DEF DeskRecords
<1> QED BY <1>1, <1>2, Zenon

\* Showing a window, or leaving it as hidden as it was, keeps the applications paired.
LEMMA OneChanged ==
    ASSUME NEW d \in DeskRecords, NEW e \in DeskRecords, NEW k \in Windows!Windows,
           e.order = d.order, AsOpen(d, e),
           \A u \in Windows!Windows : u # k => e.win[u] = d.win[u]
    PROVE  /\ Windows!Created(e) = Windows!Created(d)
           /\ OrderedOnce(d) => OrderedOnce(e)
           /\ k \notin Apps \/ (e.win[k].hidden <=> d.win[k].hidden) => (Paired(d) => Paired(e))
           /\ ~e.win[k].hidden /\ ~e.win[k].minimized => Kept(d, e) /\ Windows!Visible(e, k)
<1>1. Windows!Created(e) = Windows!Created(d) /\ Windows!Created(d) \subseteq Windows!Windows
  BY DeskIs DEF Windows!Created
<1>2. OrderedOnce(d) => OrderedOnce(e)
  BY DEF OrderedOnce
<1>3. ASSUME k \notin Apps \/ (e.win[k].hidden <=> d.win[k].hidden), Paired(d) PROVE Paired(e)
  <2>1. {v \in Windows!Created(e) \cap Apps : ~e.win[v].hidden}
        = {v \in Windows!Created(d) \cap Apps : ~d.win[v].hidden}
    BY <1>1, <1>3
  <2> QED BY <1>3, <2>1 DEF AsOpen, Paired
<1>4. ASSUME ~e.win[k].hidden, ~e.win[k].minimized PROVE Kept(d, e) /\ Windows!Visible(e, k)
  BY <1>1, <1>4 DEF Kept, Windows!Visible
<1> QED BY <1>1, <1>2, <1>3, <1>4

LEMMA RestoreIs ==
    ASSUME NEW d \in DeskRecords, OrderedOnce(d), NEW k \in Windows!Created(d)
    PROVE  LET e == Windows!Restore(d, k)
           IN  /\ e \in DeskRecords /\ OrderedOnce(e) /\ Windows!Created(e) = Windows!Created(d)
               /\ Windows!Visible(e, k) /\ Kept(d, e) /\ e.scene = d.scene
               /\ k \notin Apps \/ ~d.win[k].hidden => (Paired(d) => Paired(e))
<1>1. PICK t \in BOOLEAN, f \in BOOLEAN : t = TRUE /\ t /\ f = FALSE /\ ~f
  BY Bools
<1> DEFINE v == Restoring(d.win[k], f, f, t)
           e == Windows!Restore(d, k)
<1>2. d.win[k] \in GoodWins /\ k \in Windows!Windows
  BY DeskIs
<1>3. v \in GoodWins /\ v.hidden = f /\ v.minimized = f
  BY <1>2, WinRestore
<1>4. e = Windows!Put(d, k, v)
  BY <1>1, Zenon DEF Windows!Restore, Restoring
<1> HIDE DEF v, e
<1>5. /\ e \in DeskRecords /\ e.order = d.order /\ e.open = d.open
      /\ e.twice = d.twice /\ e.scene = d.scene
      /\ e.win[k] = v /\ \A u \in Windows!Windows : u # k => e.win[u] = d.win[u]
  BY <1>2, <1>3, <1>4, PutIs
<1>6. ~e.win[k].hidden /\ ~e.win[k].minimized
  BY <1>1, <1>3, <1>5
<1> QED BY <1>2, <1>5, <1>6, OneChanged DEF AsOpen, e

LEMMA ShowIs ==
    ASSUME NEW d \in DeskRecords, OrderedOnce(d), NEW k \in Windows!Created(d)
    PROVE  LET e == Windows!Put(d, k, [d.win[k] EXCEPT !.hidden = FALSE, !.minimized = FALSE])
           IN  /\ e \in DeskRecords /\ OrderedOnce(e) /\ Windows!Created(e) = Windows!Created(d)
               /\ Windows!Visible(e, k) /\ Kept(d, e) /\ e.scene = d.scene /\ AsOpen(d, e)
               /\ \A u \in Windows!Windows : u # k => e.win[u] = d.win[u]
               /\ ~d.win[k].hidden => (Paired(d) => Paired(e))
<1>1. PICK f \in BOOLEAN : f = FALSE /\ ~f
  BY Bools
<1> DEFINE v == Showing(d.win[k], f, f)
           e == Windows!Put(d, k, [d.win[k] EXCEPT !.hidden = FALSE, !.minimized = FALSE])
<1>2. d.win[k] \in GoodWins /\ k \in Windows!Windows
  BY DeskIs
<1>3. v \in GoodWins /\ v.hidden = f /\ v.minimized = f
  BY <1>2, WinShow
<1>4. e = Windows!Put(d, k, v)
  BY <1>1, Zenon DEF Showing
<1> HIDE DEF v, e
<1>5. /\ e \in DeskRecords /\ e.order = d.order /\ e.open = d.open
      /\ e.twice = d.twice /\ e.scene = d.scene
      /\ e.win[k] = v /\ \A u \in Windows!Windows : u # k => e.win[u] = d.win[u]
  BY <1>2, <1>3, <1>4, PutIs
<1>6. ~e.win[k].hidden /\ ~e.win[k].minimized
  BY <1>1, <1>3, <1>5
<1> QED BY <1>2, <1>5, <1>6, OneChanged DEF AsOpen, e

Resizing(v, p, q, i, j, m, t) ==
    [v EXCEPT !.x = p, !.w = q, !.rx = i, !.rw = j, !.maximized = m, !.dirty = t]
Filling(v, p, q, i, j, m, t) ==
    [v EXCEPT !.rx = i, !.rw = j, !.x = p, !.w = q, !.maximized = m, !.dirty = t]

LEMMA MaximizeIs ==
    ASSUME NEW d \in DeskRecords, OrderedOnce(d), NEW k \in Windows!Created(d),
           Windows!Visible(d, k)
    PROVE  LET e == Windows!Maximize(d, k)
           IN  /\ e \in DeskRecords /\ OrderedOnce(e) /\ Windows!Created(e) = Windows!Created(d)
               /\ Windows!Visible(e, k) /\ (Paired(d) => Paired(e))
<1>1. PICK t \in BOOLEAN, f \in BOOLEAN : t = TRUE /\ t /\ f = FALSE /\ ~f
  BY Bools
<1> DEFINE v == d.win[k]
           restored == Resizing(v, v.rx, v.rw, 0, 0, f, t)
           whole == Filling(v, 0, Screen, v.x, v.w, t, t)
           e == Windows!Maximize(d, k)
<1>2. v \in GoodWins /\ k \in Windows!Windows
  BY DeskIs
<1>3. e = Windows!Put(d, k, IF v.maximized THEN restored ELSE whole)
  BY <1>1, Zenon DEF Windows!Maximize, Resizing, Filling
<1> HIDE DEF v
<1>4. Screen \in Int /\ MinWidth \in Int /\ MinWidth <= Screen
  BY WindowsAssumption
<1>5. v \in WinRecords /\ WinFits(v)
  BY <1>2 DEF GoodWins
<1>6. PICK z \in Int, s \in Int, a \in Int, b \in Int, i \in Int, j \in Int :
          z = 0 /\ s = Screen /\ a = v.x /\ b = v.w /\ i = v.rx /\ j = v.rw
  <2>1. v.x \in Int /\ v.w \in Int /\ v.rx \in Int /\ v.rw \in Int /\ 0 \in Int
    BY <1>5 DEF WinRecords
  <2> QED BY <1>4, <2>1
<1>7. restored = Resizing(v, i, j, z, z, f, t) /\ whole = Filling(v, z, s, a, b, t, t)
  BY <1>6, Zenon
<1>8. /\ restored \in WinRecords /\ restored.x = i /\ restored.w = j
      /\ restored.maximized = f /\ restored.hidden = v.hidden /\ restored.minimized = v.minimized
  BY Zenon, <1>5, <1>7 DEF Resizing, WinRecords
<1>9. /\ whole \in WinRecords /\ whole.x = z /\ whole.w = s /\ whole.rx = a /\ whole.rw = b
      /\ whole.maximized = t /\ whole.hidden = v.hidden /\ whole.minimized = v.minimized
  BY Zenon, <1>5, <1>7 DEF Filling, WinRecords
<1> HIDE DEF restored, whole
<1>10. (v.maximized => restored \in GoodWins) /\ whole \in GoodWins
  <2>1. v.maximized => restored \in GoodWins
    BY <1>1, <1>5, <1>6, <1>8 DEF GoodWins, WinFits
  <2>2. whole \in GoodWins
    BY <1>1, <1>4, <1>5, <1>6, <1>9 DEF GoodWins, WinFits
  <2> QED BY <2>1, <2>2
<1> HIDE DEF e
<1>11. PICK u \in GoodWins :
           e = Windows!Put(d, k, u) /\ u.hidden = v.hidden /\ u.minimized = v.minimized
  BY <1>3, <1>8, <1>9, <1>10
<1>12. /\ e \in DeskRecords /\ e.order = d.order /\ e.open = d.open /\ e.twice = d.twice
       /\ e.win[k] = u /\ \A y \in Windows!Windows : y # k => e.win[y] = d.win[y]
  BY <1>2, <1>11, PutIs
<1>13. Windows!Visible(e, k) /\ (e.win[k].hidden <=> d.win[k].hidden)
  BY <1>11, <1>12 DEF Windows!Visible, v
<1> QED BY <1>2, <1>12, <1>13, OneChanged DEF AsOpen, e

LEMMA MinimizeIs ==
    ASSUME NEW d \in DeskRecords, OrderedOnce(d), NEW k \in Windows!Created(d),
           ~d.win[k].hidden
    PROVE  LET e == Windows!Minimize(d, k)
           IN  e \in DeskRecords /\ OrderedOnce(e) /\ (Paired(d) => Paired(e))
<1>1. PICK t \in BOOLEAN, f \in BOOLEAN : t = TRUE /\ t /\ f = FALSE /\ ~f
  BY Bools
<1> DEFINE v == Minimizing(d.win[k], f, t, f)
           e == Windows!Minimize(d, k)
<1>2. d.win[k] \in GoodWins /\ k \in Windows!Windows
  BY DeskIs
<1>3. v \in GoodWins /\ v.hidden = f
  BY <1>2, WinMinimize
<1>4. e = Windows!Put(d, k, v)
  BY <1>1, Zenon DEF Windows!Minimize, Minimizing
<1> HIDE DEF v, e
<1>5. /\ e \in DeskRecords /\ e.order = d.order /\ e.open = d.open /\ e.twice = d.twice
      /\ e.win[k] = v /\ \A u \in Windows!Windows : u # k => e.win[u] = d.win[u]
  BY <1>2, <1>3, <1>4, PutIs
<1>6. e.win[k].hidden <=> d.win[k].hidden
  BY <1>1, <1>3, <1>5
<1> QED BY <1>2, <1>5, <1>6, OneChanged DEF AsOpen, e

\* The application of a window that is closed is no longer open.
LEMMA CloseIs ==
    ASSUME NEW d \in DeskRecords, OrderedOnce(d), NEW k \in Windows!Created(d)
    PROVE  LET e == Windows!Close(d, k)
           IN  e \in DeskRecords /\ OrderedOnce(e) /\ (Paired(d) => Paired(e))
<1>1. PICK t \in BOOLEAN, f \in BOOLEAN : t = TRUE /\ t /\ f = FALSE /\ ~f
  BY Bools
<1> DEFINE v == Closing(d.win[k], t, f, f)
           g == Windows!Put(d, k, v)
           b == d.bar \/ k \in Apps
           o == d.open \ {k}
           e == Windows!Close(d, k)
<1>2. d.win[k] \in GoodWins /\ k \in Windows!Windows
  BY DeskIs
<1>3. v \in GoodWins /\ v.hidden = t
  BY <1>2, WinClose
<1>4. e = [g EXCEPT !.open = o, !.bar = b]
  BY <1>1, Zenon DEF Windows!Close, Closing
<1> HIDE DEF v, g, e
<1>5. /\ g \in DeskRecords /\ g.order = d.order /\ g.open = d.open /\ g.twice = d.twice
      /\ g.win[k] = v /\ \A u \in Windows!Windows : u # k => g.win[u] = d.win[u]
  BY <1>2, <1>3, PutIs DEF g
<1>6. PICK c \in BOOLEAN : c = b
  BY Zenon
<1>7. d.open \subseteq Apps /\ o \in SUBSET Apps
  BY DeskIs
<1>8. e = [g EXCEPT !.open = o, !.bar = c]
  BY <1>4, <1>6, Zenon
<1> HIDE DEF o, b
<1>9. e \in DeskRecords /\ e.win = g.win /\ e.order = g.order /\ e.open = o /\ e.twice = g.twice
  BY <1>5, <1>7, <1>8 DEF DeskRecords
<1>10. Windows!Created(e) = Windows!Created(d) /\ Windows!Created(d) \subseteq Windows!Windows
  BY <1>5, <1>9, DeskIs DEF Windows!Created
<1>11. OrderedOnce(e)
  BY <1>5, <1>9 DEF OrderedOnce
<1>12. ASSUME Paired(d) PROVE Paired(e)
  <2>1. e.win[k].hidden /\ \A u \in Windows!Windows : u # k => e.win[u] = d.win[u]
    BY <1>1, <1>3, <1>5, <1>9
  <2>2. {u \in Windows!Created(e) \cap Apps : ~e.win[u].hidden}
        = {u \in Windows!Created(d) \cap Apps : ~d.win[u].hidden} \ {k}
    BY <1>10, <2>1
  <2> QED BY <1>5, <1>9, <1>12, <2>2 DEF Paired, o
<1> QED BY <1>9, <1>11, <1>12 DEF e

-----------------------------------------------------------------------------
(* Applications are opened. *)

\* A window that is made is on the screen; its edge may be anywhere there.
LEMMA FreshIs ==
    ASSUME NEW p \in Int, 0 <= p, p + MinWidth <= Screen
    PROVE  /\ Windows!Fresh(p) \in GoodWins
           /\ ~Windows!Fresh(p).hidden /\ ~Windows!Fresh(p).minimized /\ Windows!Fresh(p).x = p
           /\ Windows!Hidden(p) \in GoodWins
           /\ Windows!Hidden(p).hidden /\ ~Windows!Hidden(p).focused
<1>1. PICK t \in BOOLEAN, f \in BOOLEAN : t = TRUE /\ t /\ f = FALSE /\ ~f
  BY Bools
<1> DEFINE R(h) == [x |-> p, w |-> MinWidth, hidden |-> h, minimized |-> f, maximized |-> f,
                    focused |-> f, dirty |-> t, rx |-> 0, rw |-> 0]
<1>2. Windows!Fresh(p) = R(f)
  BY <1>1, Zenon DEF Windows!Fresh
<1>3. [R(f) EXCEPT !.hidden = t] = R(t)
  OBVIOUS
<1>4. Windows!Hidden(p) = R(t)
  BY <1>1, <1>2, <1>3, Zenon DEF Windows!Hidden
<1>5. MinWidth \in Int
  BY WindowsAssumption
<1>6. ASSUME NEW h \in BOOLEAN
      PROVE  /\ R(h) \in WinRecords /\ R(h).x = p /\ R(h).w = MinWidth
             /\ R(h).hidden = h /\ R(h).minimized = f /\ R(h).focused = f /\ R(h).maximized = f
  BY <1>5 DEF WinRecords
<1> HIDE DEF R
<1>7. ASSUME NEW h \in BOOLEAN PROVE R(h) \in GoodWins
  BY <1>1, <1>5, <1>6 DEF GoodWins, WinFits
<1> QED BY <1>1, <1>2, <1>4, <1>6, <1>7

LEMMA CreateIs ==
    ASSUME NEW d \in DeskRecords, OrderedOnce(d), NEW a \in Apps, a \notin Windows!Created(d)
    PROVE  LET e == Windows!Create(d, a, 0)
           IN  /\ e \in DeskRecords /\ OrderedOnce(e) /\ AsOpen(d, e) /\ e.scene = d.scene
               /\ Windows!Created(e) = Windows!Created(d) \cup {a}
               /\ ~e.win[a].hidden /\ Windows!Visible(e, a) /\ Kept(d, e)
               /\ \A u \in Windows!Windows : u # a => e.win[u] = d.win[u]
<1> DEFINE v == Windows!Fresh(0)
           f == Windows!Put(d, a, v)
           o == Append(d.order, a)
           g == [f EXCEPT !.order = o]
           e == Windows!Create(d, a, 0)
<1>1. a \in Windows!Windows /\ d.order \in Seq(Windows!Windows)
      /\ Windows!Created(d) \subseteq Windows!Windows
  BY DeskIs DEF Windows!Windows
<1>2. MinWidth \in Int /\ Screen \in Int /\ MinWidth <= Screen
  BY WindowsAssumption
<1>3. v \in GoodWins /\ ~v.hidden /\ ~v.minimized
  BY <1>2, FreshIs
<1>4. PICK z \in Int : e = Windows!MoveTo(g, a, z)
  <2>1. e = Windows!MoveTo(g, a, 0) /\ 0 \in Int
    BY DEF Windows!Create
  <2> QED BY <2>1, Zenon
<1>5. /\ o \in Seq(Windows!Windows) /\ Len(d.order) \in Nat /\ DOMAIN o = 1 .. Len(d.order) + 1
      /\ DOMAIN d.order = 1 .. Len(d.order)
      /\ \A i \in 1 .. Len(d.order) : o[i] = d.order[i]
      /\ o[Len(d.order) + 1] = a
  BY <1>1
<1>6. \A i \in DOMAIN d.order : d.order[i] # a
  BY DeskIs
<1>7. \A i, j \in DOMAIN o : o[i] = o[j] => i = j
  <2> DEFINE n == Len(d.order)
  <2> HIDE DEF n, o
  <2>1. \A i \in 1 .. n + 1 : i \in 1 .. n \/ i = n + 1
    BY <1>5 DEF n
  <2>2. \A i, j \in 1 .. n : o[i] = o[j] => i = j
    BY <1>5 DEF OrderedOnce, n
  <2>3. \A i \in 1 .. n : o[i] # a /\ o[n + 1] = a
    BY <1>5, <1>6 DEF n
  <2>4. DOMAIN o = 1 .. n + 1
    BY <1>5 DEF n
  <2> QED BY <2>1, <2>2, <2>3, <2>4
<1>8. Windows!Range(o) = Windows!Range(d.order) \cup {a}
  <2> DEFINE n == Len(d.order)
  <2>1. DOMAIN o = 1 .. n + 1 /\ DOMAIN d.order = 1 .. n /\ n \in Nat /\ o[n + 1] = a
        /\ \A i \in 1 .. n : o[i] = d.order[i]
    BY <1>5
  <2> HIDE DEF n, o
  <2>2. \A i \in 1 .. n + 1 : i \in 1 .. n \/ i = n + 1
    BY <2>1
  <2>3. \A i \in 1 .. n : i \in 1 .. n + 1
    BY <2>1
  <2>4. n + 1 \in 1 .. n + 1
    BY <2>1
  <2> QED BY <2>1, <2>2, <2>3, <2>4 DEF Windows!Range
<1> HIDE DEF v, f, o, g, e
<1>9. /\ f \in DeskRecords /\ f.order = d.order /\ f.open = d.open
      /\ f.twice = d.twice /\ f.scene = d.scene
      /\ f.win[a] = v /\ \A u \in Windows!Windows : u # a => f.win[u] = d.win[u]
  BY <1>1, <1>3, PutIs DEF f
<1>10. /\ g \in DeskRecords /\ g.order = o /\ g.win = f.win /\ g.open = f.open
       /\ g.twice = f.twice /\ g.scene = f.scene
  BY <1>5, <1>9 DEF DeskRecords, g
<1>11. /\ e \in DeskRecords /\ Alike(g, e) /\ AsOpen(g, e) /\ e.scene = g.scene
       /\ \A u \in Windows!Windows : u # a => e.win[u] = g.win[u]
  BY <1>1, <1>4, <1>10, MoveToIs
<1>12. Windows!Created(g) = Windows!Created(d) \cup {a}
  BY <1>8, <1>10 DEF Windows!Created
<1>13. OrderedOnce(g)
  BY <1>7, <1>10 DEF OrderedOnce
<1>14. Windows!Created(e) = Windows!Created(d) \cup {a} /\ OrderedOnce(e)
  BY <1>10, <1>11, <1>12, <1>13, AlikeKept
<1>15. ~e.win[a].hidden /\ ~e.win[a].minimized
  BY <1>1, <1>3, <1>9, <1>10, <1>11 DEF Alike
<1>16. \A u \in Windows!Windows : u # a => e.win[u] = d.win[u]
  BY <1>9, <1>10, <1>11
<1>17. Kept(d, e)
  BY <1>1, <1>14, <1>15, <1>16 DEF Kept, Windows!Visible
<1>18. AsOpen(d, e) /\ e.scene = d.scene
  BY <1>9, <1>10, <1>11 DEF AsOpen
<1> QED BY <1>11, <1>14, <1>15, <1>16, <1>17, <1>18 DEF Windows!Visible, e

\* An application is started when its window is made or shown again.
LEMMA StartIs ==
    ASSUME NEW d \in DeskRecords, NEW a \in Apps
    PROVE  LET e == Windows!Start(d, a)
           IN  /\ e \in DeskRecords /\ e.win = d.win /\ e.order = d.order /\ e.scene = d.scene
               /\ e.open = d.open \cup {a} /\ (e.twice <=> d.twice \/ a \in d.open)
<1> DEFINE e == Windows!Start(d, a)
           o == d.open \cup {a}
<1>1. PICK c \in BOOLEAN : c = (d.twice \/ a \in d.open) /\ (c <=> d.twice \/ a \in d.open)
  BY Zenon
<1>2. e = [d EXCEPT !.open = o, !.twice = c]
  BY <1>1, Zenon DEF Windows!Start
<1>3. o \in SUBSET Apps
  BY DeskIs
<1> HIDE DEF o, e
<1>4. /\ e \in DeskRecords /\ e.win = d.win /\ e.order = d.order /\ e.scene = d.scene
      /\ e.open = o /\ e.twice = c
  BY <1>2, <1>3 DEF DeskRecords
<1> QED BY <1>1, <1>4 DEF o, e

\* What the window of an application becomes before it gets the focus.
Ready(d, a) ==
    IF a \notin Windows!Created(d) THEN Windows!Start(Windows!Create(d, a, 0), a)
    ELSE LET shows == Windows!Put(d, a, [d.win[a] EXCEPT !.hidden = FALSE, !.minimized = FALSE])
         IN  IF d.win[a].hidden THEN Windows!Start(shows, a) ELSE shows

LEMMA StartedIs ==
    ASSUME NEW d \in DeskRecords, NEW a \in Apps,
           NEW g \in DeskRecords, OrderedOnce(g),
           Windows!Created(g) = Windows!Created(d) \cup {a}, AsOpen(d, g),
           Windows!Visible(g, a), Kept(d, g), g.scene = d.scene,
           \A u \in Windows!Windows : u # a => g.win[u] = d.win[u],
           a \notin Windows!Created(d) \/ d.win[a].hidden,
           NEW e, e = Windows!Start(g, a)
    PROVE  /\ e \in DeskRecords /\ OrderedOnce(e) /\ a \in Windows!Created(e)
           /\ Windows!Visible(e, a) /\ Kept(d, e) /\ e.scene = d.scene
           /\ Paired(d) => Paired(e)
<1>1. a \in Windows!Windows /\ Windows!Created(d) \subseteq Windows!Windows
  BY DeskIs DEF Windows!Windows
<1>2. /\ e \in DeskRecords /\ e.win = g.win /\ e.order = g.order /\ e.scene = g.scene
      /\ e.open = g.open \cup {a} /\ (e.twice <=> g.twice \/ a \in g.open)
  BY StartIs
<1>3. Windows!Created(e) = Windows!Created(g) /\ OrderedOnce(e)
  BY <1>2 DEF Windows!Created, OrderedOnce
<1>4. Windows!Visible(e, a) /\ ~e.win[a].hidden
  BY <1>2 DEF Windows!Visible
<1>5. Kept(d, e)
  BY <1>2, <1>3 DEF Kept, Windows!Visible
<1>6. ASSUME Paired(d) PROVE Paired(e)
  <2>1. a \notin d.open
    BY <1>6 DEF Paired
  <2>2. ~e.twice
    BY <1>2, <1>6, <2>1 DEF Paired, AsOpen
  <2>3. {v \in Windows!Created(e) \cap Apps : ~e.win[v].hidden}
        = {v \in Windows!Created(d) \cap Apps : ~d.win[v].hidden} \cup {a}
    BY <1>1, <1>2, <1>3, <1>4
  <2> QED BY <1>2, <1>6, <2>2, <2>3 DEF Paired, AsOpen
<1> QED BY <1>2, <1>3, <1>4, <1>5, <1>6

LEMMA ReadyIs ==
    ASSUME NEW d \in DeskRecords, OrderedOnce(d), NEW a \in Apps
    PROVE  LET e == Ready(d, a)
           IN  /\ e \in DeskRecords /\ OrderedOnce(e) /\ a \in Windows!Created(e)
               /\ Windows!Visible(e, a) /\ Kept(d, e) /\ e.scene = d.scene
               /\ Paired(d) => Paired(e)
<1> DEFINE e == Ready(d, a)
<1>1. a \in Windows!Windows /\ Windows!Created(d) \subseteq Windows!Windows
  BY DeskIs DEF Windows!Windows
<1>3. CASE a \notin Windows!Created(d)
  <2> DEFINE g == Windows!Create(d, a, 0)
  <2>1. e = Windows!Start(g, a)
    BY <1>3 DEF Ready
  <2>2. /\ g \in DeskRecords /\ OrderedOnce(g) /\ AsOpen(d, g) /\ g.scene = d.scene
        /\ Windows!Created(g) = Windows!Created(d) \cup {a}
        /\ Windows!Visible(g, a) /\ Kept(d, g)
        /\ \A u \in Windows!Windows : u # a => g.win[u] = d.win[u]
    BY <1>3, CreateIs
  <2> HIDE DEF g, e
  <2> QED BY <1>3, <2>1, <2>2, StartedIs DEF e
<1> DEFINE shows == Windows!Put(d, a, [d.win[a] EXCEPT !.hidden = FALSE, !.minimized = FALSE])
<1>4. ASSUME a \in Windows!Created(d)
      PROVE  /\ shows \in DeskRecords /\ OrderedOnce(shows)
             /\ Windows!Created(shows) = Windows!Created(d)
             /\ Windows!Visible(shows, a) /\ Kept(d, shows) /\ shows.scene = d.scene
             /\ AsOpen(d, shows)
             /\ \A u \in Windows!Windows : u # a => shows.win[u] = d.win[u]
             /\ ~d.win[a].hidden => (Paired(d) => Paired(shows))
  BY Zenon, <1>4, ShowIs
<1>5. a \in Windows!Created(d) => e = (IF d.win[a].hidden THEN Windows!Start(shows, a) ELSE shows)
  BY Zenon DEF Ready
<1> HIDE DEF shows, e
<1>6. CASE a \in Windows!Created(d) /\ d.win[a].hidden
  <2>1. e = Windows!Start(shows, a)
    BY <1>5, <1>6
  <2>2. Windows!Created(shows) = Windows!Created(d) \cup {a}
    BY <1>4, <1>6
  <2> QED BY <1>4, <1>6, <2>1, <2>2, StartedIs DEF e
<1>7. CASE a \in Windows!Created(d) /\ ~d.win[a].hidden
  <2>1. e = shows
    BY <1>5, <1>7
  <2> QED BY <1>4, <1>7, <2>1 DEF e
<1> QED BY <1>3, <1>6, <1>7 DEF e

\* desktop_launch_app leaves the desktop sound, whether there is room for a
\* window or not.
LEMMA LaunchIs ==
    ASSUME NEW d, DeskSound(d), NEW a \in Apps
    PROVE  LET e == Windows!Launch(d, a)
           IN  /\ DeskSound(e) /\ Kept(d, e) /\ (d.scene => e.scene)
               /\ Paired(d) => Paired(e)
<1> DEFINE e == Windows!Launch(d, a)
           r == Ready(d, a)
           q == Windows!Dirty(r, a)
           b == [q EXCEPT !.bar = TRUE]
<1>1. d \in DeskRecords /\ OrderedOnce(d) /\ a \in Windows!Windows
  BY DEF DeskSound, Windows!Windows
<1>2. e = d \/ e = Windows!Focus(b, a)
  BY Zenon DEF Windows!Launch, Ready
<1>3. CASE e = d
  BY <1>3 DEF Kept
<1>4. CASE e = Windows!Focus(b, a)
  <2> HIDE DEF e, r
  <2>1. /\ r \in DeskRecords /\ OrderedOnce(r) /\ a \in Windows!Created(r)
        /\ Windows!Visible(r, a) /\ Kept(d, r) /\ r.scene = d.scene
        /\ Paired(d) => Paired(r)
    BY <1>1, ReadyIs DEF r
  <2>2. q \in DeskRecords /\ Alike(r, q) /\ AsOpen(r, q) /\ q.scene = r.scene
    BY <1>1, <2>1, DirtyIs
  <2> HIDE DEF q
  <2>3. PICK t \in BOOLEAN : t = TRUE
    OBVIOUS
  <2>4. b = [q EXCEPT !.bar = t]
    BY <2>3, Zenon
  <2>5. b \in DeskRecords /\ b.win = q.win /\ b.order = q.order /\ b.open = q.open
        /\ b.twice = q.twice /\ b.scene = q.scene
    BY Zenon, <2>2, <2>4, FlagsIs
  <2> HIDE DEF b
  <2>6. Alike(r, b) /\ AsOpen(r, b)
    BY <2>2, <2>5 DEF Alike, AsOpen
  <2>7. /\ Windows!Created(b) = Windows!Created(r) /\ Kept(r, b) /\ OrderedOnce(b)
        /\ Windows!Visible(b, a) /\ (Paired(r) => Paired(b))
    BY <1>1, <2>1, <2>5, <2>6, AlikeKept
  <2>8. DeskSound(e) /\ Refocused(b, e)
    BY <1>4, <2>1, <2>5, <2>7, FocusIs
  <2>9. Kept(b, e) /\ (Paired(b) => Paired(e))
    BY <2>5, <2>8, RefocusedKept DEF DeskSound
  <2>10. Kept(d, e)
    BY <2>1, <2>7, <2>9, KeptOn
  <2>11. d.scene => e.scene
    BY <2>1, <2>2, <2>5, <2>8 DEF Refocused
  <2> QED BY <2>1, <2>7, <2>8, <2>9, <2>10, <2>11 DEF e
<1> QED BY <1>2, <1>3, <1>4

LEMMA OpenIs ==
    ASSUME NEW d, DeskSound(d), NEW k \in Windows!Windows
    PROVE  LET e == Windows!Open(d, k)
           IN  DeskSound(e) /\ Kept(d, e) /\ (Paired(d) => Paired(e))
<1>1. CASE k \in Apps
  BY <1>1, LaunchIs DEF Windows!Open
<1>2. CASE k \notin Apps /\ k \in Windows!Created(d)
  <2> DEFINE r == Windows!Restore(d, k)
             e == Windows!Open(d, k)
  <2>1. e = Windows!Focus(r, k)
    BY <1>2 DEF Windows!Open
  <2>2. /\ r \in DeskRecords /\ OrderedOnce(r) /\ Windows!Created(r) = Windows!Created(d)
        /\ Windows!Visible(r, k) /\ Kept(d, r) /\ (Paired(d) => Paired(r))
    BY <1>2, RestoreIs DEF DeskSound
  <2> HIDE DEF r, e
  <2>3. DeskSound(e) /\ Refocused(r, e)
    BY <1>2, <2>1, <2>2, FocusIs
  <2>4. Kept(r, e) /\ (Paired(r) => Paired(e))
    BY <2>2, <2>3, RefocusedKept DEF DeskSound
  <2> QED BY <2>2, <2>3, <2>4, KeptOn DEF e
<1>3. CASE k \notin Apps /\ k \notin Windows!Created(d)
  <2>1. Windows!Open(d, k) = d
    BY <1>3 DEF Windows!Open
  <2> QED BY <2>1 DEF Kept
<1> QED BY <1>1, <1>2, <1>3

-----------------------------------------------------------------------------
(* The desktop begins. *)

LEMMA WinCardinality == \A S : Windows!Cardinality(S) = Cardinality(S)
BY DEF Windows!Cardinality, Cardinality

\* The windows of the desktop itself can be put in an order, each of them once.
LEMMA WinArranged ==
    ASSUME NEW S, IsFiniteSet(S)
    PROVE  LET s == Windows!InOrder(S)
           IN  s \in Seq(S) /\ \A i, j \in DOMAIN s : s[i] = s[j] => i = j
<1> DEFINE n == Cardinality(S)
           s == Windows!InOrder(S)
<1>1. n \in Nat
  BY FS_CardinalityType
<1>2. ExistsBijection(1 .. n, S)
  BY FS_CardinalityType
<1>3. \E f \in Windows!Bijection(1 .. n, S) : TRUE
  <2>1. PICK f \in Bijection(1 .. n, S) : TRUE
    BY <1>2 DEF ExistsBijection
  <2>2. f \in Windows!Bijection(1 .. n, S)
    BY <2>1 DEF Bijection, Injection, Surjection, IsInjective, Windows!Bijection,
       Windows!Injection, Windows!Surjection, Windows!IsInjective
  <2> QED BY <2>2
<1>4. Windows!Cardinality(S) = n
  BY WinCardinality
<1>5. s \in Windows!Bijection(1 .. n, S)
  BY Zenon, <1>3, <1>4 DEF Windows!InOrder
<1>6. s \in [1 .. n -> S] /\ Windows!IsInjective(s)
  BY <1>5 DEF Windows!Bijection, Windows!Injection
<1> HIDE DEF n, s
<1>7. s \in Seq(S)
  BY <1>1, <1>6
<1>8. \A i, j \in DOMAIN s : s[i] = s[j] => i = j
  BY <1>6 DEF Windows!IsInjective
<1> QED BY <1>7, <1>8 DEF s

\* The desktop as desktop_init makes it, before the application that greets.
Built(d, p) ==
    [Windows!Nothing EXCEPT
        !.win = [v \in Windows!Windows |-> Windows!Hidden(IF v \in Builtins THEN p ELSE 0)],
        !.order = Windows!InOrder(Builtins), !.open = d.open, !.twice = d.twice]

LEMMA BuiltIs ==
    ASSUME NEW d, d.open \in SUBSET Apps, d.twice \in BOOLEAN, NEW p \in Int, p = Screen - MinWidth
    PROVE  LET e == Built(d, p)
           IN  /\ DeskSound(e) /\ e.scene /\ AsOpen(d, e)
               /\ \A v \in Windows!Windows : e.win[v].hidden
<1> DEFINE h(v) == Windows!Hidden(IF v \in Builtins THEN p ELSE 0)
           F == [v \in Windows!Windows |-> h(v)]
           s == Windows!InOrder(Builtins)
           e == Built(d, p)
<1>1. MinWidth \in Int /\ Screen \in Int /\ 0 <= MinWidth /\ MinWidth <= Screen
  BY WindowsAssumption
<1>2. \A v \in Windows!Windows : h(v) \in GoodWins /\ h(v).hidden /\ ~h(v).focused
  <2> TAKE v \in Windows!Windows
  <2>1. PICK q \in Int : q = IF v \in Builtins THEN p ELSE 0
    OBVIOUS
  <2>2. 0 <= q /\ q + MinWidth <= Screen
    BY <1>1, <2>1
  <2>3. h(v) = Windows!Hidden(q)
    BY <2>1, Zenon
  <2> HIDE DEF h
  <2> QED BY <2>2, <2>3, FreshIs
<1> HIDE DEF h
<1>3. F \in [Windows!Windows -> GoodWins] /\ \A v \in Windows!Windows : F[v] = h(v)
  BY <1>2
<1>4. s \in Seq(Builtins) /\ \A i, j \in DOMAIN s : s[i] = s[j] => i = j
  BY WinArranged, WindowsAssumption
<1>5. s \in Seq(Windows!Windows)
  <2>1. Builtins \subseteq Windows!Windows
    BY DEF Windows!Windows
  <2> HIDE DEF s
  <2> QED BY <1>4, <2>1
<1>6. PICK t \in BOOLEAN, f \in BOOLEAN : t = TRUE /\ t /\ f = FALSE /\ ~f
  BY Bools
<1>7. e = [win |-> F, order |-> s, open |-> d.open, twice |-> d.twice, scene |-> t, bar |-> t]
  <2>1. \E W :
          Windows!Nothing = [win |-> W, order |-> <<>>, open |-> {}, twice |-> f, scene |-> t, bar |-> t]
    BY <1>6, Zenon DEF Windows!Nothing
  <2>2. PICK W :
          Windows!Nothing = [win |-> W, order |-> <<>>, open |-> {}, twice |-> f, scene |-> t, bar |-> t]
    BY <2>1
  <2>3. e = [Windows!Nothing EXCEPT !.win = F, !.order = s, !.open = d.open, !.twice = d.twice]
    BY Zenon DEF Built, h
  <2> HIDE DEF F, s, e
  <2> QED BY <2>2, <2>3
<1> HIDE DEF F, s, e
<1>8. /\ e \in DeskRecords /\ e.win = F /\ e.order = s /\ e.open = d.open /\ e.twice = d.twice
      /\ e.scene = t
  BY <1>3, <1>5, <1>7 DEF DeskRecords
<1>9. \A v \in Windows!Windows : e.win[v].hidden /\ ~e.win[v].focused
  BY <1>2, <1>3, <1>8
<1>10. OrderedOnce(e)
  BY <1>4, <1>8 DEF OrderedOnce
<1>11. Windows!Topmost(e, Windows!Windows) = None
  <2>1. \A v \in Windows!Windows : ~Windows!Visible(e, v)
    BY <1>9 DEF Windows!Visible
  <2>2. \A i \in DOMAIN e.order : e.order[i] \in Windows!Windows
    BY <1>5, <1>8
  <2> QED BY <1>8, <2>1, <2>2, TopmostIs
<1>12. {v \in Windows!Windows : e.win[v].focused} = {}
  BY <1>9
<1>13. TopFocused(e)
  BY <1>11, <1>12 DEF TopFocused
<1> QED BY <1>6, <1>8, <1>9, <1>10, <1>13 DEF DeskSound, AsOpen, e

\* The desktop begins sound, and with its applications paired if none was left
\* open.
LEMMA BeginIs ==
    ASSUME NEW d, d.open \in SUBSET Apps, d.twice \in BOOLEAN, NEW a \in Apps
    PROVE  LET e == Windows!Begin(d, a)
           IN  DeskSound(e) /\ e.scene /\ (d.open = {} /\ ~d.twice => Paired(e))
<1> DEFINE p == Screen - MinWidth
           b == Built(d, p)
           l == Windows!Launch(b, a)
           m == Windows!MoveTo(l, a, p \div 2)
           e == Windows!Begin(d, a)
<1>1. p \in Int /\ p \div 2 \in Int /\ a \in Windows!Windows
  BY WindowsAssumption DEF Windows!Windows
<1>2. e = Windows!Dirty(m, a)
  BY Zenon DEF Windows!Begin, Built
<1>3. /\ DeskSound(b) /\ b.scene /\ AsOpen(d, b)
      /\ \A v \in Windows!Windows : b.win[v].hidden
  BY <1>1, BuiltIs
<1> HIDE DEF b
<1>4. DeskSound(l) /\ (b.scene => l.scene) /\ (Paired(b) => Paired(l))
  BY <1>3, LaunchIs
<1> HIDE DEF l
<1>5. m \in DeskRecords /\ Alike(l, m) /\ AsOpen(l, m) /\ m.scene = l.scene
  <2>1. PICK q \in Int : q = p \div 2
    BY <1>1
  <2>2. l \in DeskRecords
    BY <1>4 DEF DeskSound
  <2> HIDE DEF m
  <2>3. m = Windows!MoveTo(l, a, q)
    BY <2>1, Zenon DEF m
  <2> QED BY <1>1, <2>2, <2>3, MoveToIs
<1> HIDE DEF m, e, p
<1>6. DeskSound(m) /\ (Paired(l) => Paired(m))
  BY <1>4, <1>5, AlikeSound
<1>7. e \in DeskRecords /\ Alike(m, e) /\ AsOpen(m, e) /\ e.scene = m.scene
  BY <1>1, <1>2, <1>5, DirtyIs
<1>8. DeskSound(e) /\ (Paired(m) => Paired(e))
  BY <1>6, <1>7, AlikeSound
<1>9. d.open = {} /\ ~d.twice => Paired(b)
  <2>1. Windows!Created(b) \subseteq Windows!Windows
    BY <1>3, DeskIs DEF DeskSound
  <2>2. {v \in Windows!Created(b) \cap Apps : ~b.win[v].hidden} = {}
    BY <1>3, <2>1
  <2> QED BY <1>3, <2>2 DEF Paired, AsOpen
<1> QED BY <1>3, <1>4, <1>5, <1>6, <1>7, <1>8, <1>9 DEF e

-----------------------------------------------------------------------------
(* The steps of the desktop. *)

\* A gesture is on a window that can still be used as it was begun.
GestureGood(g, d) ==
    /\ g.w \in Windows!Windows \cup {None} /\ g.at \in Int /\ g.x \in Int /\ g.size \in Int
    /\ g.kind = "task" =>
           g.w \in Windows!Created(d) /\ g.w \in Apps /\ ~d.win[g.w].hidden
    /\ g.kind \in {"close", "maximize", "minimize", "client", "move", "resize"} =>
           g.w \in Windows!Created(d) /\ Windows!Visible(d, g.w)
    /\ g.kind = "resize" => 0 <= g.x /\ MinWidth <= g.size /\ g.x + g.size <= Screen

\* What is proved of the desktop: the windows are sound, what changed will be
\* drawn, and the applications are those that have a window until the desktop
\* is left with one open.
WindowsInv ==
    /\ DeskSound(desk) /\ GestureGood(gesture, desk) /\ Windows!NothingStale
    /\ ~left => Paired(desk)
    /\ ~up => gesture.kind = "none"
    /\ ~up /\ ~left => desk.open = {}

LEMMA GestureKept ==
    ASSUME NEW d, NEW e, NEW g, Kept(d, e), GestureGood(g, d)
    PROVE  GestureGood(g, e)
BY DEF Kept, GestureGood

\* No window is pressed.
LEMMA GestureNone ==
    ASSUME NEW d
    PROVE  /\ GestureGood(Windows!NoGesture, d) /\ Windows!NoGesture.kind = "none"
           /\ GestureGood([Windows!NoGesture EXCEPT !.kind = "nothing"], d)
           /\ GestureGood([Windows!NoGesture EXCEPT !.kind = "icon"], d)
BY DEF GestureGood, Windows!NoGesture

LEMMA GestureIs ==
    ASSUME NEW kind, NEW k, k # None, NEW p, NEW edge
    PROVE  LET g == Windows!Gesture(kind, k, p, edge)
           IN  /\ g.kind = kind /\ g.w = k /\ g.at = p
               /\ g.x = desk.win[k].x /\ g.size = desk.win[k].w
BY DEF Windows!Gesture

LEMMA AnyDirtyKept ==
    ASSUME NEW d \in DeskRecords, NEW e \in DeskRecords, Alike(d, e), AsDirty(d, e),
           Windows!AnyDirty(d)
    PROVE  Windows!AnyDirty(e)
<1>1. PICK k \in Windows!Created(d) : Windows!Visible(d, k) /\ d.win[k].dirty
  BY DEF Windows!AnyDirty
<1>2. k \in Windows!Windows /\ Windows!Created(e) = Windows!Created(d)
  BY DeskIs, AlikeKept
<1>3. Windows!Visible(e, k) /\ e.win[k].dirty
  BY <1>1, <1>2, AlikeKept DEF AsDirty
<1> QED BY <1>1, <1>2, <1>3 DEF Windows!AnyDirty

LEMMA DirtySeen ==
    ASSUME NEW d \in DeskRecords, NEW k \in Windows!Created(d), Windows!Visible(d, k)
    PROVE  Windows!AnyDirty(Windows!Dirty(d, k))
<1> DEFINE e == Windows!Dirty(d, k)
<1>1. k \in Windows!Windows
  BY DeskIs
<1>2. e \in DeskRecords /\ Alike(d, e) /\ e.win[k].dirty
  BY <1>1, DirtyIs
<1> HIDE DEF e
<1>3. k \in Windows!Created(e) /\ Windows!Visible(e, k)
  BY <1>1, <1>2, AlikeKept
<1>4. Windows!AnyDirty(e)
  BY <1>2, <1>3 DEF Windows!AnyDirty
<1> QED BY <1>4 DEF e

\* The flags that a step sets are enough for what it changed.
LEMMA BecomeKeeps ==
    ASSUME WindowsInv, NEW d, DeskSound(d), NEW s, NEW b, Windows!Become(d, s, b),
           Paired(desk) => Paired(d),
           ~up => gesture'.kind = "none" /\ d.open = desk.open,
           GestureGood(gesture', d),
           \/ s
           \/ Windows!AnyDirty(d)
           \/ /\ Windows!Shown(d) = Windows!Shown(desk) /\ menu' = menu
              /\ desk.scene => d.scene
              /\ Windows!AnyDirty(desk) => Windows!AnyDirty(d)
    PROVE  WindowsInv'
<1>1. d \in DeskRecords
  BY DEF DeskSound
<1>2. PICK t \in BOOLEAN : t = (d.scene \/ s) /\ (t <=> d.scene \/ s)
  BY Zenon
<1>3. PICK c \in BOOLEAN : c = (d.bar \/ b)
  BY Zenon
<1>4. desk' = [d EXCEPT !.scene = t, !.bar = c]
  BY <1>2, <1>3, Zenon DEF Windows!Become
<1>5. /\ desk' \in DeskRecords /\ desk'.win = d.win /\ desk'.order = d.order
      /\ desk'.open = d.open /\ desk'.twice = d.twice /\ desk'.scene = t
  BY <1>1, <1>4 DEF DeskRecords
<1>6. Alike(d, desk') /\ InPlace(d, desk') /\ AsOpen(d, desk') /\ AsDirty(d, desk')
  BY <1>2, <1>5 DEF Alike, InPlace, AsOpen, AsDirty
<1>7. DeskSound(desk') /\ Kept(d, desk') /\ (Paired(d) => Paired(desk'))
  BY <1>5, <1>6, AlikeSound
<1>8. Windows!Shown(desk') = Windows!Shown(d)
  BY <1>1, <1>5, <1>6, ShownSame
<1>9. /\ stale' = (stale \/ Windows!Shown(desk') # Windows!Shown(desk) \/ menu' # menu)
      /\ up' = up /\ left' = left
  BY Zenon DEF Windows!Become
<1>10. GestureGood(gesture', desk')
  BY <1>7, GestureKept
<1>11. Windows!AnyDirty(d) => Windows!AnyDirty(desk')
  BY <1>1, <1>5, <1>6, AnyDirtyKept
<1>12. Windows!NothingStale'
  <2> SUFFICES ASSUME up', stale' PROVE desk'.scene \/ Windows!AnyDirty(desk')
    BY DEF Windows!NothingStale, Windows!AnyDirty, Windows!Created, Windows!Visible
  <2>1. CASE s
    BY <1>2, <1>5, <2>1
  <2>2. CASE Windows!AnyDirty(d)
    BY <1>11, <2>2
  <2>3. CASE /\ Windows!Shown(d) = Windows!Shown(desk) /\ menu' = menu
             /\ desk.scene => d.scene
             /\ Windows!AnyDirty(desk) => Windows!AnyDirty(d)
    <3>1. up /\ stale
      BY <1>8, <1>9, <2>3
    <3>2. desk.scene \/ Windows!AnyDirty(desk)
      BY <3>1 DEF WindowsInv, Windows!NothingStale
    <3> QED BY <1>2, <1>5, <1>11, <2>3, <3>2
  <2> QED BY <2>1, <2>2, <2>3
<1>13. (~left => Paired(desk))'
  BY <1>7, <1>9 DEF WindowsInv
<1>14. (~up => gesture.kind = "none")' /\ (~up /\ ~left => desk.open = {})'
  BY <1>5, <1>9 DEF WindowsInv
<1>15. DeskSound(desk)' /\ GestureGood(gesture, desk)'
  BY <1>7, <1>10
<1> QED BY <1>12, <1>13, <1>14, <1>15 DEF WindowsInv

\* A step that draws, or asks to be drawn, and has no new gesture.
LEMMA SameDesk ==
    ASSUME WindowsInv
    PROVE  desk \in DeskRecords /\ DeskSound(desk) /\ Alike(desk, desk) /\ Kept(desk, desk)
BY DEF WindowsInv, DeskSound, Alike, Kept

LEMMA UnderIs ==
    ASSUME desk \in DeskRecords, NEW p, Windows!Under(desk, p) # None
    PROVE  /\ Windows!Under(desk, p) \in Windows!Created(desk)
           /\ Windows!Under(desk, p) \in Windows!Windows
           /\ Windows!Visible(desk, Windows!Under(desk, p))
<1> DEFINE S == {v \in Windows!Windows : p \in desk.win[v].x .. desk.win[v].x + desk.win[v].w - 1}
           t == Windows!Under(desk, p)
<1>1. t = Windows!Topmost(desk, S)
  BY DEF Windows!Under
<1> HIDE DEF S, t
<1>2. t # None
  BY DEF t
<1>3. \E i \in DOMAIN desk.order : t = desk.order[i] /\ Windows!Visible(desk, t)
  BY <1>1, <1>2, TopmostIs
<1>4. t \in Windows!Created(desk) /\ t \in Windows!Windows /\ Windows!Visible(desk, t)
  BY <1>3, DeskIs
<1> QED BY <1>4 DEF t

\* A window whose hover states may have changed is drawn again.
LEMMA HoveredIs ==
    ASSUME desk \in DeskRecords, NEW p, NEW d \in Windows!Hovered(p)
    PROVE  d \in DeskRecords /\ Alike(desk, d) /\ InPlace(desk, d) /\ AsDirty(desk, d)
           /\ AsOpen(desk, d)
<1> DEFINE k == Windows!Under(desk, p)
<1>1. d = desk \/ (k \in Apps /\ d = Windows!Dirty(desk, k))
  BY DEF Windows!Hovered
<1>2. CASE d = desk
  BY <1>2 DEF Alike, InPlace, AsDirty, AsOpen
<1>3. CASE k \in Apps /\ d = Windows!Dirty(desk, k)
  <2>1. k \in Windows!Windows
    BY <1>3 DEF Windows!Windows
  <2> HIDE DEF k
  <2> QED BY <1>3, <2>1, DirtyIs
<1> QED BY <1>1, <1>2, <1>3

LEMMA MenuChooseKeeps ==
    ASSUME WindowsInv, Windows!MenuChoose
    PROVE  WindowsInv'
<1>1. PICK k \in Windows!Windows \cup {None} :
          Windows!Become(IF k = None THEN desk ELSE Windows!Open(desk, k), TRUE, TRUE)
  BY DEF Windows!MenuChoose
<1> DEFINE d == IF k = None THEN desk ELSE Windows!Open(desk, k)
<1>2. DeskSound(d) /\ Kept(desk, d) /\ (Paired(desk) => Paired(d))
  <2>1. CASE k = None
    BY <2>1, SameDesk
  <2>2. CASE k # None
    BY <1>1, <2>2, SameDesk, OpenIs
  <2> QED BY <2>1, <2>2
<1> HIDE DEF d
<1>3. PICK s \in BOOLEAN : s /\ s = TRUE
  OBVIOUS
<1>4. Windows!Become(d, s, s)
  BY <1>1, <1>3, Zenon DEF d
<1>5. up /\ gesture' = [Windows!NoGesture EXCEPT !.kind = "nothing"]
  BY DEF Windows!MenuChoose, Windows!Press, Windows!Idle
<1>6. GestureGood(gesture', d)
  BY <1>5, GestureNone
<1> QED BY <1>2, <1>3, <1>4, <1>5, <1>6, BecomeKeeps

LEMMA PressStartKeeps ==
    ASSUME WindowsInv, Windows!PressStart
    PROVE  WindowsInv'
<1>1. PICK s \in BOOLEAN : s /\ s = TRUE
  OBVIOUS
<1>2. Windows!Become(desk, s, s) /\ up /\ gesture' = [Windows!NoGesture EXCEPT !.kind = "nothing"]
  BY <1>1, Zenon DEF Windows!PressStart, Windows!Press, Windows!Idle
<1>3. GestureGood(gesture', desk)
  BY <1>2, GestureNone
<1> QED BY <1>1, <1>2, <1>3, SameDesk, BecomeKeeps

LEMMA PressTaskbarKeeps ==
    ASSUME WindowsInv, Windows!PressTaskbar
    PROVE  WindowsInv'
<1>1. PICK f \in BOOLEAN : ~f /\ f = FALSE
  OBVIOUS
<1>2. Windows!Become(desk, f, f) /\ up /\ menu' = menu
  BY <1>1, Zenon DEF Windows!PressTaskbar, Windows!Press, Windows!Idle
<1>3. PICK k \in Windows!Created(desk) \cap Apps :
          ~desk.win[k].hidden /\ gesture' = Windows!Gesture("task", k, 0, "none")
  BY DEF Windows!PressTaskbar
<1>4. PICK z \in Int : gesture' = Windows!Gesture("task", k, z, "none")
  <2>1. 0 \in Int
    OBVIOUS
  <2> QED BY <1>3, <2>1, Zenon
<1>5. k # None /\ k \in Windows!Windows
  BY <1>3, WindowsAssumption DEF Windows!Windows
<1>6. /\ gesture'.kind = "task" /\ gesture'.w = k /\ gesture'.at = z
      /\ gesture'.x = desk.win[k].x /\ gesture'.size = desk.win[k].w
  BY <1>4, <1>5, GestureIs
<1>7. desk.win[k].x \in Int /\ desk.win[k].w \in Int
  BY <1>5, SameDesk, DeskIs DEF GoodWins, WinRecords
<1>8. GestureGood(gesture', desk)
  BY <1>3, <1>5, <1>6, <1>7 DEF GestureGood
<1> QED BY <1>1, <1>2, <1>8, SameDesk, BecomeKeeps

LEMMA PressDesktopKeeps ==
    ASSUME WindowsInv, Windows!PressDesktop
    PROVE  WindowsInv'
<1>1. PICK s \in BOOLEAN, f \in BOOLEAN : s = TRUE /\ s /\ f = FALSE /\ ~f
  BY Bools
<1>2. Windows!Become(desk, s, f) /\ up /\ gesture' = [Windows!NoGesture EXCEPT !.kind = "icon"]
  BY <1>1, Zenon DEF Windows!PressDesktop, Windows!Press, Windows!Idle
<1>3. GestureGood(gesture', desk)
  BY <1>2, GestureNone
<1> QED BY <1>1, <1>2, <1>3, SameDesk, BecomeKeeps

LEMMA HoverKeeps ==
    ASSUME WindowsInv, Windows!Hover
    PROVE  WindowsInv'
<1>1. PICK p \in Windows!Columns : \E d \in Windows!Hovered(p) : Windows!Become(d, FALSE, menu)
  BY DEF Windows!Hover
<1>2. PICK d \in Windows!Hovered(p) : Windows!Become(d, FALSE, menu)
  BY <1>1
<1>3. d \in DeskRecords /\ Alike(desk, d) /\ InPlace(desk, d) /\ AsDirty(desk, d) /\ AsOpen(desk, d)
  BY SameDesk, HoveredIs
<1>4. DeskSound(d) /\ Kept(desk, d) /\ (Paired(desk) => Paired(d))
  BY <1>3, SameDesk, AlikeSound
<1>5. Windows!Shown(d) = Windows!Shown(desk)
  BY <1>3, SameDesk, ShownSame
<1>6. Windows!AnyDirty(desk) => Windows!AnyDirty(d)
  BY <1>3, SameDesk, AnyDirtyKept
<1>7. up /\ gesture' = gesture /\ menu' = menu
  BY DEF Windows!Hover, Windows!Idle
<1>8. GestureGood(gesture', d)
  BY <1>4, <1>7, GestureKept DEF WindowsInv
<1>9. desk.scene => d.scene
  BY <1>3 DEF AsDirty
<1>10. PICK f \in BOOLEAN : f = FALSE
  OBVIOUS
<1>11. Windows!Become(d, f, menu)
  BY <1>2, <1>10, Zenon
<1> QED BY <1>4, <1>5, <1>6, <1>7, <1>8, <1>9, <1>11, BecomeKeeps

LEMMA RedrawKeeps ==
    ASSUME WindowsInv, Windows!Redraw
    PROVE  WindowsInv'
<1>1. PICK k \in Windows!Created(desk) :
          \E s \in BOOLEAN : Windows!Become(Windows!Dirty(desk, k), s, TRUE)
  BY DEF Windows!Redraw
<1>2. PICK s \in BOOLEAN : Windows!Become(Windows!Dirty(desk, k), s, TRUE)
  BY <1>1
<1> DEFINE d == Windows!Dirty(desk, k)
<1>3. d \in DeskRecords /\ Alike(desk, d) /\ InPlace(desk, d) /\ AsDirty(desk, d) /\ AsOpen(desk, d)
  BY SameDesk, DeskIs, DirtyIs
<1> HIDE DEF d
<1>4. DeskSound(d) /\ Kept(desk, d) /\ (Paired(desk) => Paired(d))
  BY <1>3, SameDesk, AlikeSound
<1>5. Windows!Shown(d) = Windows!Shown(desk)
  BY <1>3, SameDesk, ShownSame
<1>6. Windows!AnyDirty(desk) => Windows!AnyDirty(d)
  BY <1>3, SameDesk, AnyDirtyKept
<1>7. up /\ gesture' = gesture /\ menu' = menu
  BY DEF Windows!Redraw
<1>8. GestureGood(gesture', d)
  BY <1>4, <1>7, GestureKept DEF WindowsInv
<1>9. desk.scene => d.scene
  BY <1>3 DEF AsDirty
<1>10. PICK t \in BOOLEAN : t = TRUE
  OBVIOUS
<1>11. Windows!Become(d, s, t)
  BY <1>2, <1>10, Zenon DEF d
<1> QED BY <1>4, <1>5, <1>6, <1>7, <1>8, <1>9, <1>11, BecomeKeeps

\* What a key opens is in front of the window that is drawn again for it.
LEMMA KeyKeeps ==
    ASSUME WindowsInv, Windows!Key
    PROVE  WindowsInv'
<1> DEFINE S == {v \in Windows!Windows : desk.win[v].focused}
           k == Windows!Topmost(desk, S)
<1>1. up /\ gesture' = gesture /\ k # None
  BY DEF Windows!Key
<1>2. PICK d : /\ d = desk \/ (\E a \in Apps : d = Windows!Launch(desk, a))
               /\ Windows!Become(Windows!Dirty(d, k), FALSE, FALSE)
  BY DEF Windows!Key
<1>3. k \in Windows!Created(desk) /\ Windows!Visible(desk, k) /\ k \in Windows!Windows
  <2> HIDE DEF S
  <2>1. \E i \in DOMAIN desk.order : k = desk.order[i] /\ Windows!Visible(desk, k)
    BY <1>1, SameDesk, TopmostIs
  <2> QED BY <2>1, SameDesk, DeskIs
<1> HIDE DEF k
<1>4. DeskSound(d) /\ Kept(desk, d) /\ (Paired(desk) => Paired(d))
  BY <1>2, SameDesk, LaunchIs
<1>5. d \in DeskRecords /\ k \in Windows!Created(d) /\ Windows!Visible(d, k)
  BY <1>3, <1>4 DEF DeskSound, Kept
<1> DEFINE e == Windows!Dirty(d, k)
<1>6. e \in DeskRecords /\ Alike(d, e) /\ AsOpen(d, e)
  BY <1>3, <1>5, DirtyIs
<1>7. Windows!AnyDirty(e)
  BY <1>5, DirtySeen
<1> HIDE DEF e
<1>8. DeskSound(e) /\ Kept(d, e) /\ (Paired(d) => Paired(e))
  BY <1>4, <1>6, AlikeSound
<1>9. Kept(desk, e)
  BY <1>4, <1>8, KeptOn
<1>10. GestureGood(gesture', e)
  BY <1>1, <1>9, GestureKept DEF WindowsInv
<1>11. PICK f \in BOOLEAN : f = FALSE
  OBVIOUS
<1>12. Windows!Become(e, f, f)
  BY <1>2, <1>11, Zenon DEF e
<1> QED BY <1>1, <1>4, <1>7, <1>8, <1>10, <1>12, BecomeKeeps

\* A window that is pressed comes to the front, and what its application opens
\* before it.
LEMMA PressedIs ==
    ASSUME WindowsInv, NEW h \in DeskRecords, Alike(desk, h), AsOpen(desk, h),
           NEW k \in Windows!Created(desk), Windows!Visible(desk, k),
           NEW d, d = Windows!Focus(h, k) \/ \E a \in Apps : d = Windows!Launch(Windows!Focus(h, k), a),
           NEW e, e = d \/ e = Windows!Dirty(d, k)
    PROVE  DeskSound(e) /\ Kept(desk, e) /\ (Paired(desk) => Paired(e))
<1> DEFINE g == Windows!Focus(h, k)
<1>1. desk \in DeskRecords /\ DeskSound(desk) /\ k \in Windows!Windows
  BY SameDesk, DeskIs
<1>2. DeskSound(h) /\ Kept(desk, h) /\ (Paired(desk) => Paired(h))
  BY <1>1, AlikeSound
<1>3. k \in Windows!Created(h) /\ Windows!Visible(h, k)
  BY <1>2 DEF Kept
<1>4. DeskSound(g) /\ Refocused(h, g)
  BY <1>2, <1>3, FocusIs DEF DeskSound
<1> HIDE DEF g
<1>5. Kept(h, g) /\ (Paired(h) => Paired(g))
  BY <1>4, RefocusedKept DEF DeskSound
<1>6. DeskSound(d) /\ Kept(g, d) /\ (Paired(g) => Paired(d))
  <2>1. CASE d = g
    BY <1>4, <2>1 DEF Kept
  <2>2. CASE \E a \in Apps : d = Windows!Launch(g, a)
    BY <1>4, <2>2, LaunchIs
  <2> QED BY <2>1, <2>2 DEF g
<1>7. DeskSound(e) /\ Kept(d, e) /\ (Paired(d) => Paired(e))
  <2>1. CASE e = d
    BY <1>6, <2>1 DEF Kept
  <2>2. CASE e = Windows!Dirty(d, k)
    <3>1. d \in DeskRecords
      BY <1>6 DEF DeskSound
    <3>2. e \in DeskRecords /\ Alike(d, e) /\ AsOpen(d, e)
      BY <1>1, <2>2, <3>1, DirtyIs
    <3> QED BY <1>6, <3>2, AlikeSound
  <2> QED BY <2>1, <2>2
<1>8. Kept(desk, g)
  BY <1>2, <1>5, KeptOn
<1>9. Kept(desk, d)
  BY <1>6, <1>8, KeptOn
<1>10. Kept(desk, e)
  BY <1>7, <1>9, KeptOn
<1> QED BY <1>2, <1>5, <1>6, <1>7, <1>10

LEMMA PartsIs ==
    ASSUME NEW k, NEW p, NEW q \in Windows!Parts(k, p)
    PROVE  q[1] # "task"
BY DEF Windows!Parts

LEMMA PressWindowKeeps ==
    ASSUME WindowsInv, Windows!PressWindow
    PROVE  WindowsInv'
<1>1. up /\ menu' = menu
  BY DEF Windows!PressWindow, Windows!Press, Windows!Idle
<1>2. PICK p \in Windows!Columns :
          /\ Windows!Under(desk, p) # None
          /\ \E q \in Windows!Parts(Windows!Under(desk, p), p), h \in Windows!Hovered(p) :
                 /\ gesture' = Windows!Gesture(q[1], Windows!Under(desk, p), p, q[2])
                 /\ \E d \in {Windows!Focus(h, Windows!Under(desk, p))} \cup
                             (IF q[1] = "client" /\ Windows!Under(desk, p) \in Launchers
                              THEN {Windows!Launch(Windows!Focus(h, Windows!Under(desk, p)), a) : a \in Apps}
                              ELSE {}) :
                        Windows!Become(IF q[1] = "client" /\ Windows!Under(desk, p) \in Apps
                                       THEN Windows!Dirty(d, Windows!Under(desk, p)) ELSE d, TRUE, FALSE)
  BY Zenon DEF Windows!PressWindow
<1> DEFINE k == Windows!Under(desk, p)
<1>3. k \in Windows!Created(desk) /\ k \in Windows!Windows /\ Windows!Visible(desk, k) /\ k # None
  BY <1>2, SameDesk, UnderIs
<1> HIDE DEF k
<1>4. PICK q \in Windows!Parts(k, p), h \in Windows!Hovered(p) :
          /\ gesture' = Windows!Gesture(q[1], k, p, q[2])
          /\ \E d \in {Windows!Focus(h, k)} \cup
                      (IF q[1] = "client" /\ k \in Launchers
                       THEN {Windows!Launch(Windows!Focus(h, k), a) : a \in Apps} ELSE {}) :
                 Windows!Become(IF q[1] = "client" /\ k \in Apps THEN Windows!Dirty(d, k) ELSE d,
                                TRUE, FALSE)
  BY <1>2, Zenon DEF k
<1>5. PICK d : /\ d = Windows!Focus(h, k) \/ \E a \in Apps : d = Windows!Launch(Windows!Focus(h, k), a)
               /\ Windows!Become(IF q[1] = "client" /\ k \in Apps THEN Windows!Dirty(d, k) ELSE d,
                                 TRUE, FALSE)
  BY <1>4
<1>6. PICK s \in BOOLEAN, f \in BOOLEAN : s = TRUE /\ s /\ f = FALSE /\ ~f
  BY Bools
<1>7. PICK e : (e = d \/ e = Windows!Dirty(d, k)) /\ Windows!Become(e, s, f)
  <2> DEFINE e == IF q[1] = "client" /\ k \in Apps THEN Windows!Dirty(d, k) ELSE d
  <2>1. e = d \/ e = Windows!Dirty(d, k)
    OBVIOUS
  <2> HIDE DEF e
  <2>2. Windows!Become(e, s, f)
    BY <1>5, <1>6, Zenon DEF e
  <2> QED BY <2>1, <2>2
<1>8. h \in DeskRecords /\ Alike(desk, h) /\ AsOpen(desk, h)
  BY SameDesk, HoveredIs
<1>9. DeskSound(e) /\ Kept(desk, e) /\ (Paired(desk) => Paired(e))
  BY <1>3, <1>5, <1>7, <1>8, PressedIs
<1>10. /\ gesture'.kind = q[1] /\ gesture'.w = k /\ gesture'.at = p
       /\ gesture'.x = desk.win[k].x /\ gesture'.size = desk.win[k].w
  BY <1>3, <1>4, GestureIs
<1>11. desk.win[k] \in GoodWins
  BY <1>3, SameDesk, DeskIs
<1>12. /\ desk.win[k].x \in Int /\ desk.win[k].w \in Int
       /\ 0 <= desk.win[k].x /\ MinWidth <= desk.win[k].w
       /\ desk.win[k].x + desk.win[k].w <= Screen
  BY <1>11 DEF GoodWins, WinRecords, WinFits
<1>13. k \in Windows!Created(e) /\ Windows!Visible(e, k)
  BY <1>3, <1>9 DEF Kept
<1>14. p \in Int /\ q[1] # "task"
  BY PartsIs DEF Windows!Columns
<1>15. GestureGood(gesture', e)
  BY <1>3, <1>10, <1>12, <1>13, <1>14 DEF GestureGood
<1> QED BY <1>1, <1>6, <1>7, <1>9, <1>15, BecomeKeeps

\* An edge that is dragged leaves the window on the screen and wide enough.
LEMMA ResizedIs ==
    ASSUME NEW p \in Int, NEW q \in Int, NEW edge, NEW dx \in Int,
           0 <= p, MinWidth <= q, p + q <= Screen
    PROVE  LET r == Windows!Resized([x |-> p, w |-> q, edge |-> edge], dx)
           IN  r.x \in Int /\ r.w \in Int /\ 0 <= r.x /\ MinWidth <= r.w /\ r.x + r.w <= Screen
<1>1. MinWidth \in Int /\ Screen \in Int /\ 0 <= MinWidth /\ MinWidth <= Screen
  BY WindowsAssumption
<1> DEFINE fit(i, j) == LET v == IF j > Screen - i THEN Screen - i ELSE j
                        IN  [x |-> i, w |-> IF v < MinWidth THEN MinWidth ELSE v]
           fits(r) == r.x \in Int /\ r.w \in Int /\ 0 <= r.x /\ MinWidth <= r.w /\ r.x + r.w <= Screen
           end == p + q
           pos == IF q - dx < MinWidth THEN end - MinWidth ELSE p + dx
           r == Windows!Resized([x |-> p, w |-> q, edge |-> edge], dx)
<1>2. \A i, j \in Int : 0 <= i /\ i + MinWidth <= Screen => fits(fit(i, j))
  BY <1>1
<1>3. r = IF edge = "right" THEN fit(p, q + dx)
          ELSE IF pos < 0 THEN fit(0, end) ELSE fit(pos, end - pos)
  BY DEF Windows!Resized
<1>4. pos \in Int /\ (~(pos < 0) => pos + MinWidth <= Screen /\ 0 <= pos)
  BY <1>1
<1>5. q + dx \in Int /\ end \in Int /\ end - pos \in Int /\ p + MinWidth <= Screen
  BY <1>1, <1>4
<1>6. fits(fit(p, q + dx))
  <2> HIDE DEF fit, fits
  <2> QED BY <1>2, <1>5
<1>7. fits(fit(0, end))
  <2>1. \A z \in Int : z = 0 => 0 <= z /\ z + MinWidth <= Screen
    BY <1>1
  <2>2. 0 \in Int
    OBVIOUS
  <2> HIDE DEF fit, fits, end
  <2> QED BY <1>2, <1>5, <2>1, <2>2
<1>8. ~(pos < 0) => fits(fit(pos, end - pos))
  <2> HIDE DEF fit, fits, pos, end
  <2> QED BY <1>2, <1>4, <1>5
<1>9. fits(r)
  <2> HIDE DEF fit, fits, r, pos
  <2> QED BY <1>3, <1>6, <1>7, <1>8
<1> QED BY <1>9

Stretching(v, p, q, t) == [v EXCEPT !.x = p, !.w = q, !.dirty = t]
Stretched(d, k, p, q) ==
    Windows!Put(d, k, [d.win[k] EXCEPT !.x = p, !.w = q, !.dirty = TRUE])

LEMMA StretchIs ==
    ASSUME NEW d \in DeskRecords, NEW k \in Windows!Windows, NEW p \in Int, NEW q \in Int,
           0 <= p, MinWidth <= q, p + q <= Screen
    PROVE  LET e == Stretched(d, k, p, q)
           IN  /\ e \in DeskRecords /\ Alike(d, e) /\ AsDirty(d, e) /\ AsOpen(d, e)
               /\ \A u \in Windows!Windows : u # k => e.win[u] = d.win[u]
<1>1. PICK t \in BOOLEAN : t = TRUE /\ t
  OBVIOUS
<1> DEFINE v == Stretching(d.win[k], p, q, t)
           e == Stretched(d, k, p, q)
<1>2. d.win[k] \in WinRecords /\ WinFits(d.win[k])
  BY DeskIs DEF GoodWins
<1>3. /\ v \in WinRecords /\ v.hidden = d.win[k].hidden /\ v.minimized = d.win[k].minimized
      /\ v.focused = d.win[k].focused /\ v.dirty = t /\ v.x = p /\ v.w = q
      /\ v.rx = d.win[k].rx /\ v.rw = d.win[k].rw /\ v.maximized = d.win[k].maximized
  BY <1>2 DEF WinRecords, Stretching
<1>4. e = Windows!Put(d, k, v)
  BY <1>1, Zenon DEF Stretching, Stretched
<1> HIDE DEF v, e
<1>5. v \in GoodWins
  BY <1>2, <1>3 DEF GoodWins, WinFits
<1>6. /\ e \in DeskRecords /\ e.order = d.order /\ e.open = d.open
      /\ e.twice = d.twice /\ e.scene = d.scene
      /\ e.win[k] = v /\ \A u \in Windows!Windows : u # k => e.win[u] = d.win[u]
  BY <1>4, <1>5, PutIs
<1>7. Alike(d, e)
  BY <1>3, <1>6 DEF Alike
<1>8. AsDirty(d, e) /\ AsOpen(d, e)
  BY <1>1, <1>3, <1>6 DEF AsDirty, AsOpen
<1> QED BY <1>6, <1>7, <1>8 DEF e

LEMMA DragKeeps ==
    ASSUME WindowsInv, Windows!Drag
    PROVE  WindowsInv'
<1> DEFINE k == gesture.w
           R(p) == Windows!Resized([x |-> gesture.x, w |-> gesture.size, edge |-> gesture.edge],
                                   p - gesture.at)
           D(p) == IF gesture.kind = "move" THEN Windows!MoveTo(desk, k, p - (gesture.at - gesture.x))
                   ELSE Windows!Put(desk, k,
                            [desk.win[k] EXCEPT !.x = R(p).x, !.w = R(p).w, !.dirty = TRUE])
<1>1. /\ up /\ gesture.kind \in {"resize", "move"} /\ gesture' = gesture /\ menu' = menu
  BY Zenon DEF Windows!Drag
<1>2. PICK p \in Windows!Columns :
          Windows!Become(D(p), D(p).win[k].x # desk.win[k].x \/ D(p).win[k].w # desk.win[k].w, FALSE)
  BY Zenon DEF Windows!Drag
<1>3. p \in Int /\ k \in Windows!Created(desk) /\ k \in Windows!Windows
  BY <1>1, SameDesk, DeskIs DEF WindowsInv, GestureGood, Windows!Columns
<1>4. gesture.at \in Int /\ gesture.x \in Int /\ gesture.size \in Int
  BY DEF WindowsInv, GestureGood
<1> DEFINE d == D(p)
<1>5. /\ d \in DeskRecords /\ Alike(desk, d) /\ AsDirty(desk, d) /\ AsOpen(desk, d)
      /\ \A u \in Windows!Windows : u # k => d.win[u] = desk.win[u]
  <2>1. CASE gesture.kind = "move"
    <3>1. PICK m \in Int : m = p - (gesture.at - gesture.x)
      BY <1>3, <1>4
    <3>2. d = Windows!MoveTo(desk, k, m)
      BY <2>1, <3>1, Zenon
    <3> HIDE DEF d, k
    <3> QED BY <1>3, <3>2, SameDesk, MoveToIs
  <2>2. CASE gesture.kind = "resize"
    <3>1. 0 <= gesture.x /\ MinWidth <= gesture.size /\ gesture.x + gesture.size <= Screen
      BY <2>2 DEF WindowsInv, GestureGood
    <3>2. p - gesture.at \in Int
      BY <1>3, <1>4
    <3> DEFINE r == R(p)
    <3>3. r.x \in Int /\ r.w \in Int /\ 0 <= r.x /\ MinWidth <= r.w /\ r.x + r.w <= Screen
      BY <1>4, <3>1, <3>2, ResizedIs
    <3>4. d = Stretched(desk, k, r.x, r.w)
      BY <2>2, Zenon DEF Stretched
    <3> HIDE DEF d, k, r
    <3>5. PICK i \in Int, j \in Int : i = r.x /\ j = r.w
      BY <3>3
    <3>6. d = Stretched(desk, k, i, j)
      BY <3>4, <3>5, Zenon
    <3>7. 0 <= i /\ MinWidth <= j /\ i + j <= Screen
      BY <3>3, <3>5
    <3> QED BY <1>3, <3>6, <3>7, SameDesk, StretchIs
  <2> QED BY Zenon, <1>1, <2>1, <2>2
<1> HIDE DEF d, k
<1>6. PICK s : /\ s = (d.win[k].x # desk.win[k].x \/ d.win[k].w # desk.win[k].w)
               /\ s <=> d.win[k].x # desk.win[k].x \/ d.win[k].w # desk.win[k].w
  BY Zenon
<1>7. PICK f : f = FALSE
  OBVIOUS
<1>8. Windows!Become(d, s, f)
  BY <1>2, <1>6, <1>7, Zenon DEF d
<1>9. DeskSound(d) /\ Kept(desk, d) /\ (Paired(desk) => Paired(d))
  BY <1>5, SameDesk, AlikeSound
<1>10. GestureGood(gesture', d)
  BY <1>1, <1>9, GestureKept DEF WindowsInv
<1>11. s \/ Windows!Shown(d) = Windows!Shown(desk)
  <2> SUFFICES ASSUME ~s PROVE Windows!Shown(d) = Windows!Shown(desk)
    OBVIOUS
  <2>1. InPlace(desk, d)
    BY <1>5, <1>6 DEF InPlace
  <2> QED BY <1>5, <2>1, SameDesk, ShownSame
<1>12. Windows!AnyDirty(desk) => Windows!AnyDirty(d)
  BY <1>5, SameDesk, AnyDirtyKept
<1>13. desk.scene => d.scene
  BY <1>5 DEF AsDirty
<1> QED BY <1>1, <1>8, <1>9, <1>10, <1>11, <1>12, <1>13, BecomeKeeps

LEMMA GestureWindow ==
    ASSUME WindowsInv,
           gesture.kind \in {"close", "maximize", "minimize"}
    PROVE  /\ gesture.w \in Windows!Created(desk) /\ gesture.w \in Windows!Windows
           /\ Windows!Visible(desk, gesture.w)
<1>1. gesture.w \in Windows!Created(desk) /\ Windows!Visible(desk, gesture.w)
  BY DEF WindowsInv, GestureGood
<1> QED BY <1>1, SameDesk, DeskIs

\* Whatever was pressed, letting go leaves the desktop sound.
LEMMA ReleasedIs ==
    ASSUME WindowsInv, NEW d \in Windows!Released(desk)
    PROVE  DeskSound(d) /\ (Paired(desk) => Paired(d))
<1> DEFINE k == gesture.w
<1>1. \/ d = desk
      \/ gesture.kind = "task" /\ d = Windows!Focus(Windows!Restore(desk, k), k)
      \/ gesture.kind = "close" /\ d = Windows!FocusTop(Windows!Close(desk, k))
      \/ gesture.kind = "maximize" /\ d = Windows!Focus(Windows!Maximize(desk, k), k)
      \/ gesture.kind = "minimize" /\ d = Windows!FocusTop(Windows!Minimize(desk, k))
      \/ \E v \in Windows!Windows : d = Windows!Open(desk, v)
  <2>1. CASE gesture.kind = "task"
    BY <2>1 DEF Windows!Released
  <2>2. CASE gesture.kind = "close"
    BY <2>2 DEF Windows!Released
  <2>3. CASE gesture.kind = "maximize"
    BY <2>3 DEF Windows!Released
  <2>4. CASE gesture.kind = "minimize"
    BY <2>4 DEF Windows!Released
  <2>5. CASE gesture.kind = "icon"
    BY <2>5 DEF Windows!Released
  <2>6. CASE gesture.kind \notin {"task", "close", "maximize", "minimize", "icon"}
    BY <2>6 DEF Windows!Released
  <2> QED BY <2>1, <2>2, <2>3, <2>4, <2>5, <2>6
<1>2. desk \in DeskRecords /\ OrderedOnce(desk) /\ DeskSound(desk)
  BY SameDesk DEF DeskSound
<1>3. CASE d = desk
  BY <1>2, <1>3
<1>4. CASE gesture.kind = "task" /\ d = Windows!Focus(Windows!Restore(desk, k), k)
  <2> DEFINE r == Windows!Restore(desk, k)
  <2>1. k \in Windows!Created(desk) /\ ~desk.win[k].hidden
    BY <1>4 DEF WindowsInv, GestureGood
  <2>2. /\ r \in DeskRecords /\ OrderedOnce(r) /\ k \in Windows!Created(r)
        /\ Windows!Visible(r, k) /\ (Paired(desk) => Paired(r))
    BY <1>2, <2>1, RestoreIs
  <2> HIDE DEF r, k
  <2>3. DeskSound(d) /\ Refocused(r, d)
    BY <1>4, <2>2, FocusIs DEF r
  <2> QED BY <2>2, <2>3, RefocusedKept DEF DeskSound
<1>5. CASE gesture.kind = "close" /\ d = Windows!FocusTop(Windows!Close(desk, k))
  <2> DEFINE r == Windows!Close(desk, k)
  <2>1. r \in DeskRecords /\ OrderedOnce(r) /\ (Paired(desk) => Paired(r))
    BY <1>2, <1>5, GestureWindow, CloseIs
  <2> HIDE DEF r, k
  <2>2. DeskSound(d) /\ Refocused(r, d)
    BY <1>5, <2>1, FocusTopIs DEF r
  <2> QED BY <2>1, <2>2, RefocusedKept DEF DeskSound
<1>6. CASE gesture.kind = "maximize" /\ d = Windows!Focus(Windows!Maximize(desk, k), k)
  <2> DEFINE r == Windows!Maximize(desk, k)
  <2>1. /\ r \in DeskRecords /\ OrderedOnce(r) /\ k \in Windows!Created(r)
        /\ Windows!Visible(r, k) /\ (Paired(desk) => Paired(r))
    BY <1>2, <1>6, GestureWindow, MaximizeIs
  <2> HIDE DEF r, k
  <2>2. DeskSound(d) /\ Refocused(r, d)
    BY <1>6, <2>1, FocusIs DEF r
  <2> QED BY <2>1, <2>2, RefocusedKept DEF DeskSound
<1>7. CASE gesture.kind = "minimize" /\ d = Windows!FocusTop(Windows!Minimize(desk, k))
  <2> DEFINE r == Windows!Minimize(desk, k)
  <2>1. r \in DeskRecords /\ OrderedOnce(r) /\ (Paired(desk) => Paired(r))
    BY <1>2, <1>7, GestureWindow, MinimizeIs DEF Windows!Visible
  <2> HIDE DEF r, k
  <2>2. DeskSound(d) /\ Refocused(r, d)
    BY <1>7, <2>1, FocusTopIs DEF r
  <2> QED BY <2>1, <2>2, RefocusedKept DEF DeskSound
<1>8. CASE \E v \in Windows!Windows : d = Windows!Open(desk, v)
  BY <1>2, <1>8, OpenIs
<1> QED BY <1>1, <1>3, <1>4, <1>5, <1>6, <1>7, <1>8

LEMMA ReleaseKeeps ==
    ASSUME WindowsInv, Windows!Release
    PROVE  WindowsInv'
<1>1. up /\ menu' = menu /\ gesture' = Windows!NoGesture
  BY DEF Windows!Release
<1>2. PICK d \in Windows!Released(desk) : Windows!Become(d, d # desk, d # desk)
  BY DEF Windows!Release
<1>3. DeskSound(d) /\ (Paired(desk) => Paired(d))
  BY ReleasedIs
<1>4. GestureGood(gesture', d)
  BY <1>1, GestureNone
<1>5. PICK s : s = (d # desk) /\ (s <=> d # desk)
  BY Zenon
<1>6. Windows!Become(d, s, s)
  BY <1>2, <1>5, Zenon
<1>7. s \/ /\ Windows!Shown(d) = Windows!Shown(desk) /\ menu' = menu
           /\ desk.scene => d.scene
           /\ Windows!AnyDirty(desk) => Windows!AnyDirty(d)
  BY <1>1, <1>5, Zenon
<1> QED BY <1>1, <1>3, <1>4, <1>6, <1>7, BecomeKeeps

\* What is drawn is no longer dirty, and nothing else changes.
DrawnWins(d, whole) ==
    [v \in Windows!Windows |->
        [d.win[v] EXCEPT !.dirty = @ /\ ~(whole /\ v \in Windows!Created(d) /\ Windows!Visible(d, v))]]

LEMMA DrawnIs ==
    ASSUME NEW d \in DeskRecords, NEW whole
    PROVE  LET F == DrawnWins(d, whole)
           IN  /\ F \in [Windows!Windows -> GoodWins]
               /\ \A v \in Windows!Windows :
                      /\ F[v].hidden = d.win[v].hidden /\ F[v].minimized = d.win[v].minimized
                      /\ F[v].focused = d.win[v].focused
<1> DEFINE P(v) == whole /\ v \in Windows!Created(d) /\ Windows!Visible(d, v)
           g(v) == [d.win[v] EXCEPT !.dirty = @ /\ ~P(v)]
           F == [v \in Windows!Windows |-> g(v)]
<1>1. ASSUME NEW v \in Windows!Windows
      PROVE  /\ g(v) \in GoodWins /\ g(v).hidden = d.win[v].hidden
             /\ g(v).minimized = d.win[v].minimized /\ g(v).focused = d.win[v].focused
  <2>1. PICK t \in BOOLEAN : t = (d.win[v].dirty /\ ~P(v))
    BY Zenon
  <2>2. d.win[v] \in GoodWins
    BY DeskIs
  <2> DEFINE r == Dirtied(d.win[v], t)
  <2>3. g(v) = r
    BY <2>1, Zenon DEF Dirtied
  <2>4. /\ r \in GoodWins /\ r.hidden = d.win[v].hidden /\ r.minimized = d.win[v].minimized
        /\ r.focused = d.win[v].focused
    BY <2>2, WinDirty
  <2> HIDE DEF r, g
  <2> QED BY <2>3, <2>4
<1> HIDE DEF g
<1>2. F \in [Windows!Windows -> GoodWins] /\ \A v \in Windows!Windows : F[v] = g(v)
  BY <1>1
<1>3. DrawnWins(d, whole) = F
  BY Zenon DEF DrawnWins, g, P
<1> HIDE DEF F
<1>4. \A v \in Windows!Windows :
          /\ F[v].hidden = d.win[v].hidden /\ F[v].minimized = d.win[v].minimized
          /\ F[v].focused = d.win[v].focused
  BY <1>1, <1>2
<1> QED BY <1>2, <1>3, <1>4

LEMMA DrawKeeps ==
    ASSUME WindowsInv, Windows!Draw
    PROVE  WindowsInv'
<1> DEFINE whole == desk.scene \/ Windows!AnyDirty(desk)
           F == DrawnWins(desk, whole)
<1>1. /\ desk' = [desk EXCEPT !.scene = FALSE, !.bar = FALSE, !.win = F]
      /\ stale' = (stale /\ ~whole)
      /\ up /\ up' = up /\ left' = left /\ gesture' = gesture
  BY Zenon DEF Windows!Draw, DrawnWins
<1>2. desk \in DeskRecords
  BY SameDesk
<1>3. /\ F \in [Windows!Windows -> GoodWins]
      /\ \A v \in Windows!Windows :
             /\ F[v].hidden = desk.win[v].hidden /\ F[v].minimized = desk.win[v].minimized
             /\ F[v].focused = desk.win[v].focused
  BY <1>2, DrawnIs
<1>4. PICK f \in BOOLEAN : f = FALSE
  OBVIOUS
<1> HIDE DEF F
<1>5. desk' = [desk EXCEPT !.scene = f, !.bar = f, !.win = F]
  BY <1>1, <1>4, Zenon
<1>6. /\ desk' \in DeskRecords /\ desk'.order = desk.order /\ desk'.open = desk.open
      /\ desk'.twice = desk.twice /\ desk'.win = F
  BY <1>2, <1>3, <1>5 DEF DeskRecords
<1>7. Alike(desk, desk') /\ AsOpen(desk, desk')
  BY <1>3, <1>6 DEF Alike, AsOpen
<1>8. DeskSound(desk') /\ Kept(desk, desk') /\ (Paired(desk) => Paired(desk'))
  BY <1>6, <1>7, SameDesk, AlikeSound
<1>9. GestureGood(gesture', desk')
  BY <1>1, <1>8, GestureKept DEF WindowsInv
<1>10. ~stale'
  <2>1. stale => whole
    BY <1>1 DEF WindowsInv, Windows!NothingStale
  <2> HIDE DEF whole
  <2> QED BY <1>1, <2>1
<1>11. Windows!NothingStale'
  BY <1>10 DEF Windows!NothingStale
<1>12. (~left => Paired(desk))'
  BY <1>1, <1>8 DEF WindowsInv
<1>13. DeskSound(desk)' /\ GestureGood(gesture, desk)'
  BY <1>8, <1>9
<1> QED BY <1>1, <1>11, <1>12, <1>13 DEF WindowsInv

\* The desktop is left with the applications that have a window, and begins anew
\* with new windows.
LEMMA LeaveKeeps ==
    ASSUME WindowsInv, Windows!Leave
    PROVE  WindowsInv'
<1>1. /\ ~up' /\ gesture' = gesture /\ gesture.kind = "none" /\ desk' = desk
      /\ left' = (left \/ desk.open # {})
  BY DEF Windows!Leave, Windows!Idle
<1>2. Windows!NothingStale'
  BY <1>1 DEF Windows!NothingStale
<1>3. DeskSound(desk)' /\ GestureGood(gesture, desk)' /\ (~left => Paired(desk))'
  BY <1>1 DEF WindowsInv
<1>4. (~up => gesture.kind = "none")' /\ (~up /\ ~left => desk.open = {})'
  BY <1>1
<1> QED BY <1>2, <1>3, <1>4 DEF WindowsInv

LEMMA EnterKeeps ==
    ASSUME WindowsInv, Windows!Enter
    PROVE  WindowsInv'
<1>1. ~up /\ up' /\ gesture' = gesture /\ left' = left
  BY DEF Windows!Enter
<1>2. PICK a \in Apps : desk' = Windows!Begin(desk, a)
  BY DEF Windows!Enter
<1>3. desk.open \in SUBSET Apps /\ desk.twice \in BOOLEAN
  BY SameDesk, DeskIs
<1>4. DeskSound(desk') /\ desk'.scene /\ (desk.open = {} /\ ~desk.twice => Paired(desk'))
  BY <1>2, <1>3, BeginIs
<1>5. gesture.kind = "none"
  BY <1>1 DEF WindowsInv
<1>6. GestureGood(gesture', desk')
  BY <1>1, <1>5 DEF WindowsInv, GestureGood
<1>7. (~left => Paired(desk))'
  BY <1>1, <1>4 DEF WindowsInv, Paired
<1>8. Windows!NothingStale'
  BY <1>4 DEF Windows!NothingStale
<1>9. DeskSound(desk)' /\ GestureGood(gesture, desk)'
  BY <1>4, <1>6
<1> QED BY <1>1, <1>7, <1>8, <1>9 DEF WindowsInv

LEMMA WindowsStart == Windows!Init => WindowsInv
<1> SUFFICES ASSUME Windows!Init PROVE WindowsInv
  OBVIOUS
<1>1. PICK a \in Apps : desk = Windows!Begin(Windows!Nothing, a)
  BY DEF Windows!Init
<1>2. /\ Windows!Nothing.open \in SUBSET Apps /\ Windows!Nothing.open = {}
      /\ Windows!Nothing.twice \in BOOLEAN /\ ~Windows!Nothing.twice
  <2>1. PICK t \in BOOLEAN, f \in BOOLEAN : t = TRUE /\ t /\ f = FALSE /\ ~f
    BY Bools
  <2>2. \E W :
          Windows!Nothing = [win |-> W, order |-> <<>>, open |-> {}, twice |-> f, scene |-> t, bar |-> t]
    BY <2>1, Zenon DEF Windows!Nothing
  <2> QED BY <2>1, <2>2
<1>3. DeskSound(desk) /\ desk.scene /\ Paired(desk)
  BY <1>1, <1>2, BeginIs
<1>4. up /\ gesture = Windows!NoGesture
  BY DEF Windows!Init
<1>5. GestureGood(gesture, desk)
  BY <1>4, GestureNone
<1> QED BY <1>3, <1>4, <1>5 DEF WindowsInv, Windows!NothingStale

LEMMA WindowsStep == WindowsInv /\ Windows!Next => WindowsInv'
BY MenuChooseKeeps, PressStartKeeps, PressTaskbarKeeps, PressWindowKeeps, PressDesktopKeeps,
   DragKeeps, HoverKeeps, ReleaseKeeps, KeyKeeps, RedrawKeeps, DrawKeeps, LeaveKeeps, EnterKeeps
   DEF Windows!Next

LEMMA WindowsUnchanged == WindowsInv /\ UNCHANGED windowsVars => WindowsInv'
<1> SUFFICES ASSUME WindowsInv, UNCHANGED windowsVars PROVE WindowsInv'
  OBVIOUS
<1>1. desk' = desk /\ gesture' = gesture /\ up' = up /\ stale' = stale /\ left' = left
  BY DEF windowsVars
<1>2. Windows!NothingStale'
  BY <1>1 DEF WindowsInv, Windows!NothingStale, Windows!AnyDirty, Windows!Created, Windows!Visible
<1> QED BY <1>1, <1>2 DEF WindowsInv

LEMMA WindowsImplies == WindowsInv => Windows!TypeOK /\ Windows!WindowsSound
<1> SUFFICES ASSUME WindowsInv PROVE Windows!TypeOK /\ Windows!WindowsSound
  OBVIOUS
<1>1. desk \in DeskRecords /\ OrderedOnce(desk) /\ TopFocused(desk)
  BY DEF WindowsInv, DeskSound
<1>2. Windows!Created(desk) \subseteq Windows!Windows /\ desk.open \subseteq Apps
  BY <1>1, DeskIs
<1>3. ASSUME NEW v \in Windows!Windows
      PROVE  /\ desk.win[v].x \in 0 .. Screen /\ desk.win[v].w \in 0 .. Screen
             /\ desk.win[v].w >= MinWidth /\ desk.win[v].x + desk.win[v].w <= Screen
  <2>1. desk.win[v] \in GoodWins
    BY <1>1, DeskIs
  <2> QED BY <2>1, WindowsAssumption DEF GoodWins, WinRecords, WinFits
<1>4. Windows!TypeOK
  BY <1>2, <1>3 DEF Windows!TypeOK, WindowsInv, GestureGood
<1>5. Windows!OnScreen
  BY <1>2, <1>3 DEF Windows!OnScreen
<1>6. Windows!FocusedOnTop
  BY <1>1 DEF Windows!FocusedOnTop, OrderedOnce, TopFocused
<1>7. Windows!AppsPaired /\ Windows!NothingStale
  BY DEF Windows!AppsPaired, Paired, WindowsInv
<1> QED BY <1>4, <1>5, <1>6, <1>7 DEF Windows!WindowsSound

-----------------------------------------------------------------------------
(* The screen: the proof about Compositor, for the variables of Display.      *)

Proved ==
    INSTANCE CompositorProofs WITH Width <- ScreenWidth, content <- picture, pc <- drawing

LEMMA DisplayStart == Display!Init => Proved!IInv
<1>1. Display!Init => Proved!Init
  BY Zenon DEF Display!Init, Proved!Init, Display!Columns, Proved!Columns, Display!Text, Proved!Text
<1> QED BY <1>1, Proved!InitInv

LEMMA DisplayStep == Proved!IInv /\ Display!Next => Proved!IInv'
<1>1. Display!Next => Proved!Next
  BY Zenon DEF Display!Next, Proved!Next, Display!Start, Proved!Start, Display!Enter, Proved!Enter,
     Display!Events, Proved!Events, Display!Timed, Proved!Timed, Display!Erase, Proved!Erase,
     Display!Draw, Proved!Draw, Display!Finish, Proved!Finish, Display!Wait, Proved!Wait,
     Display!Leave, Proved!Leave, Display!Paint, Proved!Paint, Display!Mark, Proved!Mark,
     Display!Span, Proved!Span, Display!Sprite, Proved!Sprite, Display!Erased, Proved!Erased,
     Display!DrawCursor, Proved!DrawCursor, Display!Present, Proved!Present,
     Display!Marked, Proved!Marked, Display!Changed, Proved!Changed,
     Display!Columns, Proved!Columns, Display!Taskbar, Proved!Taskbar,
     Display!Text, Proved!Text, Display!Cursor, Proved!Cursor
<1> QED BY <1>1, Proved!NextInv

LEMMA DisplayUnchanged == Proved!IInv /\ UNCHANGED displayVars => Proved!IInv'
<1>1. UNCHANGED displayVars => UNCHANGED Proved!vars
  BY DEF displayVars, Proved!vars
<1> QED BY <1>1, Proved!NextInv

LEMMA DisplayImplies == Proved!IInv => Display!ScreenTrue
<1>1. Proved!ScreenTrue => Display!ScreenTrue
  BY Zenon DEF Proved!ScreenTrue, Display!ScreenTrue, Display!Columns, Proved!Columns,
     Display!Sprite, Proved!Sprite, Display!Cursor, Proved!Cursor
<1> QED BY <1>1, Proved!WaitShows

(* Notepad and Files: whose text is where.                                    *)

\* A finite set can be put in an order.
LEMMA Arranged ==
    ASSUME NEW S, IsFiniteSet(S)
    PROVE  \E f \in [1 .. Cardinality(S) -> S] :
               /\ \A i, j \in 1 .. Cardinality(S) : f[i] = f[j] => i = j
               /\ \A e \in S : \E i \in 1 .. Cardinality(S) : f[i] = e
<1>1. Cardinality(S) \in Nat /\ ExistsBijection(1 .. Cardinality(S), S)
  BY FS_CardinalityType
<1>2. PICK f \in Bijection(1 .. Cardinality(S), S) : TRUE
  BY <1>1 DEF ExistsBijection
<1> QED BY <1>2 DEF Bijection, Injection, Surjection, IsInjective

LEMMA DocsCardinality == \A S : Docs!Cardinality(S) = Cardinality(S)
BY DEF Docs!Cardinality, Cardinality

LEMMA DocsArranged ==
    ASSUME NEW S, IsFiniteSet(S)
    PROVE  Docs!SetToSeq(S) \in Seq(S) /\ Len(Docs!SetToSeq(S)) = Cardinality(S)
<1> DEFINE n == Cardinality(S)
<1>1. n \in Nat
  BY FS_CardinalityType
<1>2. \E f \in [1 .. n -> S] : Docs!IsInjective(f)
  <2>1. PICK f \in [1 .. n -> S] : \A i, j \in 1 .. n : f[i] = f[j] => i = j
    BY Arranged
  <2>2. DOMAIN f = 1 .. n
    BY <2>1
  <2> QED BY <2>1, <2>2 DEF Docs!IsInjective
<1>3. Docs!SetToSeq(S) \in [1 .. n -> S]
  BY <1>2, DocsCardinality DEF Docs!SetToSeq
<1> HIDE DEF n
<1>4. \A f \in [1 .. n -> S] : f \in Seq(S) /\ Len(f) = n
  BY <1>1
<1> QED BY <1>3, <1>4 DEF n

Texts == Seq(Docs!Paths \cup {Typed})
Stored == Seq(Docs!Paths)
Entered == Seq(Docs!Paths \cup {Folder})
NoteRecords(T) ==
    [open : BOOLEAN, text : T, path : Docs!Paths \cup {None}, dirty : BOOLEAN, prompt : BOOLEAN]
FilesRecords(E) == [cwd : {Home, Folder}, prev : {Home, Folder}, entries : E, selected : Nat]

NoteTyped(n) == n \in NoteRecords(Texts) /\ Len(n.text) <= MaxText

\* The row that is selected is one of the entries.
RowKept(f) ==
    /\ f \in FilesRecords(Entered)
    /\ f.selected <= Len(f.entries)
    /\ f.entries # <<>> => f.selected # 0

\* The files that a path finds, and the one of them that it leads to.
Finds(stored, titles, p) ==
    {q \in Docs!Paths : stored[q] # None /\ p \in {titles[q], Docs!Form(q)}}
Lead(stored, places, titles, p) ==
    LET found == Finds(stored, titles, p)
    IN  IF found = {} THEN None
        ELSE CHOOSE q \in found : \A r \in found : places[q] <= places[r]

\* Each entry of the home directory has a place of its own, and goes by its own
\* name or one that was left behind.
PlacesKept(stored, places, titles) ==
    /\ places \in [Docs!Paths -> Nat] /\ titles \in [Docs!Paths -> Docs!Paths]
    /\ \A q \in Docs!Paths : titles[q] = q \/ (q \in {Welcome, Plain} /\ titles[q] \in Numbered)
    /\ \A q, r \in Docs!Paths \ {Inner} :
          stored[q] # None /\ stored[r] # None /\ places[q] = places[r] => q = r

Owned(t, S) == \A i \in DOMAIN t : t[i] \in S

\* A text that is not modified is what its path leads to.
Held(n, lead, stored, other) ==
    n.path # None /\ ~n.dirty /\ ~other =>
        lead # None /\ n.text = Docs!First(stored[lead], MaxText)

\* A text is of one file, and typed, or of one directory once a path has led to
\* another file.
Owners(p, across) == IF across /\ p # Inner THEN Docs!Paths \ {Inner} ELSE {p}
Own(n, across) ==
    Owned(n.text, {Typed} \cup (IF n.path = None THEN {} ELSE Owners(n.path, across)))
FilesApart(stored, across) ==
    \A p \in Docs!Paths : stored[p] # None => Owned(stored[p], Owners(p, across))

DocsTypes ==
    /\ files \in [Docs!Paths -> Stored \cup {None}] /\ PlacesKept(files, slot, goes)
    /\ NoteTyped(note) /\ RowKept(fm)
DocsInv ==
    /\ DocsTypes
    /\ ~torn => /\ Held(note, Lead(files, slot, goes, note.path), files, foreign)
                /\ Own(note, crossed) /\ FilesApart(files, crossed)

LEMMA DocsConstants ==
    /\ MaxText \in Nat /\ None \notin Docs!Paths /\ Folder \notin Docs!Paths /\ None \notin Texts
    /\ \A u \in Numbered : u \in Docs!Paths
    /\ Welcome \in Docs!Paths /\ Inner \in Docs!Paths /\ Plain \in Docs!Paths
    /\ Typed \notin Docs!Paths /\ IsFiniteSet(Docs!Paths \cup {Folder})
    /\ Stored \subseteq Texts /\ None \notin Stored /\ MaxTexts \in Nat
<1>1. IsFiniteSet(Docs!Paths \cup {Folder})
  <2>1. /\ IsFiniteSet({Welcome}) /\ IsFiniteSet({Inner}) /\ IsFiniteSet({Plain})
        /\ IsFiniteSet({Folder}) /\ IsFiniteSet(Numbered)
    BY DocumentsAssumption, FS_Singleton
  <2>2. IsFiniteSet({Plain} \cup Numbered) /\ IsFiniteSet({Inner} \cup {Folder})
    BY <2>1, FS_Union
  <2>3. IsFiniteSet({Welcome} \cup ({Inner} \cup {Folder}))
    BY <2>1, <2>2, FS_Union
  <2>4. IsFiniteSet(({Welcome} \cup ({Inner} \cup {Folder})) \cup ({Plain} \cup Numbered))
    BY <2>2, <2>3, FS_Union
  <2>5. ({Welcome} \cup ({Inner} \cup {Folder})) \cup ({Plain} \cup Numbered) = Docs!Paths \cup {Folder}
    BY DEF Docs!Paths, Docs!Untitled
  <2> QED BY <2>4, <2>5
<1>2. TextPaths = Docs!Paths
  BY DEF TextPaths, Docs!Paths, Docs!Untitled
<1>3. None \notin Texts
  BY <1>2, DocumentsAssumption DEF Texts
<1>4. Stored \subseteq Texts
  BY DEF Stored, Texts
<1> QED BY <1>1, <1>2, <1>3, <1>4, DocumentsAssumption DEF Docs!Paths, Docs!Untitled

\* The 8.3 forms of the names.
LEMMA FormIs ==
    ASSUME NEW q \in Docs!Paths
    PROVE  /\ Docs!Form(q) \in Docs!Paths
           /\ q \in Numbered => Docs!Form(q) = Plain /\ Docs!Form(q) # Inner
           /\ q \notin Numbered => Docs!Form(q) = q
           /\ q \in {Welcome, Plain, Inner} => q \notin Numbered
BY DocsConstants, DocumentsAssumption DEF Docs!Form

\* The file that a path leads to is the first of those it finds, and only the
\* text in the folder is found by its path.
LEMMA LeadIs ==
    ASSUME NEW stored, NEW places, NEW titles, PlacesKept(stored, places, titles), NEW p
    PROVE  LET l == Lead(stored, places, titles, p)
               found == Finds(stored, titles, p)
           IN  /\ found = {} => l = None
               /\ found # {} => l \in found /\ \A r \in found : places[l] <= places[r]
               /\ \A q \in found : q \in Docs!Paths /\ (q = Inner <=> p = Inner)
               /\ \A q \in found : (\A r \in found : places[q] <= places[r]) => q = l
               /\ p \notin Docs!Paths => found = {}
               /\ p \in Docs!Paths /\ stored[p] # None => p \in found
<1> DEFINE l == Lead(stored, places, titles, p)
           found == Finds(stored, titles, p)
<1>1. \A q \in found : /\ q \in Docs!Paths /\ stored[q] # None /\ p \in Docs!Paths
                       /\ q = Inner <=> p = Inner
  <2> SUFFICES ASSUME NEW q \in found
               PROVE  /\ q \in Docs!Paths /\ stored[q] # None /\ p \in Docs!Paths
                      /\ q = Inner <=> p = Inner
    OBVIOUS
  <2>1. q \in Docs!Paths /\ stored[q] # None /\ (p = titles[q] \/ p = Docs!Form(q))
    BY DEF Finds
  <2>2. titles[q] \in Docs!Paths /\ (titles[q] = q \/ (q \in {Welcome, Plain} /\ titles[q] \in Numbered))
    BY <2>1 DEF PlacesKept
  <2>3. Inner \notin Numbered /\ Inner \notin {Welcome, Plain}
    BY DocumentsAssumption
  <2> QED BY <2>1, <2>2, <2>3, FormIs
<1>2. found = {} => l = None
  BY DEF Lead
<1>3. ASSUME found # {} PROVE l \in found /\ \A r \in found : places[l] <= places[r]
  <2> DEFINE S == {places[q] : q \in found}
  <2>1. S \in SUBSET Nat /\ S # {}
    BY <1>1, <1>3 DEF PlacesKept
  <2>2. PICK i \in S : \A j \in S : i <= j
    BY <2>1, LeastIndex
  <2>3. PICK q \in found : i = places[q]
    BY <2>2
  <2>4. \A r \in found : places[q] <= places[r]
    BY <2>2, <2>3
  <2>5. l = CHOOSE y \in found : \A r \in found : places[y] <= places[r]
    BY <1>3 DEF Lead
  <2> HIDE DEF l, found
  <2> QED BY <2>3, <2>4, <2>5
<1>4. ASSUME NEW q \in found, \A r \in found : places[q] <= places[r]
      PROVE  q = l
  <2>1. l \in found /\ places[l] <= places[q] /\ places[q] <= places[l]
    BY <1>3, <1>4
  <2>2. places[l] \in Nat /\ places[q] \in Nat
    BY <1>1, <2>1 DEF PlacesKept
  <2>3. places[l] = places[q]
    BY <2>1, <2>2
  <2>4. CASE p = Inner
    BY <1>1, <2>1, <2>4
  <2>5. CASE p # Inner
    BY <1>1, <2>1, <2>3, <2>5 DEF PlacesKept
  <2> QED BY <2>4, <2>5
<1>5. ASSUME p \in Docs!Paths, stored[p] # None PROVE p \in found
  <2>1. titles[p] = p \/ p \in {Welcome, Plain}
    BY <1>5 DEF PlacesKept
  <2>2. p = titles[p] \/ p = Docs!Form(p)
    BY <1>5, <2>1, FormIs
  <2> QED BY <1>5, <2>2 DEF Finds
<1>6. p \notin Docs!Paths => found = {}
  BY <1>1
<1> HIDE DEF l, found
<1> QED BY <1>1, <1>2, <1>3, <1>4, <1>5, <1>6 DEF l, found

LEMMA LeadsAre == \A p : Docs!Leads(p) = Lead(files, slot, goes, p) /\ Docs!Matches(p) = Finds(files, goes, p)
<1> SUFFICES ASSUME NEW p
             PROVE  Docs!Leads(p) = Lead(files, slot, goes, p) /\ Docs!Matches(p) = Finds(files, goes, p)
  OBVIOUS
<1>1. Docs!Matches(p) = Finds(files, goes, p)
  BY DEF Docs!Matches, Finds, Docs!Stored
<1>2. Docs!Leads(p) = Lead(files, slot, goes, p)
  BY DEF Docs!Leads, Lead, Docs!Matches, Finds, Docs!Stored
<1> QED BY <1>1, <1>2

\* What a path leads to, for a file that is there.
LEMMA ExistsIs ==
    ASSUME DocsTypes, NEW p, Docs!Exists(p)
    PROVE  /\ Docs!Leads(p) \in Docs!Paths /\ files[Docs!Leads(p)] \in Stored
           /\ Docs!Leads(p) = Lead(files, slot, goes, p) /\ p \in Docs!Paths
           /\ Docs!Leads(p) # p => Docs!Leads(p) # Inner /\ p # Inner
<1>1. PlacesKept(files, slot, goes) /\ Docs!Leads(p) # None
  BY DEF DocsTypes, Docs!Exists
<1>2. /\ Docs!Leads(p) \in Finds(files, goes, p)
      /\ \A q \in Finds(files, goes, p) : q \in Docs!Paths /\ (q = Inner <=> p = Inner)
      /\ p \in Docs!Paths
  BY <1>1, LeadIs, LeadsAre
<1>3. Docs!Leads(p) \in Docs!Paths /\ files[Docs!Leads(p)] # None
  BY <1>2 DEF Finds
<1> QED BY <1>2, <1>3, LeadsAre DEF DocsTypes

\* Across files of the home directory everything is owned once a path has led
\* from one to another.
LEMMA OwnersAcross ==
    ASSUME NEW p \in Docs!Paths, NEW q \in Docs!Paths, q # p => p # Inner /\ q # Inner,
           NEW c, NEW d, c => d, q # p => d
    PROVE  Owners(q, c) \subseteq Owners(p, d) /\ p \in Owners(p, d)
BY DEF Owners

\* What is kept apart stays so when a path has led to another file.
LEMMA ApartMore ==
    ASSUME NEW stored, NEW n, n.path \in Docs!Paths \cup {None}, NEW c, NEW d, c => d
    PROVE  /\ FilesApart(stored, c) => FilesApart(stored, d)
           /\ Own(n, c) => Own(n, d)
<1>1. \A p \in Docs!Paths : Owners(p, c) \subseteq Owners(p, d)
  BY DEF Owners
<1>2. FilesApart(stored, c) => FilesApart(stored, d)
  BY <1>1 DEF FilesApart, Owned
<1>3. Own(n, c) => Own(n, d)
  BY <1>1 DEF Own, Owned
<1> QED BY <1>2, <1>3

\* The beginning of a text.
LEMMA FirstIs ==
    ASSUME NEW S, NEW t \in Seq(S), NEW n \in Nat
    PROVE  LET f == Docs!First(t, n)
           IN  /\ f \in Seq(S) /\ Len(f) <= n /\ Len(f) <= Len(t)
               /\ \A i \in DOMAIN f : i \in DOMAIN t /\ f[i] = t[i]
               /\ Len(t) <= n => f = t
<1> DEFINE m == IF Len(t) < n THEN Len(t) ELSE n
<1>1. m \in Nat /\ m <= n /\ m <= Len(t) /\ (Len(t) <= n => m = Len(t)) /\ Len(t) \in Nat
  OBVIOUS
<1>2. Docs!First(t, n) = SubSeq(t, 1, m)
  BY DEF Docs!First
<1> HIDE DEF m
<1>3. /\ SubSeq(t, 1, m) \in Seq(S) /\ Len(SubSeq(t, 1, m)) = m
      /\ \A i \in 1 .. m : SubSeq(t, 1, m)[i] = t[i]
  BY <1>1
<1>4. Len(t) <= n => SubSeq(t, 1, m) = t
  BY <1>1, <1>3
<1> QED BY <1>1, <1>2, <1>3, <1>4

\* A text without its last character.
LEMMA FrontIs ==
    ASSUME NEW S, NEW t \in Seq(S), t # <<>>
    PROVE  LET f == Docs!Front(t)
           IN  f \in Seq(S) /\ Len(f) <= Len(t) /\ \A i \in DOMAIN f : i \in DOMAIN t /\ f[i] = t[i]
<1> DEFINE m == Len(t) - 1
<1>1. m \in Nat /\ m <= Len(t) /\ Len(t) \in Nat
  OBVIOUS
<1>2. Docs!Front(t) = SubSeq(t, 1, m)
  BY DEF Docs!Front
<1> HIDE DEF m
<1>3. /\ SubSeq(t, 1, m) \in Seq(S) /\ Len(SubSeq(t, 1, m)) = m
      /\ \A i \in 1 .. m : SubSeq(t, 1, m)[i] = t[i]
  BY <1>1
<1> QED BY <1>1, <1>2, <1>3

\* A text as it is stored: what was typed is the path's.
LEMMA OwnIs ==
    ASSUME NEW t \in Texts, NEW p \in Docs!Paths
    PROVE  LET o == Docs!Own(t, p)
           IN  /\ o \in Stored /\ Len(o) = Len(t)
               /\ \A i \in DOMAIN o :
                     i \in DOMAIN t /\ (t[i] = Typed => o[i] = p) /\ (t[i] # Typed => o[i] = t[i])
<1> DEFINE o == [i \in 1 .. Len(t) |-> IF t[i] = Typed THEN p ELSE t[i]]
<1>1. DOMAIN t = 1 .. Len(t) /\ Len(t) \in Nat /\ \A i \in 1 .. Len(t) : t[i] \in Docs!Paths \cup {Typed}
  BY DEF Texts
<1>2. Docs!Own(t, p) = o
  BY <1>1 DEF Docs!Own
<1>3. o \in [1 .. Len(t) -> Docs!Paths]
  BY <1>1
<1>4. \A f \in [1 .. Len(t) -> Docs!Paths] : f \in Seq(Docs!Paths) /\ Len(f) = Len(t)
  BY <1>1
<1>5. DOMAIN o = 1 .. Len(t)
      /\ \A i \in 1 .. Len(t) : (t[i] = Typed => o[i] = p) /\ (t[i] # Typed => o[i] = t[i])
  OBVIOUS
<1> HIDE DEF o
<1> QED BY <1>1, <1>2, <1>3, <1>4, <1>5 DEF Stored

-----------------------------------------------------------------------------
(* Notepad's states. *)

LEMMA NoteEmptyIs ==
    \E a, c \in BOOLEAN :
        a /\ ~c /\ Docs!Empty = [open |-> a, text |-> <<>>, path |-> None, dirty |-> c, prompt |-> c]
<1>1. PICK a \in BOOLEAN : a = TRUE /\ a
  OBVIOUS
<1>2. PICK c \in BOOLEAN : c = FALSE /\ ~c
  OBVIOUS
<1>3. Docs!Empty = [open |-> a, text |-> <<>>, path |-> None, dirty |-> c, prompt |-> c]
  BY <1>1, <1>2, Zenon DEF Docs!Empty
<1> QED BY <1>1, <1>2, <1>3, Zenon

LEMMA EmptyKept ==
    ASSUME NEW b \in BOOLEAN
    PROVE  LET n == [Docs!Empty EXCEPT !.open = b]
           IN  /\ NoteTyped(n) /\ n.path = None
               /\ \A lead, stored, other, across : Held(n, lead, stored, other) /\ Own(n, across)
<1>1. <<>> \in Texts /\ Len(<<>>) = 0 /\ \A i \in DOMAIN <<>> : FALSE
  BY DEF Texts
<1> DEFINE n == [Docs!Empty EXCEPT !.open = b]
<1>2. PICK a \in BOOLEAN, c \in BOOLEAN : a /\ ~c
          /\ Docs!Empty = [open |-> a, text |-> <<>>, path |-> None, dirty |-> c, prompt |-> c]
  BY NoteEmptyIs
<1>3. n = [open |-> b, text |-> <<>>, path |-> None, dirty |-> c, prompt |-> c]
  BY <1>2
<1>4. /\ n \in NoteRecords(Texts)
      /\ n.text = <<>> /\ n.path = None
  BY <1>1, <1>3 DEF NoteRecords
<1> HIDE DEF n
<1>5. 0 <= MaxText
  BY DocsConstants
<1>6. NoteTyped(n)
  BY <1>1, <1>4, <1>5 DEF NoteTyped
<1>7. \A lead, stored, other, across : Held(n, lead, stored, other) /\ Own(n, across)
  BY <1>1, <1>4 DEF Held, Own, Owned
<1> QED BY <1>4, <1>6, <1>7 DEF n

LEMMA EmptyIsKept ==
    /\ NoteTyped(Docs!Empty) /\ Docs!Empty.path = None
    /\ \A lead, stored, other, across : Held(Docs!Empty, lead, stored, other) /\ Own(Docs!Empty, across)
<1>1. PICK b, c \in BOOLEAN : b /\ ~c
          /\ Docs!Empty = [open |-> b, text |-> <<>>, path |-> None, dirty |-> c, prompt |-> c]
  BY NoteEmptyIs
<1>2. Docs!Empty = [Docs!Empty EXCEPT !.open = b]
  <2> DEFINE R == [open |-> b, text |-> <<>>, path |-> None, dirty |-> c, prompt |-> c]
  <2>1. [R EXCEPT !.open = b] = R
    OBVIOUS
  <2> QED BY <1>1, <2>1, Zenon
<1> QED BY <1>2, EmptyKept

\* What Notepad has reached under a path is known by then.
Meets(p, across) ==
    (crossed => across) /\ (Docs!Exists(p) /\ Docs!Leads(p) # p => across)

LEMMA ReachesMeets == ASSUME NEW p, Docs!Reaches(p) PROVE Meets(p, crossed')
BY DEF Docs!Reaches, Meets

\* What is read from a file is the file's.
LEMMA LoadedKept ==
    ASSUME DocsTypes, NEW n, n.open \in BOOLEAN, NEW p \in Docs!Paths, Docs!Exists(p)
    PROVE  LET m == Docs!Loaded(n, p)
           IN  /\ NoteTyped(m) /\ m.path = p /\ m.open = n.open
               /\ \A other : Held(m, Lead(files, slot, goes, p), files, other)
               /\ \A across : FilesApart(files, crossed) /\ Meets(p, across) => Own(m, across)
<1> DEFINE l == Docs!Leads(p)
           f == Docs!First(files[l], MaxText)
<1>1. /\ l \in Docs!Paths /\ files[l] \in Stored /\ l = Lead(files, slot, goes, p)
      /\ l # p => l # Inner /\ p # Inner
  BY ExistsIs
<1> HIDE DEF l
<1>2. /\ f \in Stored /\ f \in Texts /\ Len(f) <= MaxText
      /\ \A i \in DOMAIN f : i \in DOMAIN files[l] /\ f[i] = files[l][i]
  <2>1. f \in Seq(Docs!Paths) /\ Len(f) <= MaxText
        /\ \A i \in DOMAIN f : i \in DOMAIN files[l] /\ f[i] = files[l][i]
    BY <1>1, FirstIs, DocsConstants DEF Stored
  <2> QED BY <2>1, DocsConstants DEF Stored
<1>3. PICK a, c \in BOOLEAN : a /\ ~c
          /\ Docs!Empty = [open |-> a, text |-> <<>>, path |-> None, dirty |-> c, prompt |-> c]
  BY NoteEmptyIs
<1> DEFINE m == Docs!Loaded(n, p)
<1>4. m = [open |-> n.open, text |-> f, path |-> p, dirty |-> c, prompt |-> c]
  <2>1. PICK o \in BOOLEAN : n.open = o
    OBVIOUS
  <2> DEFINE R(d) == [open |-> d, text |-> <<>>, path |-> None, dirty |-> c, prompt |-> c]
  <2>2. [R(a) EXCEPT !.open = o] = R(o)
    OBVIOUS
  <2>3. [R(o) EXCEPT !.text = f, !.path = p]
        = [open |-> o, text |-> f, path |-> p, dirty |-> c, prompt |-> c]
    <3> HIDE DEF f
    <3> DEFINE R2 == [open |-> o, text |-> f, path |-> None, dirty |-> c, prompt |-> c]
    <3>1. [R(o) EXCEPT !.text = f] = R2
      OBVIOUS
    <3>2. [R2 EXCEPT !.path = p] = [open |-> o, text |-> f, path |-> p, dirty |-> c, prompt |-> c]
      OBVIOUS
    <3> QED BY <3>1, <3>2, Zenon
  <2>4. m = [[R(a) EXCEPT !.open = o] EXCEPT !.text = f, !.path = p]
    BY <1>3, <2>1, Zenon DEF Docs!Loaded, Docs!Text, l
  <2> QED BY <2>1, <2>2, <2>3, <2>4, Zenon
<1> HIDE DEF f
<1>5. m \in NoteRecords(Texts) /\ m.text = f /\ m.path = p /\ m.open = n.open
  BY <1>2, <1>4 DEF NoteRecords
<1> HIDE DEF m
<1>6. NoteTyped(m)
  BY <1>2, <1>5 DEF NoteTyped
<1>7. l # None
  BY <1>1, DocsConstants
<1>8. ASSUME NEW other PROVE Held(m, Lead(files, slot, goes, p), files, other)
  BY <1>1, <1>5, <1>7 DEF Held, f
<1>9. ASSUME NEW across, FilesApart(files, crossed), Meets(p, across) PROVE Own(m, across)
  <2>1. p # None /\ files[l] # None
    BY <1>1, DocsConstants
  <2>2. \A i \in DOMAIN f : f[i] \in Owners(l, crossed)
    BY <1>1, <1>2, <1>9, <2>1 DEF FilesApart, Owned
  <2>3. Owners(l, crossed) \subseteq Owners(p, across)
    <3>1. (crossed => across) /\ (l # p => across)
      BY <1>9 DEF Meets, l
    <3> QED BY <1>1, <3>1, OwnersAcross
  <2> QED BY <1>5, <2>1, <2>2, <2>3 DEF Own, Owned
<1> QED BY <1>5, <1>6, <1>8, <1>9 DEF m

\* What notepad_open_file leaves, whether there is such a file or not.
LEMMA LoadKept ==
    ASSUME DocsTypes, NEW n, NoteTyped(n), NEW p \in Docs!Paths
    PROVE  LET m == Docs!Load(n, p)
           IN  /\ NoteTyped(m) /\ m.open = n.open
               /\ Docs!Exists(p) =>
                     /\ m.path = p
                     /\ \A other : Held(m, Lead(files, slot, goes, p), files, other)
                     /\ \A across : FilesApart(files, crossed) /\ Meets(p, across) => Own(m, across)
               /\ ~Docs!Exists(p) => m = n
<1>1. n.open \in BOOLEAN
  BY DEF NoteTyped, NoteRecords
<1>2. CASE Docs!Exists(p)
  <2>1. Docs!Load(n, p) = Docs!Loaded(n, p)
    BY <1>2 DEF Docs!Load
  <2> QED BY <1>1, <1>2, <2>1, LoadedKept
<1>3. CASE ~Docs!Exists(p)
  BY <1>3 DEF Docs!Load
<1> QED BY <1>2, <1>3

LEMMA StartedKept ==
    ASSUME DocsTypes
    PROVE  LET m == Docs!Started
           IN  /\ NoteTyped(m)
               /\ \A other : Held(m, Lead(files, slot, goes, m.path), files, other)
               /\ \A across : FilesApart(files, crossed) /\ Meets(m.path, across) => Own(m, across)
<1>1. Welcome \in Docs!Paths
  BY DocsConstants
<1>2. CASE Docs!Exists(Welcome)
  <2> DEFINE m == Docs!Started
  <2>1. /\ NoteTyped(m) /\ m.path = Welcome
        /\ \A other : Held(m, Lead(files, slot, goes, Welcome), files, other)
        /\ \A across : FilesApart(files, crossed) /\ Meets(Welcome, across) => Own(m, across)
    BY <1>1, <1>2, EmptyIsKept, LoadKept DEF Docs!Started
  <2> HIDE DEF m
  <2> QED BY <2>1 DEF m
<1>3. CASE ~Docs!Exists(Welcome)
  <2>1. Docs!Started = Docs!Empty
    BY <1>3 DEF Docs!Started, Docs!Load
  <2> QED BY <2>1, EmptyIsKept
<1> QED BY <1>2, <1>3

-----------------------------------------------------------------------------
(* Files' states. *)

\* A directory is listed in some order, each text by the name it goes by.
LEMMA ListedKept ==
    ASSUME goes \in [Docs!Paths -> Docs!Paths], NEW dir, NEW there
    PROVE  Docs!Listed(dir, there) \in Entered
<1> DEFINE S == there \cap (IF dir = Home THEN (Docs!Paths \ {Inner}) \cup {Folder} ELSE {Inner})
<1>1. S \subseteq Docs!Paths \cup {Folder}
  BY DocsConstants
<1>2. IsFiniteSet(S)
  BY <1>1, DocsConstants, FS_Subset
<1> DEFINE all == Docs!SetToSeq(S)
           l == [i \in DOMAIN all |-> IF all[i] = Folder THEN Folder ELSE goes[all[i]]]
<1>3. Docs!Listed(dir, there) = l
  BY DEF Docs!Listed
<1>4. all \in Seq(S)
  BY <1>2, DocsArranged
<1> HIDE DEF S, all
<1>5. DOMAIN all = 1 .. Len(all) /\ Len(all) \in Nat /\ \A i \in 1 .. Len(all) : all[i] \in Docs!Paths \cup {Folder}
  BY <1>1, <1>4
<1>6. \A i \in 1 .. Len(all) : l[i] \in Docs!Paths \cup {Folder}
  BY <1>5
<1>7. l \in [1 .. Len(all) -> Docs!Paths \cup {Folder}]
  BY <1>5, <1>6
<1> QED BY <1>3, <1>5, <1>7 DEF Entered

\* fm_refresh brings the selection back to the entries there are.
LEMMA RefreshedKept ==
    ASSUME goes \in [Docs!Paths -> Docs!Paths], NEW f \in FilesRecords(Entered), NEW there
    PROVE  RowKept(Docs!Refreshed(f, there))
<1> DEFINE e == Docs!Listed(f.cwd, there)
           s == IF e = <<>> THEN 0 ELSE IF f.selected \in DOMAIN e THEN f.selected ELSE 1
<1>1. e \in Entered
  BY ListedKept
<1>2. Docs!Refreshed(f, there) = [f EXCEPT !.entries = e, !.selected = s]
  BY DEF Docs!Refreshed
<1> HIDE DEF e
<1>3. f.selected \in Nat /\ Len(e) \in Nat /\ DOMAIN e = 1 .. Len(e) /\ (e # <<>> => Len(e) >= 1)
  BY <1>1 DEF Entered, FilesRecords
<1>4. s \in Nat /\ s <= Len(e) /\ (e # <<>> => s # 0)
  <2>1. CASE e = <<>>
    BY <1>3, <2>1
  <2>2. CASE e # <<>>
    BY <1>3, <2>2
  <2> QED BY <2>1, <2>2
<1> HIDE DEF s
<1>5. LET g == [f EXCEPT !.entries = e, !.selected = s]
      IN  g \in FilesRecords(Entered) /\ g.entries = e /\ g.selected = s
  BY <1>1, <1>4 DEF FilesRecords
<1> QED BY <1>2, <1>4, <1>5 DEF RowKept

-----------------------------------------------------------------------------
(* What a step changes. *)

\* A step that changes the text and no file.
LEMMA NoteStep ==
    ASSUME DocsInv, UNCHANGED <<files, slot, goes, fm>>, NoteTyped(note'), crossed => crossed',
           ~torn' => /\ ~torn /\ Held(note', Lead(files, slot, goes, note'.path), files, foreign')
                     /\ FilesApart(files, crossed) => Own(note', crossed')
    PROVE  DocsInv'
<1>1. files' = files /\ slot' = slot /\ goes' = goes /\ fm' = fm
  OBVIOUS
<1>2. DocsTypes'
  BY <1>1 DEF DocsInv, DocsTypes, PlacesKept
<1>3. ASSUME ~torn' PROVE /\ Held(note', Lead(files', slot', goes', note'.path), files', foreign')
                          /\ Own(note', crossed') /\ FilesApart(files', crossed')
  <2>1. FilesApart(files, crossed) /\ note.path \in Docs!Paths \cup {None}
    BY <1>3 DEF DocsInv, DocsTypes, NoteTyped, NoteRecords
  <2>2. FilesApart(files, crossed')
    BY <2>1, ApartMore
  <2> QED BY <1>1, <1>3, <2>1, <2>2
<1> QED BY <1>2, <1>3 DEF DocsInv

\* A step that changes what Files shows and nothing else.
LEMMA RowStep ==
    ASSUME DocsInv, UNCHANGED <<files, slot, goes, note, torn, foreign, crossed>>, RowKept(fm')
    PROVE  DocsInv'
<1>1. files' = files /\ slot' = slot /\ goes' = goes /\ UNCHANGED <<note, torn, foreign, crossed>>
  OBVIOUS
<1>2. DocsTypes'
  BY <1>1 DEF DocsInv, DocsTypes, PlacesKept
<1>3. ASSUME ~torn' PROVE /\ Held(note', Lead(files', slot', goes', note'.path), files', foreign')
                          /\ Own(note', crossed') /\ FilesApart(files', crossed')
  BY <1>1, <1>3 DEF DocsInv
<1> QED BY <1>2, <1>3 DEF DocsInv

\* What is written to a path is of the path's, and so of the file that it gets to.
LEMMA FileWritten ==
    ASSUME DocsTypes, NEW p \in Docs!Paths
    PROVE  LET w == Docs!Written(p)
           IN  /\ w \in Docs!Paths
               /\ Docs!Exists(p) => w = Lead(files, slot, goes, p) /\ files[w] \in Stored
               /\ ~Docs!Exists(p) => w = p /\ files[p] = None
               /\ w # p => w # Inner /\ p # Inner /\ Docs!Exists(p) /\ Docs!Leads(p) # p
<1>1. CASE Docs!Exists(p)
  BY <1>1, ExistsIs DEF Docs!Written
<1>2. CASE ~Docs!Exists(p)
  <2>1. Docs!Written(p) = p /\ Docs!Leads(p) = None
    BY <1>2 DEF Docs!Written, Docs!Exists
  <2>2. Lead(files, slot, goes, p) = None /\ PlacesKept(files, slot, goes)
    BY <2>1, LeadsAre DEF DocsTypes
  <2>3. files[p] = None
    <3>1. \A q \in Finds(files, goes, p) : q # None
      BY LeadIs, <2>2, DocsConstants
    <3> QED BY <2>2, <3>1, LeadIs
  <2> QED BY <1>2, <2>1, <2>3
<1> QED BY <1>1, <1>2

\* A write to p leaves p leading to the file that is written.
LEMMA EntryPut ==
    ASSUME DocsTypes, NEW p \in Docs!Paths, NEW t \in Stored, Docs!Put(p, t)
    PROVE  LET w == Docs!Written(p)
           IN  /\ files' \in [Docs!Paths -> Stored \cup {None}] /\ PlacesKept(files', slot', goes')
               /\ Lead(files', slot', goes', p) = w
               /\ files'[w] = t /\ \A q \in Docs!Paths : q # w => files'[q] = files[q]
<1> DEFINE w == Docs!Written(p)
<1>1. /\ w \in Docs!Paths
      /\ Docs!Exists(p) => w = Lead(files, slot, goes, p) /\ files[w] \in Stored
      /\ ~Docs!Exists(p) => w = p /\ files[p] = None
  BY FileWritten
<1>2. files' = [files EXCEPT ![w] = t]
  BY DEF Docs!Put
<1> HIDE DEF w
<1>3. /\ files' \in [Docs!Paths -> Stored \cup {None}] /\ t # None
      /\ files'[w] = t /\ \A q \in Docs!Paths : q # w => files'[q] = files[q]
  BY <1>1, <1>2, DocsConstants DEF DocsTypes
<1>4. PlacesKept(files, slot, goes)
  BY DEF DocsTypes
<1>5. CASE Docs!Exists(p)
  <2>1. slot' = slot /\ goes' = goes
    BY <1>5 DEF Docs!Put, Docs!New
  <2>2. \A q \in Docs!Paths : files'[q] # None <=> files[q] # None
    BY <1>1, <1>3, <1>5, DocsConstants
  <2>3. Finds(files', goes, p) = Finds(files, goes, p)
    BY <2>2 DEF Finds
  <2>4. Lead(files', slot, goes, p) = w
    <3>1. PlacesKept(files', slot, goes)
      BY <1>4, <2>2 DEF PlacesKept
    <3>2. w # None
      BY <1>1, DocsConstants
    <3>3. w \in Finds(files, goes, p) /\ \A r \in Finds(files, goes, p) : slot[w] <= slot[r]
      BY <1>1, <1>4, <1>5, <3>2, LeadIs
    <3> QED BY <2>3, <3>1, <3>3, LeadIs
  <2> QED BY <1>3, <1>4, <2>1, <2>2, <2>4 DEF PlacesKept, w
<1>6. CASE ~Docs!Exists(p)
  <2>0. w = p /\ files[p] = None
    BY <1>1, <1>6
  <2>1. Finds(files, goes, p) = {}
    <3>1. Lead(files, slot, goes, p) = None
      BY <1>6, LeadsAre DEF Docs!Exists
    <3> QED BY <1>4, <3>1, LeadIs, DocsConstants
  <2>2. PICK s \in Nat, n \in Docs!Paths :
            /\ slot' = [slot EXCEPT ![p] = s] /\ goes' = [goes EXCEPT ![p] = n]
            /\ n = p \/ (p \in {Welcome, Plain} /\ n \in Numbered)
            /\ p # Inner => \A q \in Docs!Paths : files[q] # None => s # slot[q]
    <3>1. CASE p = Inner
      <4>1. slot' = slot /\ goes' = goes
        BY <3>1 DEF Docs!Put, Docs!New
      <4>2. slot[p] \in Nat /\ goes[p] = p
        BY <1>4, <3>1, DocumentsAssumption DEF PlacesKept
      <4>3. slot = [slot EXCEPT ![p] = slot[p]] /\ goes = [goes EXCEPT ![p] = p]
        BY <1>4, <4>2 DEF PlacesKept
      <4> QED BY <3>1, <4>1, <4>2, <4>3
    <3>2. CASE p # Inner
      <4>1. PICK s \in Docs!Slots \ {slot[q] : q \in {x1 \in Docs!Paths : Docs!Stored(x1)}},
                 n \in {p} \cup (IF p \in {Welcome, Plain} THEN Numbered ELSE {}) :
                slot' = [slot EXCEPT ![p] = s] /\ goes' = [goes EXCEPT ![p] = n]
        BY <1>6, <3>2 DEF Docs!Put, Docs!New
      <4>2. s \in Nat
        BY <4>1, DocsConstants DEF Docs!Slots
      <4>3. n = p \/ (p \in {Welcome, Plain} /\ n \in Numbered)
        BY <4>1
      <4>4. n \in Docs!Paths
        BY <4>3, DocsConstants
      <4>5. \A q \in Docs!Paths : files[q] # None => s # slot[q]
        BY <4>1 DEF Docs!Stored
      <4> QED BY <3>2, <4>1, <4>2, <4>3, <4>4, <4>5
    <3> QED BY <3>1, <3>2
  <2>3. /\ slot' \in [Docs!Paths -> Nat] /\ goes' \in [Docs!Paths -> Docs!Paths]
        /\ slot'[p] = s /\ goes'[p] = n
        /\ \A q \in Docs!Paths : q # p => slot'[q] = slot[q] /\ goes'[q] = goes[q]
    BY <1>4, <2>2 DEF PlacesKept
  <2>4. PlacesKept(files', slot', goes')
    <3>1. \A q \in Docs!Paths : goes'[q] = q \/ (q \in {Welcome, Plain} /\ goes'[q] \in Numbered)
      BY <1>4, <2>2, <2>3 DEF PlacesKept
    <3>2. ASSUME NEW q \in Docs!Paths \ {Inner}, NEW r \in Docs!Paths \ {Inner},
                 files'[q] # None, files'[r] # None, slot'[q] = slot'[r]
          PROVE  q = r
      <4>1. CASE q # p /\ r # p
        BY <1>3, <1>4, <2>0, <2>3, <3>2, <4>1 DEF PlacesKept
      <4>2. CASE q = p /\ r # p
        BY <1>3, <2>0, <2>2, <2>3, <3>2, <4>2
      <4>3. CASE q # p /\ r = p
        BY <1>3, <2>0, <2>2, <2>3, <3>2, <4>3
      <4> QED BY <4>1, <4>2, <4>3
    <3> QED BY <2>3, <3>1, <3>2 DEF PlacesKept
  <2>5. Finds(files', goes', p) = {p}
    <3>1. ASSUME NEW q \in Docs!Paths, q # p PROVE q \notin Finds(files', goes', p)
      BY <1>3, <2>0, <2>1, <2>3, <3>1 DEF Finds
    <3>2. p \in Finds(files', goes', p)
      BY <1>3, <2>0, <2>4, LeadIs
    <3> QED BY <3>1, <3>2 DEF Finds
  <2>6. Lead(files', slot', goes', p) = p
    BY <2>4, <2>5, LeadIs
  <2> QED BY <1>3, <2>0, <2>4, <2>6 DEF w
<1> QED BY <1>5, <1>6

\* A path that does not lead to the file that is deleted leads to where it did.
LEMMA UnlinkIs ==
    ASSUME DocsTypes, NEW l \in Docs!Paths, Docs!Unlink(l)
    PROVE  /\ files' \in [Docs!Paths -> Stored \cup {None}] /\ PlacesKept(files', slot', goes')
           /\ files'[l] = None /\ \A q \in Docs!Paths : q # l => files'[q] = files[q]
           /\ \A p : Lead(files, slot, goes, p) # l =>
                  Lead(files', slot', goes', p) = Lead(files, slot, goes, p)
<1>1. PlacesKept(files, slot, goes) /\ files \in [Docs!Paths -> Stored \cup {None}]
  BY DEF DocsTypes
<1>2. /\ files' \in [Docs!Paths -> Stored \cup {None}]
      /\ files'[l] = None /\ \A q \in Docs!Paths : q # l => files'[q] = files[q]
      /\ slot' \in [Docs!Paths -> Nat] /\ goes' \in [Docs!Paths -> Docs!Paths] /\ goes'[l] = l
      /\ \A q \in Docs!Paths : q # l => slot'[q] = slot[q] /\ goes'[q] = goes[q]
  BY <1>1 DEF Docs!Unlink, PlacesKept
<1>3. PlacesKept(files', slot', goes')
  BY <1>1, <1>2 DEF PlacesKept
<1>4. ASSUME NEW p, Lead(files, slot, goes, p) # l
      PROVE  Lead(files', slot', goes', p) = Lead(files, slot, goes, p)
  <2> DEFINE found == Finds(files, goes, p)
             after == Finds(files', goes', p)
             k == Lead(files, slot, goes, p)
             m == Lead(files', slot', goes', p)
  <2>1. after = found \ {l}
    BY <1>2 DEF Finds
  <2>2. /\ found = {} => k = None
        /\ found # {} => k \in found /\ \A r \in found : slot[k] <= slot[r]
        /\ \A q \in found : q \in Docs!Paths
    BY <1>1, LeadIs
  <2>3. /\ after = {} => m = None
        /\ \A q \in after : (\A r \in after : slot'[q] <= slot'[r]) => q = m
    BY <1>3, LeadIs
  <2>4. CASE found = {}
    BY <2>1, <2>2, <2>3, <2>4
  <2>5. CASE found # {}
    <3>1. k \in after
      BY <1>4, <2>1, <2>2, <2>5
    <3>2. \A r \in after : slot'[k] <= slot'[r]
      BY <1>2, <1>4, <2>1, <2>2, <2>5
    <3> QED BY <2>3, <3>1, <3>2
  <2> HIDE DEF found, after, k, m
  <2> QED BY <2>4, <2>5 DEF k, m
<1> QED BY <1>2, <1>3, <1>4

\* A step that changes the files but not the text.
LEMMA FilesStep ==
    ASSUME DocsInv, UNCHANGED <<note, torn>>, RowKept(fm'), crossed => crossed',
           files' \in [Docs!Paths -> Stored \cup {None}], PlacesKept(files', slot', goes'),
           FilesApart(files, crossed') => FilesApart(files', crossed'),
           Held(note, Lead(files, slot, goes, note.path), files, foreign) =>
               Held(note, Lead(files', slot', goes', note.path), files', foreign')
    PROVE  DocsInv'
<1>1. DocsTypes'
  BY DEF DocsInv, DocsTypes
<1>2. ASSUME ~torn' PROVE /\ Held(note', Lead(files', slot', goes', note'.path), files', foreign')
                          /\ Own(note', crossed') /\ FilesApart(files', crossed')
  <2>1. /\ Held(note, Lead(files, slot, goes, note.path), files, foreign) /\ Own(note, crossed)
        /\ FilesApart(files, crossed) /\ note.path \in Docs!Paths \cup {None}
    BY <1>2 DEF DocsInv, DocsTypes, NoteTyped, NoteRecords
  <2>2. FilesApart(files, crossed') /\ Own(note, crossed')
    BY <2>1, ApartMore
  <2> QED BY <2>1, <2>2
<1> QED BY <1>1, <1>2 DEF DocsInv

\* The file that is deleted or cut has none of another's text.
LEMMA CutApart ==
    ASSUME NEW w \in Docs!Paths, NEW c, files'[w] \in {<<>>, None},
           \A q \in Docs!Paths : q # w => files'[q] = files[q], FilesApart(files, c)
    PROVE  FilesApart(files', c)
<1>1. \A S : Owned(<<>>, S)
  BY DEF Owned
<1> QED BY <1>1 DEF FilesApart

-----------------------------------------------------------------------------
(* Each callback of Notepad. *)

LEMMA OpenNotepadStep == ASSUME DocsInv, Docs!OpenNotepad PROVE DocsInv'
<1>1. UNCHANGED <<files, slot, goes, fm, torn>> /\ note' = Docs!Started /\ Docs!Reaches(note'.path)
  BY DEF Docs!OpenNotepad, Docs!disk, Docs!Taken
<1>2. DocsTypes
  BY DEF DocsInv
<1>3. Meets(note'.path, crossed')
  BY <1>1, ReachesMeets
<1>4. crossed => crossed'
  BY <1>3 DEF Meets
<1>5. /\ NoteTyped(note') /\ Held(note', Lead(files, slot, goes, note'.path), files, foreign')
      /\ FilesApart(files, crossed) => Own(note', crossed')
  BY <1>1, <1>2, <1>3, StartedKept
<1> QED BY <1>1, <1>4, <1>5, NoteStep

LEMMA CloseNotepadStep == ASSUME DocsInv, Docs!CloseNotepad PROVE DocsInv'
<1>1. /\ UNCHANGED <<files, slot, goes, fm, torn, foreign, crossed>>
      /\ note' = [Docs!Empty EXCEPT !.open = FALSE]
  BY DEF Docs!CloseNotepad, Docs!disk
<1>2. PICK b \in BOOLEAN : b = FALSE
  OBVIOUS
<1>3. note' = [Docs!Empty EXCEPT !.open = b]
  BY <1>1, <1>2, Zenon
<1>4. /\ NoteTyped(note') /\ Held(note', Lead(files, slot, goes, note'.path), files, foreign')
      /\ Own(note', crossed')
  BY <1>3, EmptyKept
<1>5. crossed => crossed'
  BY <1>1
<1> QED BY <1>1, <1>4, <1>5, NoteStep

LEMMA EditStep == ASSUME DocsInv, Docs!Edit PROVE DocsInv'
<1>1. UNCHANGED <<files, slot, goes, fm, torn, foreign, crossed>>
  BY DEF Docs!Edit, Docs!disk
<1>2. note \in NoteRecords(Texts) /\ note.text \in Texts /\ Len(note.text) <= MaxText
  BY DEF DocsInv, DocsTypes, NoteTyped, NoteRecords
<1>3. PICK d \in BOOLEAN : d = TRUE /\ d
  OBVIOUS
<1>4. PICK t : /\ note' = [note EXCEPT !.text = t, !.dirty = TRUE]
               /\ \/ Len(note.text) < MaxText /\ t = Append(note.text, Typed)
                  \/ note.text # <<>> /\ t = Docs!Front(note.text)
  BY Zenon DEF Docs!Edit
<1>5. t \in Texts /\ Len(t) <= MaxText
      /\ \A i \in DOMAIN t : t[i] = Typed \/ (i \in DOMAIN note.text /\ t[i] = note.text[i])
  <2>1. CASE Len(note.text) < MaxText /\ t = Append(note.text, Typed)
    <3>1. Typed \in Docs!Paths \cup {Typed} /\ MaxText \in Nat
      BY DocsConstants
    <3>2. t \in Texts /\ Len(t) = Len(note.text) + 1 /\ Len(note.text) \in Nat
      BY <1>2, <2>1, <3>1 DEF Texts
    <3>3. \A i \in 1 .. Len(note.text) : t[i] = note.text[i]
      BY <1>2, <2>1, <3>1 DEF Texts
    <3>4. t[Len(note.text) + 1] = Typed
      BY <1>2, <2>1, <3>1 DEF Texts
    <3>5. DOMAIN t = 1 .. Len(note.text) + 1 /\ DOMAIN note.text = 1 .. Len(note.text)
      BY <1>2, <3>2 DEF Texts
    <3> QED BY <2>1, <3>1, <3>2, <3>3, <3>4, <3>5
  <2>2. CASE note.text # <<>> /\ t = Docs!Front(note.text)
    <3>1. t \in Texts /\ Len(t) <= Len(note.text)
          /\ \A i \in DOMAIN t : i \in DOMAIN note.text /\ t[i] = note.text[i]
      BY <1>2, <2>2, FrontIs DEF Texts
    <3>2. Len(note.text) \in Nat /\ Len(t) \in Nat /\ MaxText \in Nat
      BY <1>2, <3>1, DocsConstants DEF Texts
    <3> QED BY <1>2, <3>1, <3>2
  <2> QED BY <1>4, <2>1, <2>2
<1>6. note' = [note EXCEPT !.text = t, !.dirty = d]
  BY <1>3, <1>4, Zenon
<1>7. note' \in NoteRecords(Texts) /\ note'.text = t /\ note'.path = note.path /\ note'.dirty
  <2>1. note'.dirty = d /\ note' \in NoteRecords(Texts) /\ note'.text = t /\ note'.path = note.path
    BY <1>2, <1>5, <1>6 DEF NoteRecords
  <2> QED BY <1>3, <2>1, Zenon
<1>8. NoteTyped(note') /\ Held(note', Lead(files, slot, goes, note'.path), files, foreign')
  BY <1>5, <1>7 DEF NoteTyped, Held
<1>9. ASSUME ~torn PROVE Own(note', crossed')
  <2>1. Own(note, crossed)
    BY <1>9 DEF DocsInv
  <2> QED BY <1>1, <1>5, <1>7, <2>1 DEF Own, Owned
<1>10. crossed => crossed'
  BY <1>1
<1> QED BY <1>1, <1>8, <1>9, <1>10, NoteStep

LEMMA ControlStep == ASSUME DocsInv, Docs!Control PROVE DocsInv'
<1>1. UNCHANGED <<files, slot, goes, fm, torn, foreign, crossed>>
  BY DEF Docs!Control, Docs!disk
<1>2. NoteTyped(note) /\ note \in NoteRecords(Texts)
  BY DEF DocsInv, DocsTypes, NoteTyped
<1>3. crossed => crossed'
  BY <1>1
<1>4. CASE note' = Docs!Empty
  <2>1. /\ NoteTyped(note') /\ Held(note', Lead(files, slot, goes, note'.path), files, foreign')
        /\ Own(note', crossed')
    BY <1>4, EmptyIsKept
  <2> QED BY <1>1, <1>3, <2>1, NoteStep
<1>5. ASSUME NEW b \in BOOLEAN, note' = [note EXCEPT !.prompt = b] PROVE DocsInv'
  <2>1. note' \in NoteRecords(Texts) /\ note'.text = note.text /\ note'.path = note.path
        /\ note'.dirty = note.dirty
    BY <1>2, <1>5 DEF NoteRecords
  <2>2. NoteTyped(note')
    BY <1>2, <2>1 DEF NoteTyped
  <2>3. ASSUME ~torn
        PROVE  Held(note', Lead(files, slot, goes, note'.path), files, foreign') /\ Own(note', crossed')
    BY <1>1, <2>1, <2>3 DEF DocsInv, Held, Own
  <2> QED BY <1>1, <1>3, <2>2, <2>3, NoteStep
<1>6. note' = Docs!Empty \/ \E b \in BOOLEAN : note' = [note EXCEPT !.prompt = b]
  BY Zenon DEF Docs!Control
<1> QED BY <1>4, <1>5, <1>6

LEMMA EnterStep == ASSUME DocsInv, Docs!Enter PROVE DocsInv'
<1>1. UNCHANGED <<files, slot, goes, fm, torn>>
  BY DEF Docs!Enter, Docs!disk
<1>2. PICK p \in Docs!Paths : /\ Docs!Exists(p) /\ note' = [Docs!Load(note, p) EXCEPT !.prompt = FALSE]
                              /\ Docs!Reaches(p)
  BY DEF Docs!Enter, Docs!Taken
<1>3. NoteTyped(note) /\ DocsTypes
  BY DEF DocsInv, DocsTypes
<1>4. Meets(p, crossed')
  BY <1>2, ReachesMeets
<1>5. crossed => crossed'
  BY <1>4 DEF Meets
<1> DEFINE m == Docs!Load(note, p)
<1>6. /\ NoteTyped(m) /\ m.path = p /\ Held(m, Lead(files, slot, goes, p), files, foreign')
      /\ FilesApart(files, crossed) => Own(m, crossed')
  BY <1>2, <1>3, <1>4, LoadKept
<1>7. PICK c \in BOOLEAN : c = FALSE
  OBVIOUS
<1>8. note' = [m EXCEPT !.prompt = c]
  BY <1>2, <1>7, Zenon
<1> HIDE DEF m
<1>9. note' \in NoteRecords(Texts) /\ note'.text = m.text /\ note'.path = m.path
      /\ note'.dirty = m.dirty
  BY <1>6, <1>8 DEF NoteRecords, NoteTyped
<1>10. /\ NoteTyped(note') /\ Held(note', Lead(files, slot, goes, note'.path), files, foreign')
       /\ FilesApart(files, crossed) => Own(note', crossed')
  BY <1>6, <1>9 DEF NoteTyped, Held, Own
<1> QED BY <1>1, <1>5, <1>10, NoteStep

\* A read that failed before it gave anything has changed nothing.
LEMMA EnterTornStep == ASSUME DocsInv, Docs!EnterTorn PROVE DocsInv'
<1>1. UNCHANGED <<files, slot, goes, fm, foreign>>
  BY DEF Docs!EnterTorn, Docs!disk
<1>2. PICK p \in Docs!Paths : /\ Docs!Exists(p) /\ Docs!Reaches(p)
          /\ \E k \in 0 .. Len(Docs!First(Docs!Text(p), Len(note.text))) :
          /\ note' = [note EXCEPT !.prompt = FALSE,
                 !.text = [i \in DOMAIN note.text |-> IF i <= k THEN Docs!Text(p)[i] ELSE note.text[i]]]
          /\ torn' = (torn \/ k > 0)
  BY Zenon DEF Docs!EnterTorn
<1> DEFINE g == Docs!Text(p)
<1>2a. PICK k \in 0 .. Len(Docs!First(g, Len(note.text))) :
          /\ note' = [note EXCEPT !.prompt = FALSE,
                 !.text = [i \in DOMAIN note.text |-> IF i <= k THEN g[i] ELSE note.text[i]]]
          /\ torn' = (torn \/ k > 0)
  BY Zenon, <1>2
<1>3. /\ NoteTyped(note) /\ DocsTypes /\ note \in NoteRecords(Texts) /\ note.text \in Texts
      /\ Len(note.text) \in Nat /\ DOMAIN note.text = 1 .. Len(note.text)
  BY DEF DocsInv, DocsTypes, NoteTyped, NoteRecords, Texts
<1>4. g \in Texts
  BY <1>2, <1>3, ExistsIs, DocsConstants DEF Docs!Text
<1> HIDE DEF g
<1>5. LET f == Docs!First(g, Len(note.text))
      IN  f \in Texts /\ Len(f) <= Len(g) /\ Len(f) <= Len(note.text)
  BY <1>3, <1>4, FirstIs DEF Texts
<1>6. k \in Nat /\ k <= Len(g) /\ Len(g) \in Nat
  BY <1>2a, <1>4, <1>5 DEF Texts
<1> DEFINE t == [i \in DOMAIN note.text |-> IF i <= k THEN g[i] ELSE note.text[i]]
<1>7. t \in Texts /\ Len(t) = Len(note.text)
  <2>1. \A i \in 1 .. Len(note.text) :
            (IF i <= k THEN g[i] ELSE note.text[i]) \in Docs!Paths \cup {Typed}
    BY <1>3, <1>4, <1>6 DEF Texts
  <2>2. t \in [1 .. Len(note.text) -> Docs!Paths \cup {Typed}]
    BY <1>3, <2>1
  <2> QED BY <1>3, <2>2 DEF Texts
<1>8. PICK c \in BOOLEAN : c = FALSE
  OBVIOUS
<1>9. note' = [note EXCEPT !.prompt = c, !.text = t]
  BY <1>2a, <1>8, Zenon
<1>10. k = 0 => t = note.text
  <2>1. ASSUME k = 0 PROVE \A i \in 1 .. Len(note.text) : t[i] = note.text[i]
    BY <1>3, <2>1
  <2>2. t \in [1 .. Len(note.text) -> Docs!Paths \cup {Typed}]
        /\ note.text \in [1 .. Len(note.text) -> Docs!Paths \cup {Typed}]
    BY <1>3, <1>7 DEF Texts
  <2> QED BY <2>1, <2>2
<1> HIDE DEF t
<1>11. note' \in NoteRecords(Texts) /\ note'.text = t /\ note'.path = note.path
       /\ note'.dirty = note.dirty
  BY <1>3, <1>7, <1>9 DEF NoteRecords
<1>12. NoteTyped(note')
  BY <1>3, <1>7, <1>11 DEF NoteTyped
<1>13. crossed => crossed'
  BY <1>2, ReachesMeets DEF Meets
<1>14. ASSUME ~torn'
       PROVE  /\ ~torn /\ Held(note', Lead(files, slot, goes, note'.path), files, foreign')
              /\ Own(note', crossed')
  <2>1. ~torn /\ ~(k > 0)
    BY <1>2a, <1>14
  <2>2. note'.text = note.text
    BY <1>6, <1>10, <1>11, <2>1
  <2>3. /\ Held(note, Lead(files, slot, goes, note.path), files, foreign)
        /\ Own(note, crossed) /\ note.path \in Docs!Paths \cup {None}
    BY <1>3, <2>1 DEF DocsInv, NoteRecords
  <2>4. Own(note, crossed')
    BY <1>13, <2>3, ApartMore
  <2> QED BY <1>1, <1>11, <2>1, <2>2, <2>3, <2>4 DEF Held, Own
<1> QED BY <1>1, <1>12, <1>13, <1>14, NoteStep

\* A text is saved under its own path, or an untitled one.
LEMMA TargetIs ==
    ASSUME DocsInv, Docs!Writable(Docs!Target)
    PROVE  /\ Docs!Target \in Docs!Paths /\ Docs!Target # None
           /\ note.path # None => Docs!Target = note.path
<1>1. note.path \in Docs!Paths \cup {None} /\ None \notin Docs!Paths
      /\ (\A u \in Numbered : u \in Docs!Paths) /\ Plain \in Docs!Paths
  BY DocsConstants DEF DocsInv, DocsTypes, NoteTyped, NoteRecords
<1>2. Docs!Target # None
  BY DEF Docs!Writable
<1>3. CASE note.path # None
  BY <1>1, <1>2, <1>3 DEF Docs!Target
<1>4. CASE note.path = None /\ ~Docs!Exists(Plain)
  BY <1>1, <1>2, <1>4 DEF Docs!Target
<1>5. CASE note.path = None /\ Docs!Exists(Plain)
  <2> DEFINE unused == {u \in Numbered : ~Docs!Exists(u)}
  <2>1. unused # {} /\ Docs!Target = CHOOSE u \in unused : TRUE
    BY <1>2, <1>5 DEF Docs!Target
  <2>2. Docs!Target \in unused
    BY <2>1
  <2> QED BY <1>1, <1>2, <1>5, <2>2
<1> QED BY <1>3, <1>4, <1>5

LEMMA SavedStep == ASSUME DocsInv, Docs!Save \/ Docs!SaveShort PROVE DocsInv'
<1> DEFINE p == Docs!Target
           o == Docs!Own(note.text, p)
           w == Docs!Written(p)
<1>1. /\ Docs!Writable(p) /\ UNCHANGED <<fm, torn>> /\ Docs!Reaches(p)
      /\ note' = [note EXCEPT !.text = o, !.path = p, !.dirty = FALSE]
  BY DEF Docs!Save, Docs!SaveShort, Docs!Taken
<1>2. p \in Docs!Paths /\ p # None /\ (note.path # None => p = note.path)
  BY <1>1, TargetIs
<1>3. PICK t : /\ Docs!Put(p, t)
               /\ t = o \/ (note.text # <<>> /\ t = Docs!Front(o) /\ foreign' = TRUE)
  BY DEF Docs!Save, Docs!SaveShort
<1>4. /\ NoteTyped(note) /\ DocsTypes /\ note \in NoteRecords(Texts) /\ note.text \in Texts
      /\ Len(note.text) \in Nat /\ note.path \in Docs!Paths \cup {None} /\ Len(note.text) <= MaxText
  BY DEF DocsInv, DocsTypes, NoteTyped, NoteRecords, Texts
<1>5. Meets(p, crossed')
  BY <1>1, ReachesMeets
<1>6. crossed => crossed'
  BY <1>5 DEF Meets
<1>7. /\ w \in Docs!Paths /\ (w # p => w # Inner /\ p # Inner /\ crossed')
  BY <1>2, <1>4, <1>5, FileWritten DEF Meets
<1>8. /\ o \in Stored /\ Len(o) = Len(note.text)
      /\ \A i \in DOMAIN o : i \in DOMAIN note.text /\ (note.text[i] = Typed => o[i] = p)
                             /\ (note.text[i] # Typed => o[i] = note.text[i])
  BY <1>2, <1>4, OwnIs
<1> HIDE DEF p, o
<1>9. t \in Stored /\ \A i \in DOMAIN t : i \in DOMAIN o /\ t[i] = o[i]
  <2>1. CASE t = o
    BY <1>8, <2>1
  <2>2. CASE note.text # <<>> /\ t = Docs!Front(o)
    <3>1. o # <<>> /\ o \in Seq(Docs!Paths)
      BY <1>4, <1>8, <2>2 DEF Stored, Texts
    <3> QED BY <2>2, <3>1, FrontIs DEF Stored
  <2> QED BY <1>3, <2>1, <2>2
<1>10. /\ files' \in [Docs!Paths -> Stored \cup {None}] /\ PlacesKept(files', slot', goes')
       /\ Lead(files', slot', goes', p) = w
       /\ files'[w] = t /\ \A q \in Docs!Paths : q # w => files'[q] = files[q]
  BY <1>2, <1>3, <1>4, <1>9, EntryPut
<1> HIDE DEF w
<1>11. PICK c \in BOOLEAN : c = FALSE
  OBVIOUS
<1>12. note' = [note EXCEPT !.text = o, !.path = p, !.dirty = c]
  BY <1>1, <1>11, Zenon
<1>13. o \in Texts
  BY <1>8, DocsConstants
<1>14. note' \in NoteRecords(Texts) /\ note'.text = o /\ note'.path = p
  BY <1>2, <1>4, <1>12, <1>13 DEF NoteRecords
<1>15. NoteTyped(note')
  BY <1>4, <1>8, <1>14 DEF NoteTyped
<1>16. RowKept(fm') /\ DocsTypes'
  BY <1>1, <1>4, <1>10, <1>15 DEF DocsTypes
<1>17. ASSUME ~torn' PROVE /\ Held(note', Lead(files', slot', goes', note'.path), files', foreign')
                           /\ Own(note', crossed') /\ FilesApart(files', crossed')
  <2>1. Own(note, crossed) /\ FilesApart(files, crossed)
    BY <1>1, <1>17 DEF DocsInv
  <2>2. Own(note, crossed') /\ FilesApart(files, crossed')
    BY <1>4, <1>6, <2>1, ApartMore
  <2>3. Owned(o, Owners(p, crossed'))
    <3>1. p \in Owners(p, crossed')
      BY <1>2 DEF Owners
    <3>2. \A i \in DOMAIN note.text : note.text[i] = Typed \/ note.text[i] \in Owners(p, crossed')
      BY <1>2, <2>2 DEF Own, Owned
    <3> QED BY <1>8, <3>1, <3>2 DEF Owned
  <2>4. Own(note', crossed')
    BY <1>2, <1>14, <2>3 DEF Own, Owned
  <2>5. Owners(p, crossed') \subseteq Owners(w, crossed')
    BY <1>2, <1>7, OwnersAcross
  <2>6. Owned(t, Owners(w, crossed'))
    BY <1>9, <2>3, <2>5 DEF Owned
  <2>7. FilesApart(files', crossed')
    BY <1>10, <2>2, <2>6 DEF FilesApart
  <2>8. Held(note', w, files', foreign')
    <3>1. CASE t = o
      <4>1. Docs!First(o, MaxText) = o
        BY <1>4, <1>8, FirstIs, DocsConstants DEF Stored
      <4>2. w # None
        BY <1>7, DocsConstants
      <4> QED BY <1>10, <1>14, <3>1, <4>1, <4>2 DEF Held
    <3>2. CASE foreign' = TRUE
      BY <3>2 DEF Held
    <3> QED BY <1>3, <3>1, <3>2
  <2> QED BY <1>10, <1>14, <2>4, <2>7, <2>8
<1> QED BY <1>16, <1>17 DEF DocsInv

\* What a write that failed leaves is foreign to the text.
LEMMA SaveFailsStep == ASSUME DocsInv, Docs!SaveFails PROVE DocsInv'
<1> DEFINE p == Docs!Target
           w == Docs!Written(p)
<1>1. /\ Docs!Writable(p) /\ UNCHANGED <<note, torn, fm>> /\ foreign' = TRUE /\ Docs!Reaches(p)
      /\ Docs!Put(p, <<>>) \/ UNCHANGED <<files, slot, goes>>
  BY DEF Docs!SaveFails, Docs!disk
<1>2. p \in Docs!Paths
  BY <1>1, TargetIs
<1>3. DocsTypes /\ RowKept(fm') /\ <<>> \in Stored
  BY <1>1 DEF DocsInv, DocsTypes, Stored
<1>4. crossed => crossed'
  BY <1>1, ReachesMeets DEF Meets
<1>5. \A lead, stored : Held(note, lead, stored, foreign')
  BY <1>1 DEF Held
<1>6. /\ files' \in [Docs!Paths -> Stored \cup {None}] /\ PlacesKept(files', slot', goes')
      /\ FilesApart(files, crossed') => FilesApart(files', crossed')
  <2>1. CASE Docs!Put(p, <<>>)
    <3>1. /\ files' \in [Docs!Paths -> Stored \cup {None}] /\ PlacesKept(files', slot', goes')
          /\ files'[w] = <<>> /\ \A q \in Docs!Paths : q # w => files'[q] = files[q]
      BY <1>2, <1>3, <2>1, EntryPut
    <3>2. w \in Docs!Paths
      BY <1>2, <1>3, FileWritten
    <3> HIDE DEF w
    <3> QED BY <3>1, <3>2, CutApart
  <2>2. CASE UNCHANGED <<files, slot, goes>>
    BY <1>3, <2>2 DEF DocsTypes
  <2> QED BY <1>1, <2>1, <2>2
<1> QED BY <1>1, <1>3, <1>4, <1>5, <1>6, FilesStep

-----------------------------------------------------------------------------
(* Each callback of Files. *)

\* The row that is selected is of the entries, which are of the texts there may
\* be and the folder.
LEMMA SelectedIs ==
    ASSUME RowKept(fm), NEW s \in Nat, s # 0, s <= Len(fm.entries)
    PROVE  s \in DOMAIN fm.entries /\ fm.entries[s] \in Docs!Paths \cup {Folder}
<1>1. fm.entries \in Entered /\ Len(fm.entries) \in Nat /\ DOMAIN fm.entries = 1 .. Len(fm.entries)
  BY DEF RowKept, FilesRecords, Entered
<1> QED BY <1>1 DEF Entered

LEMMA GoneToKept ==
    ASSUME RowKept(fm), goes \in [Docs!Paths -> Docs!Paths], NEW dir \in {Home, Folder}
    PROVE  RowKept(Docs!GoneTo(dir))
<1>1. fm \in FilesRecords(Entered) /\ 0 \in Nat
  BY DEF RowKept
<1>2. fm.cwd \in {Home, Folder}
  BY <1>1 DEF FilesRecords
<1>3. [fm EXCEPT !.prev = fm.cwd, !.cwd = dir, !.selected = 0] \in FilesRecords(Entered)
  BY <1>1, <1>2 DEF FilesRecords
<1> QED BY <1>3, RefreshedKept DEF Docs!GoneTo

LEMMA ActivateStep ==
    ASSUME DocsInv, NEW f, RowKept(f), f.entries = fm.entries, UNCHANGED <<files, slot, goes, torn>>,
           Docs!Activate(f)
    PROVE  DocsInv'
<1>1. /\ NoteTyped(note) /\ DocsTypes /\ RowKept(fm) /\ goes \in [Docs!Paths -> Docs!Paths]
      /\ f \in FilesRecords(Entered) /\ f.selected \in Nat /\ f.selected <= Len(fm.entries)
  BY DEF DocsInv, DocsTypes, RowKept, FilesRecords, PlacesKept
<1>2. CASE fm' = f /\ UNCHANGED <<note, foreign, crossed>>
  BY <1>2, RowStep
<1>3. CASE fm' = Docs!GoneTo(Folder) /\ UNCHANGED <<note, foreign, crossed>>
  <2>1. RowKept(fm')
    BY <1>1, <1>3, GoneToKept
  <2> QED BY <1>3, <2>1, RowStep
<1>4. CASE /\ f.selected # 0 /\ f.entries[f.selected] # Folder
           /\ note' = Docs!Launched(Docs!Load(note, f.entries[f.selected]))
           /\ IF note.open /\ ~Docs!Exists(f.entries[f.selected]) THEN UNCHANGED <<foreign, crossed>>
              ELSE Docs!Taken(note'.path)
           /\ fm' = f
  <2> DEFINE e == fm.entries[f.selected]
             m == Docs!Load(note, e)
  <2>1. e \in Docs!Paths
    BY <1>1, <1>4, SelectedIs
  <2>2. note' = Docs!Launched(m)
    BY <1>4
  <2>3. /\ NoteTyped(m) /\ m.open = note.open
        /\ Docs!Exists(e) =>
              /\ m.path = e
              /\ \A other : Held(m, Lead(files, slot, goes, e), files, other)
              /\ \A across : FilesApart(files, crossed) /\ Meets(e, across) => Own(m, across)
        /\ ~Docs!Exists(e) => m = note
    BY <1>1, <2>1, LoadKept
  <2> DEFINE n == Docs!Started
  <2>4. /\ NoteTyped(n)
        /\ \A other : Held(n, Lead(files, slot, goes, n.path), files, other)
        /\ \A across : FilesApart(files, crossed) /\ Meets(n.path, across) => Own(n, across)
    BY <1>1, StartedKept
  <2>5. note' = (IF m.open THEN m ELSE n)
    BY <2>2 DEF Docs!Launched
  <2>6. \/ note.open /\ ~Docs!Exists(e) /\ UNCHANGED <<foreign, crossed>>
        \/ (~note.open \/ Docs!Exists(e)) /\ Docs!Reaches(note'.path)
    BY <1>4 DEF Docs!Taken
  <2> HIDE DEF e, m, n
  <2>7. NoteTyped(note')
    BY <2>3, <2>4, <2>5
  <2>8. /\ NoteTyped(note') /\ (crossed => crossed')
        /\ ~torn => /\ Held(note', Lead(files, slot, goes, note'.path), files, foreign')
                    /\ FilesApart(files, crossed) => Own(note', crossed')
    <3>1. CASE note.open /\ ~Docs!Exists(e) /\ UNCHANGED <<foreign, crossed>>
      <4>1. note' = note
        BY <2>3, <2>5, <3>1
      <4> QED BY <2>7, <3>1, <4>1 DEF DocsInv
    <3>2. CASE ~note.open /\ Docs!Reaches(note'.path)
      <4>1. Meets(note'.path, crossed') /\ note' = n
        BY <2>3, <2>5, <3>2, ReachesMeets
      <4>2. crossed => crossed'
        BY <4>1 DEF Meets
      <4> QED BY <2>4, <4>1, <4>2
    <3>3. CASE note.open /\ Docs!Exists(e) /\ Docs!Reaches(note'.path)
      <4>1. Meets(note'.path, crossed') /\ note' = m
        BY <2>3, <2>5, <3>3, ReachesMeets
      <4>2. crossed => crossed'
        BY <4>1 DEF Meets
      <4> QED BY <2>3, <3>3, <4>1, <4>2
    <3> QED BY <2>6, <3>1, <3>2, <3>3
  <2>9. DocsTypes'
    BY <1>1, <1>4, <2>7 DEF DocsTypes, PlacesKept
  <2>10. ASSUME ~torn' PROVE /\ Held(note', Lead(files', slot', goes', note'.path), files', foreign')
                             /\ Own(note', crossed') /\ FilesApart(files', crossed')
    <3>1. FilesApart(files, crossed) /\ note.path \in Docs!Paths \cup {None}
      BY <2>10, <1>1 DEF DocsInv, NoteTyped, NoteRecords
    <3>2. FilesApart(files, crossed')
      BY <2>8, <3>1, ApartMore
    <3> QED BY <2>8, <2>10, <3>1, <3>2
  <2> QED BY <2>9, <2>10 DEF DocsInv
<1> QED BY <1>2, <1>3, <1>4 DEF Docs!Activate

LEMMA KeyEnterStep == ASSUME DocsInv, Docs!KeyEnter PROVE DocsInv'
<1>1. UNCHANGED <<files, slot, goes, torn>> /\ Docs!Activate(fm)
  BY DEF Docs!KeyEnter, Docs!disk
<1>2. RowKept(fm)
  BY DEF DocsInv, DocsTypes
<1> QED BY <1>1, <1>2, ActivateStep

LEMMA KeyArrowStep == ASSUME DocsInv, Docs!KeyArrow PROVE DocsInv'
<1>1. UNCHANGED <<files, slot, goes, note, torn, foreign, crossed>>
  BY DEF Docs!KeyArrow, Docs!disk
<1>2. PICK i \in DOMAIN fm.entries : fm' = [fm EXCEPT !.selected = i]
  BY DEF Docs!KeyArrow
<1>3. /\ fm \in FilesRecords(Entered) /\ Len(fm.entries) \in Nat
      /\ DOMAIN fm.entries = 1 .. Len(fm.entries)
  BY DEF DocsInv, DocsTypes, RowKept, FilesRecords, Entered
<1>4. i \in Nat /\ i # 0 /\ i <= Len(fm.entries)
  BY <1>2, <1>3
<1>5. fm' \in FilesRecords(Entered) /\ fm'.entries = fm.entries /\ fm'.selected = i
  BY <1>2, <1>3, <1>4 DEF FilesRecords
<1>6. RowKept(fm')
  BY <1>4, <1>5 DEF RowKept
<1> QED BY <1>1, <1>6, RowStep

LEMMA ClickRowStep == ASSUME DocsInv, Docs!ClickRow PROVE DocsInv'
<1>1. UNCHANGED <<files, slot, goes, torn>>
  BY DEF Docs!ClickRow, Docs!disk
<1>2. PICK row \in DOMAIN fm.entries :
          LET f == [fm EXCEPT !.selected = row]
          IN  Docs!Activate(f) \/ (fm' = f /\ UNCHANGED <<note, foreign, crossed>>)
  BY Zenon DEF Docs!ClickRow
<1> DEFINE f == [fm EXCEPT !.selected = row]
<1>3. /\ fm \in FilesRecords(Entered) /\ Len(fm.entries) \in Nat
      /\ DOMAIN fm.entries = 1 .. Len(fm.entries)
  BY DEF DocsInv, DocsTypes, RowKept, FilesRecords, Entered
<1>4. row \in Nat /\ row # 0 /\ row <= Len(fm.entries)
  BY <1>3
<1>5. f \in FilesRecords(Entered) /\ f.entries = fm.entries /\ f.selected = row
  BY <1>3, <1>4 DEF FilesRecords
<1>6. Docs!Activate(f) \/ (fm' = f /\ UNCHANGED <<note, foreign, crossed>>)
  BY <1>2
<1> HIDE DEF f
<1>7. RowKept(f)
  BY <1>4, <1>5 DEF RowKept
<1>8. CASE Docs!Activate(f)
  BY <1>1, <1>5, <1>7, <1>8, ActivateStep
<1>9. CASE fm' = f /\ UNCHANGED <<note, foreign, crossed>>
  BY <1>1, <1>7, <1>9, RowStep
<1> QED BY <1>6, <1>8, <1>9

LEMMA NavigateStep == ASSUME DocsInv, Docs!Navigate PROVE DocsInv'
<1>1. UNCHANGED <<files, slot, goes, note, torn, foreign, crossed>>
  BY DEF Docs!Navigate, Docs!disk
<1>2. RowKept(fm) /\ fm \in FilesRecords(Entered) /\ goes \in [Docs!Paths -> Docs!Paths]
  BY DEF DocsInv, DocsTypes, RowKept, PlacesKept
<1> DEFINE g == [fm EXCEPT !.cwd = fm.prev, !.prev = fm.cwd, !.selected = 0]
<1>3. g \in FilesRecords(Entered)
  <2>1. fm.cwd \in {Home, Folder} /\ fm.prev \in {Home, Folder}
    BY <1>2 DEF FilesRecords
  <2> QED BY <1>2, <2>1 DEF FilesRecords
<1>4. \/ fm' = Docs!GoneTo(Home)
      \/ fm' = Docs!Refreshed(g, Docs!There(files, folder))
      \/ fm' = Docs!Refreshed(fm, Docs!There(files, folder))
  BY DEF Docs!Navigate
<1> HIDE DEF g
<1>5. RowKept(fm')
  BY <1>2, <1>3, <1>4, GoneToKept, RefreshedKept
<1> QED BY <1>1, <1>5, RowStep

LEMMA ReopenStep == ASSUME DocsInv, Docs!Reopen PROVE DocsInv'
<1>1. UNCHANGED <<files, slot, goes, note, torn, foreign, crossed>>
  BY DEF Docs!Reopen, Docs!disk
<1> DEFINE g == [fm EXCEPT !.cwd = Home, !.prev = Home, !.selected = 0]
<1>2. fm \in FilesRecords(Entered) /\ goes \in [Docs!Paths -> Docs!Paths]
  BY DEF DocsInv, DocsTypes, RowKept, PlacesKept
<1>3. g \in FilesRecords(Entered)
  BY <1>2 DEF FilesRecords
<1>4. fm' = Docs!Refreshed(g, Docs!There(files, folder))
  BY DEF Docs!Reopen
<1> HIDE DEF g
<1>5. RowKept(fm')
  BY <1>2, <1>3, <1>4, RefreshedKept
<1> QED BY <1>1, <1>5, RowStep

\* A path that leads to the file that is deleted does so for Notepad as well.
LEMMA DeleteStep == ASSUME DocsInv, Docs!Delete PROVE DocsInv'
<1> DEFINE e == fm.entries[fm.selected]
<1>1. UNCHANGED <<note, torn, crossed>> /\ fm.selected # 0
      /\ fm' = Docs!Refreshed(fm, Docs!There(files', folder'))
  BY DEF Docs!Delete
<1>2. /\ RowKept(fm) /\ fm \in FilesRecords(Entered) /\ goes \in [Docs!Paths -> Docs!Paths] /\ DocsTypes
  BY DEF DocsInv, DocsTypes, RowKept, PlacesKept
<1>3. RowKept(fm')
  BY <1>1, <1>2, RefreshedKept
<1>4. CASE UNCHANGED <<files, slot, goes, foreign>>
  BY <1>1, <1>3, <1>4, RowStep
<1>5. ASSUME foreign' = (foreign \/ Docs!Leads(note.path) = Docs!Leads(e))
      PROVE  /\ foreign => foreign'
             /\ Docs!Leads(note.path) = Docs!Leads(e) => foreign'
  BY <1>5
<1>6. CASE /\ foreign' = (foreign \/ Docs!Leads(note.path) = Docs!Leads(e))
           /\ Docs!Exists(e) /\ Docs!Unlink(Docs!Leads(e))
  <2> DEFINE l == Docs!Leads(e)
  <2>1. l \in Docs!Paths
    BY <1>2, <1>6, ExistsIs
  <2>2. (foreign => foreign') /\ (Docs!Leads(note.path) = l => foreign')
    BY <1>5, <1>6
  <2>3. Docs!Unlink(l)
    BY <1>6
  <2> HIDE DEF l
  <2>4. /\ files' \in [Docs!Paths -> Stored \cup {None}] /\ PlacesKept(files', slot', goes')
        /\ files'[l] = None /\ \A q \in Docs!Paths : q # l => files'[q] = files[q]
        /\ \A p : Lead(files, slot, goes, p) # l =>
               Lead(files', slot', goes', p) = Lead(files, slot, goes, p)
    BY <1>2, <2>1, <2>3, UnlinkIs
  <2>5. FilesApart(files, crossed') => FilesApart(files', crossed')
    BY <2>1, <2>4, CutApart
  <2>6. ASSUME Held(note, Lead(files, slot, goes, note.path), files, foreign)
        PROVE  Held(note, Lead(files', slot', goes', note.path), files', foreign')
    <3> DEFINE k == Lead(files, slot, goes, note.path)
    <3>1. CASE foreign'
      BY <3>1 DEF Held
    <3>2. CASE ~foreign'
      <4>1. ~foreign /\ k # l
        BY <2>2, <3>2, LeadsAre
      <4>2. Lead(files', slot', goes', note.path) = k
        BY <2>4, <4>1
      <4>3. k # None => k \in Docs!Paths
        BY <1>2, LeadIs DEF DocsTypes
      <4> HIDE DEF k
      <4>4. Held(note, k, files, foreign)
        BY <2>6 DEF k
      <4> QED BY <2>4, <4>1, <4>2, <4>3, <4>4 DEF Held
    <3> QED BY <3>1, <3>2
  <2>7. crossed => crossed'
    BY <1>1
  <2> QED BY <1>1, <1>3, <2>4, <2>5, <2>6, <2>7, FilesStep
<1>7. CASE /\ foreign' = (foreign \/ Docs!Leads(note.path) = Docs!Leads(e))
           /\ UNCHANGED <<files, slot, goes>>
  <2>1. (foreign => foreign') /\ (crossed => crossed')
    BY <1>1, <1>5, <1>7
  <2>2. Held(note, Lead(files, slot, goes, note.path), files, foreign) =>
            Held(note, Lead(files', slot', goes', note.path), files', foreign')
    BY <1>7, <2>1 DEF Held
  <2>3. /\ files' \in [Docs!Paths -> Stored \cup {None}] /\ PlacesKept(files', slot', goes')
        /\ FilesApart(files, crossed') => FilesApart(files', crossed')
    BY <1>2, <1>7 DEF DocsTypes
  <2> QED BY <1>1, <1>3, <2>1, <2>2, <2>3, FilesStep
<1>8. \/ UNCHANGED <<files, slot, goes, foreign>>
      \/ /\ foreign' = (foreign \/ Docs!Leads(note.path) = Docs!Leads(e))
         /\ Docs!Exists(e) /\ Docs!Unlink(Docs!Leads(e))
      \/ /\ foreign' = (foreign \/ Docs!Leads(note.path) = Docs!Leads(e))
         /\ UNCHANGED <<files, slot, goes>>
  BY DEF Docs!Delete, Docs!disk
<1> QED BY <1>4, <1>6, <1>7, <1>8

LEMMA DocsStep == ASSUME DocsInv, Docs!Next PROVE DocsInv'
BY OpenNotepadStep, CloseNotepadStep, EditStep, ControlStep, EnterStep, EnterTornStep, SavedStep,
   SaveFailsStep, KeyEnterStep, KeyArrowStep, ClickRowStep, NavigateStep, DeleteStep, ReopenStep
   DEF Docs!Next

LEMMA DocsUnchanged == ASSUME DocsInv, UNCHANGED documentsVars PROVE DocsInv'
<1>1. UNCHANGED <<files, slot, goes, note, fm, torn, foreign, crossed>>
  BY DEF documentsVars
<1>2. RowKept(fm)
  BY DEF DocsInv, DocsTypes
<1> QED BY <1>1, <1>2, RowStep

LEMMA DocsStart == ASSUME Docs!Init PROVE DocsInv
<1> DEFINE n(p) == IF p \in Lengthy THEN MaxText + 1 ELSE 1
<1>1. files = [p \in Docs!Paths |-> IF p \in Docs!Untitled THEN None ELSE [i \in 1 .. n(p) |-> p]]
  BY DEF Docs!Init
<1>2. \A p : n(p) \in Nat
  BY DocsConstants
<1> HIDE DEF n
<1>3. \A p \in Docs!Paths : files[p] = None \/ files[p] = [i \in 1 .. n(p) |-> p]
  BY <1>1
<1>4. ASSUME NEW p \in Docs!Paths
      PROVE  [i \in 1 .. n(p) |-> p] \in Stored
             /\ \A c : Owned([i \in 1 .. n(p) |-> p], Owners(p, c))
  <2>1. n(p) \in Nat /\ \A c : p \in Owners(p, c)
    BY <1>2 DEF Owners
  <2> QED BY <2>1 DEF Stored, Owned
<1>5. files \in [Docs!Paths -> Stored \cup {None}]
  <2>1. \A p \in Docs!Paths : files[p] \in Stored \cup {None}
    BY <1>3, <1>4
  <2>2. files = [p \in Docs!Paths |-> files[p]]
    BY <1>1
  <2> QED BY <2>1, <2>2
<1>6. FilesApart(files, crossed)
  BY <1>3, <1>4 DEF FilesApart
<1>7. PlacesKept(files, slot, goes)
  <2>1. slot = [p \in Docs!Paths |-> IF p = Welcome THEN 1 ELSE 0] /\ goes = [p \in Docs!Paths |-> p]
    BY DEF Docs!Init
  <2>2. \A p \in Docs!Paths \ {Inner} : files[p] # None => p = Welcome
    BY <1>1 DEF Docs!Paths
  <2> QED BY <2>1, <2>2 DEF PlacesKept
<1>8. PICK c \in BOOLEAN : c = FALSE
  OBVIOUS
<1>9. note = [Docs!Empty EXCEPT !.open = c]
  BY <1>8, Zenon DEF Docs!Init
<1>10. /\ NoteTyped(note) /\ Held(note, Lead(files, slot, goes, note.path), files, foreign)
       /\ Own(note, crossed)
  BY <1>9, EmptyKept
<1> DEFINE S == {Welcome, Folder}
           e == Docs!SetToSeq(S)
<1>11. IsFiniteSet(S) /\ S \subseteq Docs!Paths \cup {Folder} /\ S # {}
  <2>1. S \subseteq Docs!Paths \cup {Folder}
    BY DocsConstants
  <2> QED BY <2>1, DocsConstants, FS_Subset
<1>12. fm = [cwd |-> Home, prev |-> Home, entries |-> e, selected |-> 1]
  BY DEF Docs!Init
<1> HIDE DEF S
<1>13. e \in Seq(S) /\ Len(e) = Cardinality(S)
  BY <1>11, DocsArranged
<1>14. Cardinality(S) \in Nat /\ Cardinality(S) # 0
  BY <1>11, FS_CardinalityType, FS_EmptySet
<1> HIDE DEF e
<1>15. e \in Entered /\ 1 <= Len(e)
  BY <1>11, <1>13, <1>14 DEF Entered
<1>16. fm \in FilesRecords(Entered) /\ fm.entries = e /\ fm.selected = 1
  BY <1>12, <1>15 DEF FilesRecords
<1>17. RowKept(fm)
  BY <1>15, <1>16 DEF RowKept
<1> QED BY <1>5, <1>6, <1>7, <1>10, <1>17 DEF DocsInv, DocsTypes

LEMMA DocsImplies == ASSUME DocsInv PROVE Docs!TypeOK /\ Docs!DocumentsSound
<1>1. /\ note.path \in Docs!Paths \cup {None} /\ Len(note.text) <= MaxText
      /\ \A p \in Docs!Paths : files[p] \in Stored \cup {None} /\ goes[p] \in Docs!Paths
  BY DEF DocsInv, DocsTypes, NoteTyped, NoteRecords, PlacesKept
<1>2. /\ fm.selected \in Nat /\ fm.selected <= Len(fm.entries) /\ Len(fm.entries) \in Nat
      /\ fm.entries # <<>> => fm.selected # 0
  BY DEF DocsInv, DocsTypes, RowKept, FilesRecords, Entered
<1>3. Docs!TypeOK
  BY <1>1, <1>2 DEF Docs!TypeOK, Docs!Stored, Stored
<1>4. Docs!SavedIsStored
  BY LeadsAre DEF DocsInv, Held, Docs!SavedIsStored, Docs!Exists, Docs!Text
<1>5. Docs!TextsApart
  <2> SUFFICES ASSUME ~torn, NEW p \in Docs!Paths, files[p] # None
               PROVE  Docs!ToSet(files[p]) \subseteq Owners(p, crossed)
    BY DEF Docs!TextsApart, Docs!Stored, Owners
  <2>1. \A i \in DOMAIN files[p] : files[p][i] \in Owners(p, crossed)
    BY DEF DocsInv, FilesApart, Owned
  <2> QED BY <2>1 DEF Docs!ToSet
<1> QED BY <1>3, <1>4, <1>5 DEF Docs!DocumentsSound

-----------------------------------------------------------------------------
(* The calculator: the pending operation is the one the entries ask for.      *)

Operations == Calc!Ops \cup {Calc!NoOp}

CalcTypes ==
    /\ shown.neg \in BOOLEAN /\ shown.mag \in 0 .. Largest
    /\ shown = [neg |-> shown.neg, mag |-> shown.mag]
    /\ error \in BOOLEAN /\ entering \in BOOLEAN
    /\ operandA \in Int /\ lastOperand \in Int /\ acc \in Int
    /\ pendingOp \in Operations /\ lastOp \in Operations
    /\ error => pendingOp = Calc!NoOp

\* What the calculator is about to do is what the history asks for; unless odd,
\* its first operand is what the entries gave so far.
EntriesKept ==
    /\ op = pendingOp
    /\ ~odd /\ op # Calc!NoOp => operandA = acc /\ (percent \/ (fresh <=> entering))

CalcInv == CalcTypes /\ EntriesKept /\ Calc!CalculatesInOrder

\* Numbers of the display.
LEMMA CalcConstants ==
    /\ Largest \in Nat /\ Largest > 8 /\ Largest % 10 = 9 /\ MaxResult \in Nat
    /\ Digits \subseteq 0 .. 9
    /\ Largest \div 10 \in Nat /\ Largest = 10 * (Largest \div 10) + 9
    /\ (Largest \div 10) \div 10 <= Largest \div 10
BY CalculatorAssumption

LEMMA AbsIs == \A n \in Int : Calc!Abs(n) \in Nat /\ (n # 0 => Calc!Abs(n) # 0)
BY DEF Calc!Abs

LEMMA ApplyTyped ==
    ASSUME NEW n \in Int, NEW o \in Calc!Ops, NEW m \in Int
    PROVE  Calc!Apply(n, o, m) \in Int
<1>1. o \in {"+", "-", "*", "/"}
  BY DEF Calc!Ops
<1>2. CASE o = "+"
  BY <1>2 DEF Calc!Apply
<1>3. CASE o = "-"
  BY <1>3 DEF Calc!Apply
<1>4. CASE o = "*"
  BY <1>4 DEF Calc!Apply
<1>5. CASE o = "/"
  <2>1. CASE m = 0
    <3>1. Calc!Undefined \in Int
      BY CalcConstants DEF Calc!Undefined, Calc!NoValue
    <3>2. Calc!Apply(n, o, m) = Calc!Undefined
      BY <1>5, <2>1 DEF Calc!Apply
    <3> QED BY <3>1, <3>2
  <2>2. CASE m # 0
    <3> DEFINE q == Calc!Abs(n) \div Calc!Abs(m)
    <3>1. Calc!Abs(n) \in Nat /\ Calc!Abs(m) \in Nat \ {0}
      BY <2>2, AbsIs
    <3>2. q \in Int
      BY <3>1
    <3>3. Calc!Apply(n, o, m) = q \/ Calc!Apply(n, o, m) = -q
      BY <1>5, <2>2 DEF Calc!Apply
    <3> HIDE DEF q
    <3> QED BY <3>2, <3>3
  <2> QED BY <2>1, <2>2
<1> QED BY <1>1, <1>2, <1>3, <1>4, <1>5

\* A division by zero gives what is never shown.
LEMMA UndefinedUnfit == ~Calc!Fits(Calc!Undefined)
<1>1. Largest * Largest >= Largest
  BY CalcConstants
<1>2. Calc!Undefined \in Int /\ Calc!Undefined > Largest
  BY <1>1, CalcConstants DEF Calc!Undefined, Calc!NoValue
<1> HIDE DEF Calc!Undefined
<1> QED BY <1>2, CalcConstants DEF Calc!Fits, Calc!Room, Calc!Abs

LEMMA ZeroIs ==
    /\ Calc!Zero.neg \in BOOLEAN /\ ~Calc!Zero.neg /\ Calc!Zero.mag = 0
    /\ Calc!Zero = [neg |-> Calc!Zero.neg, mag |-> Calc!Zero.mag]
<1>1. ~Calc!Zero.neg /\ Calc!Zero.mag = 0
  BY DEF Calc!Zero
<1>2. Calc!Zero.neg \in BOOLEAN /\ Calc!Zero = [neg |-> Calc!Zero.neg, mag |-> Calc!Zero.mag]
  BY Zenon DEF Calc!Zero
<1> QED BY <1>1, <1>2

LEMMA ValueTyped == ASSUME CalcTypes PROVE Calc!Value(shown) \in Int
BY CalcConstants DEF CalcTypes, Calc!Value

\* A result is shown, or an error.
LEMMA ShowKept ==
    ASSUME NEW v \in Int, NEW k \in Operations, Calc!Show(v, k)
    PROVE  /\ shown'.neg \in BOOLEAN /\ shown'.mag \in 0 .. Largest
           /\ shown' = [neg |-> shown'.neg, mag |-> shown'.mag]
           /\ error' \in BOOLEAN /\ entering' \in BOOLEAN /\ ~entering'
           /\ pendingOp' = (IF error' THEN Calc!NoOp ELSE k)
           /\ Calc!Fits(v) => ~error' /\ Calc!Value(shown') = v
           /\ ~Calc!Fits(v) => error'
<1>1. CASE Calc!Fits(v)
  <2>1. shown' = [neg |-> v < 0, mag |-> Calc!Abs(v)] /\ ~error' /\ ~entering' /\ pendingOp' = k
    BY <1>1 DEF Calc!Show, Calc!Number
  <2>2. error' \in BOOLEAN /\ entering' \in BOOLEAN
    BY <1>1, Zenon DEF Calc!Show
  <2>3. shown'.neg \in BOOLEAN /\ (shown'.neg <=> v < 0) /\ shown'.mag = Calc!Abs(v)
    <3>1. PICK b \in BOOLEAN : b <=> v < 0
      OBVIOUS
    <3>2. b = (v < 0)
      BY <3>1
    <3>3. shown' = [neg |-> b, mag |-> Calc!Abs(v)]
      BY <2>1, <3>2
    <3> QED BY <3>1, <3>3
  <2>4. Calc!Abs(v) \in 0 .. Largest
    BY <1>1, AbsIs, CalcConstants DEF Calc!Fits, Calc!Room
  <2>5. Calc!Value(shown') = v
    BY <2>3 DEF Calc!Value, Calc!Abs
  <2> QED BY <1>1, <2>1, <2>2, <2>3, <2>4, <2>5
<1>2. CASE ~Calc!Fits(v)
  <2>1. shown' = Calc!Zero /\ error' /\ ~entering' /\ pendingOp' = Calc!NoOp
    BY <1>2 DEF Calc!Show
  <2>2. error' \in BOOLEAN /\ entering' \in BOOLEAN
    BY <1>2, Zenon DEF Calc!Show
  <2>3. shown'.neg \in BOOLEAN /\ shown'.mag = 0 /\ shown' = [neg |-> shown'.neg, mag |-> shown'.mag]
    BY <2>1, ZeroIs
  <2> QED BY <1>2, <2>1, <2>2, <2>3, CalcConstants
<1> QED BY <1>1, <1>2

-----------------------------------------------------------------------------

LEMMA CalcStart == ASSUME Calc!Init PROVE CalcInv
<1>1. /\ shown = Calc!Zero /\ operandA = 0 /\ pendingOp = Calc!NoOp /\ lastOp = Calc!NoOp
      /\ lastOperand = 0 /\ acc = 0 /\ op = Calc!NoOp /\ expected = Calc!NoValue
  BY DEF Calc!Init
<1>2. error \in BOOLEAN /\ entering \in BOOLEAN
  BY Zenon DEF Calc!Init
<1>3. CalcTypes
  BY <1>1, <1>2, ZeroIs, CalcConstants DEF CalcTypes, Operations
<1>4. EntriesKept
  BY <1>1 DEF EntriesKept
<1> QED BY <1>1, <1>3, <1>4 DEF CalcInv, Calc!CalculatesInOrder

\* What an error leaves is cleared.
LEMMA ClearedKept ==
    ASSUME Calc!Cleared
    PROVE  /\ operandA' = 0 /\ pendingOp' = Calc!NoOp /\ lastOp' = Calc!NoOp /\ lastOperand' = 0
           /\ error' \in BOOLEAN /\ entering' \in BOOLEAN /\ ~error' /\ entering'
<1>1. error' \in BOOLEAN /\ entering' \in BOOLEAN
  BY Zenon DEF Calc!Cleared, Calc!Forgotten
<1> QED BY <1>1 DEF Calc!Cleared, Calc!Forgotten

LEMMA DigitStep == ASSUME CalcInv, Calc!Digit PROVE CalcInv'
<1>1. PICK k \in Digits :
         LET d == IF error \/ ~entering THEN Calc!Zero ELSE shown
         IN  shown' = IF d.mag = 0 THEN [d EXCEPT !.mag = k]
                      ELSE IF d.mag > Calc!Room(d.neg) \div 10 THEN d
                      ELSE [d EXCEPT !.mag = 10 * d.mag + k]
  BY DEF Calc!Digit
<1> DEFINE d == IF error \/ ~entering THEN Calc!Zero ELSE shown
<1>2. CalcTypes /\ EntriesKept /\ k \in 0 .. 9
  BY CalcConstants DEF CalcInv
<1>3. d.neg \in BOOLEAN /\ d.mag \in 0 .. Largest /\ d = [neg |-> d.neg, mag |-> d.mag]
  BY <1>2, ZeroIs, CalcConstants DEF CalcTypes
<1>4. shown' = IF d.mag = 0 THEN [d EXCEPT !.mag = k]
               ELSE IF d.mag > Calc!Room(d.neg) \div 10 THEN d
               ELSE [d EXCEPT !.mag = 10 * d.mag + k]
  BY <1>1
<1> HIDE DEF d
<1>5. /\ shown'.neg \in BOOLEAN /\ shown'.mag \in 0 .. Largest
      /\ shown' = [neg |-> shown'.neg, mag |-> shown'.mag]
  <2>1. CASE d.mag = 0
    <3>1. shown' = [neg |-> d.neg, mag |-> k]
      BY <1>3, <1>4, <2>1
    <3> QED BY <1>2, <1>3, <3>1, CalcConstants
  <2>2. CASE d.mag # 0 /\ d.mag > Calc!Room(d.neg) \div 10
    BY <1>3, <1>4, <2>2
  <2>3. CASE d.mag # 0 /\ ~(d.mag > Calc!Room(d.neg) \div 10)
    <3>1. shown' = [neg |-> d.neg, mag |-> 10 * d.mag + k]
      BY <1>3, <1>4, <2>3
    <3>2. d.mag <= Largest \div 10
      BY <1>3, <2>3, CalcConstants DEF Calc!Room
    <3>3. 10 * d.mag + k \in 0 .. Largest
      BY <1>2, <1>3, <3>2, CalcConstants
    <3> QED BY <1>3, <3>1, <3>3
  <2> QED BY <2>1, <2>2, <2>3
<1>6. expected' = Calc!NoValue /\ op' = (IF error THEN Calc!NoOp ELSE op) /\ fresh' /\ ~percent'
      /\ acc' = acc /\ odd' = odd
  BY DEF Calc!Digit, Calc!Entered
<1>7. CASE error
  <2>1. Calc!Cleared
    BY <1>7 DEF Calc!Digit
  <2>2. CalcTypes'
    BY <1>2, <1>5, <1>6, <2>1, ClearedKept DEF CalcTypes, Operations
  <2>3. EntriesKept'
    BY <1>6, <1>7, <2>1, ClearedKept DEF EntriesKept
  <2> QED BY <1>6, <2>2, <2>3 DEF CalcInv, Calc!CalculatesInOrder
<1>8. CASE ~error
  <2>1. /\ entering' = TRUE /\ operandA' = operandA /\ pendingOp' = pendingOp /\ error' = error
        /\ \/ lastOp' = Calc!NoOp /\ lastOperand' = 0
           \/ lastOp' = lastOp /\ lastOperand' = lastOperand
    BY <1>8 DEF Calc!Digit
  <2>2. entering' \in BOOLEAN /\ entering'
    <3>1. entering' \in BOOLEAN
      BY <2>1, Zenon
    <3> QED BY <2>1, <3>1
  <2>3. CalcTypes'
    BY <1>2, <1>5, <1>6, <2>1, <2>2 DEF CalcTypes, Operations
  <2>4. EntriesKept'
    BY <1>2, <1>6, <1>8, <2>1, <2>2 DEF EntriesKept
  <2> QED BY <1>6, <2>3, <2>4 DEF CalcInv, Calc!CalculatesInOrder
<1> QED BY <1>7, <1>8

LEMMA ToggleSignStep == ASSUME CalcInv, Calc!ToggleSign PROVE CalcInv'
<1> DEFINE d == IF error THEN Calc!Zero ELSE shown
           full == ~d.neg /\ d.mag > Calc!Room(TRUE)
<1>1. /\ shown' = (IF full THEN d ELSE [d EXCEPT !.neg = ~d.neg])
      /\ IF error THEN Calc!Cleared
         ELSE /\ operandA' = (IF full THEN operandA ELSE Calc!Value(shown'))
              /\ entering' = (entering \/ ~full)
              /\ pendingOp' = pendingOp /\ lastOp' = lastOp
              /\ lastOperand' = lastOperand /\ error' = error
      /\ op' = (IF error THEN Calc!NoOp ELSE op)
      /\ expected' = Calc!NoValue /\ acc' = acc
      /\ odd' = (odd \/ op # Calc!NoOp)
  BY DEF Calc!ToggleSign, Calc!Entered
<1>2. CalcTypes /\ EntriesKept
  BY DEF CalcInv
<1>3. d.neg \in BOOLEAN /\ d.mag \in 0 .. Largest /\ d = [neg |-> d.neg, mag |-> d.mag]
  BY <1>2, ZeroIs, CalcConstants DEF CalcTypes
<1> HIDE DEF d
<1>4. /\ shown'.neg \in BOOLEAN /\ shown'.mag \in 0 .. Largest
      /\ shown' = [neg |-> shown'.neg, mag |-> shown'.mag]
  <2>1. CASE full
    BY <1>1, <1>3, <2>1
  <2>2. CASE ~full
    <3>1. PICK n \in BOOLEAN : n = ~d.neg
      BY <1>3
    <3>2. shown' = [neg |-> n, mag |-> d.mag]
      BY <1>1, <1>3, <2>2, <3>1
    <3> QED BY <1>3, <3>2
  <2> QED BY <2>1, <2>2
<1>5. Calc!Value(shown') \in Int
  BY <1>4, CalcConstants DEF Calc!Value
<1> HIDE DEF full
<1>6. CASE error
  <2>1. CalcTypes'
    BY <1>1, <1>2, <1>4, <1>6, ClearedKept DEF CalcTypes, Operations
  <2>2. EntriesKept'
    BY <1>1, <1>6, ClearedKept DEF EntriesKept
  <2> QED BY <1>1, <2>1, <2>2 DEF CalcInv, Calc!CalculatesInOrder
<1>7. CASE ~error
  <2>1. CalcTypes'
    <3>1. entering' \in BOOLEAN
      BY <1>1, <1>7, Zenon
    <3>2. operandA' \in Int
      BY <1>1, <1>2, <1>5, <1>7 DEF CalcTypes
    <3> QED BY <1>1, <1>2, <1>4, <1>7, <3>1, <3>2 DEF CalcTypes, Operations
  <2>2. EntriesKept'
    BY <1>1, <1>2, <1>7 DEF EntriesKept
  <2> QED BY <1>1, <2>1, <2>2 DEF CalcInv, Calc!CalculatesInOrder
<1> QED BY <1>6, <1>7

LEMMA BackspaceStep == ASSUME CalcInv, Calc!Backspace PROVE CalcInv'
<1>1. /\ IF error THEN shown' = Calc!Zero /\ Calc!Cleared
         ELSE /\ shown' = (IF shown.mag < 10 THEN Calc!Zero ELSE [shown EXCEPT !.mag = shown.mag \div 10])
              /\ entering' = TRUE
              /\ operandA' = operandA /\ pendingOp' = pendingOp /\ lastOp' = lastOp
              /\ lastOperand' = lastOperand /\ error' = error
      /\ op' = (IF error THEN Calc!NoOp ELSE op) /\ fresh' /\ ~percent'
      /\ expected' = Calc!NoValue /\ acc' = acc /\ odd' = odd
  BY DEF Calc!Backspace, Calc!Entered
<1>2. CalcTypes /\ EntriesKept
  BY DEF CalcInv
<1>3. CASE error
  <2>1. CalcTypes'
    BY <1>1, <1>2, <1>3, ClearedKept, ZeroIs, CalcConstants DEF CalcTypes, Operations
  <2>2. EntriesKept'
    BY <1>1, <1>3, ClearedKept DEF EntriesKept
  <2> QED BY <1>1, <2>1, <2>2 DEF CalcInv, Calc!CalculatesInOrder
<1>4. CASE ~error
  <2>1. /\ shown'.neg \in BOOLEAN /\ shown'.mag \in 0 .. Largest
        /\ shown' = [neg |-> shown'.neg, mag |-> shown'.mag]
    <3>1. CASE shown.mag < 10
      BY <1>1, <1>4, <3>1, ZeroIs, CalcConstants
    <3>2. CASE ~(shown.mag < 10)
      <4>1. shown.mag \div 10 \in 0 .. Largest
        BY <1>2, CalcConstants DEF CalcTypes
      <4>2. shown' = [neg |-> shown.neg, mag |-> shown.mag \div 10]
        BY <1>1, <1>2, <1>4, <3>2 DEF CalcTypes
      <4> QED BY <1>2, <4>1, <4>2 DEF CalcTypes
    <3> QED BY <3>1, <3>2
  <2>2. entering' \in BOOLEAN /\ entering'
    <3>1. entering' \in BOOLEAN
      BY <1>1, <1>4, Zenon
    <3> QED BY <1>1, <1>4, <3>1
  <2>3. CalcTypes'
    BY <1>1, <1>2, <1>4, <2>1, <2>2 DEF CalcTypes, Operations
  <2>4. EntriesKept'
    BY <1>1, <1>2, <1>4, <2>2 DEF EntriesKept
  <2> QED BY <1>1, <2>3, <2>4 DEF CalcInv, Calc!CalculatesInOrder
<1> QED BY <1>3, <1>4

LEMMA PercentStep == ASSUME CalcInv, Calc!Percent PROVE CalcInv'
<1> DEFINE whole == IF pendingOp = Calc!NoOp THEN Calc!Value(shown) ELSE operandA * Calc!Value(shown)
           v == IF whole < 0 THEN -(Calc!Abs(whole) \div 100) ELSE whole \div 100
<1>1. /\ op' = (IF error \/ error' THEN Calc!NoOp ELSE op) /\ percent'
      /\ expected' = Calc!NoValue
      /\ acc' = acc /\ odd' = odd
  BY DEF Calc!Percent
<1>2. CalcTypes /\ EntriesKept
  BY DEF CalcInv
<1>3. v \in Int
  <2>1. whole \in Int
    BY <1>2, ValueTyped DEF CalcTypes
  <2> HIDE DEF whole
  <2> QED BY <2>1, AbsIs
<1>4. CASE error
  <2>1. /\ shown' = Calc!Zero /\ operandA' = 0 /\ pendingOp' = Calc!NoOp
        /\ lastOp' = Calc!NoOp /\ lastOperand' = 0
    BY <1>4 DEF Calc!Percent, Calc!Forgotten
  <2>2. error' \in BOOLEAN /\ entering' \in BOOLEAN
    BY <1>4, Zenon DEF Calc!Percent, Calc!Forgotten
  <2>3. CalcTypes'
    BY <1>1, <1>2, <2>1, <2>2, ZeroIs, CalcConstants DEF CalcTypes, Operations
  <2>4. EntriesKept'
    BY <1>1, <1>4, <2>1 DEF EntriesKept
  <2> QED BY <1>1, <2>3, <2>4 DEF CalcInv, Calc!CalculatesInOrder
<1>5. CASE ~error
  <2>1. /\ Calc!Show(v, pendingOp)
        /\ operandA' = operandA /\ lastOp' = lastOp /\ lastOperand' = lastOperand
    BY <1>5 DEF Calc!Percent
  <2> HIDE DEF v
  <2>2. /\ shown'.neg \in BOOLEAN /\ shown'.mag \in 0 .. Largest
        /\ shown' = [neg |-> shown'.neg, mag |-> shown'.mag]
        /\ error' \in BOOLEAN /\ entering' \in BOOLEAN
        /\ pendingOp' = (IF error' THEN Calc!NoOp ELSE pendingOp)
    BY <1>2, <1>3, <2>1, ShowKept DEF CalcTypes
  <2>3. CalcTypes'
    BY <1>1, <1>2, <2>1, <2>2 DEF CalcTypes, Operations
  <2>4. EntriesKept'
    BY <1>1, <1>2, <1>5, <2>1, <2>2 DEF EntriesKept
  <2> QED BY <1>1, <2>3, <2>4 DEF CalcInv, Calc!CalculatesInOrder
<1> QED BY <1>4, <1>5

LEMMA ClearStep == ASSUME CalcInv, Calc!ClearEntry \/ Calc!AllClear PROVE CalcInv'
<1>1. CalcTypes /\ EntriesKept
  BY DEF CalcInv
<1>2. /\ shown' = Calc!Zero /\ expected' = Calc!NoValue /\ acc' = acc /\ odd' = odd
      /\ fresh' /\ ~percent'
  BY DEF Calc!ClearEntry, Calc!AllClear, Calc!Entered
<1>3. CASE Calc!ClearEntry
  <2>1. /\ entering' = TRUE /\ error' = FALSE
        /\ operandA' = operandA /\ pendingOp' = pendingOp /\ lastOp' = lastOp
        /\ lastOperand' = lastOperand /\ op' = (IF error THEN Calc!NoOp ELSE op)
    BY <1>3 DEF Calc!ClearEntry, Calc!Entered
  <2>2. entering' \in BOOLEAN /\ error' \in BOOLEAN
    BY <2>1, Zenon
  <2>3. entering' /\ ~error'
    BY <2>1
  <2>4. CalcTypes'
    BY <1>1, <1>2, <2>1, <2>2, <2>3, ZeroIs, CalcConstants DEF CalcTypes, Operations
  <2>5. EntriesKept'
    BY <1>1, <1>2, <2>1, <2>3 DEF EntriesKept, CalcTypes
  <2> QED BY <1>2, <2>4, <2>5 DEF CalcInv, Calc!CalculatesInOrder
<1>4. CASE Calc!AllClear
  <2>1. Calc!Cleared /\ op' = Calc!NoOp
    BY <1>4 DEF Calc!AllClear
  <2>2. CalcTypes'
    BY <1>1, <1>2, <2>1, ClearedKept, ZeroIs, CalcConstants DEF CalcTypes, Operations
  <2>3. EntriesKept'
    BY <2>1, ClearedKept DEF EntriesKept
  <2> QED BY <1>2, <2>2, <2>3 DEF CalcInv, Calc!CalculatesInOrder
<1> QED BY <1>3, <1>4

LEMMA EvaluateStep == ASSUME CalcInv, Calc!Evaluate PROVE CalcInv'
<1> DEFINE n == Calc!Value(shown)
<1>1. CalcTypes /\ EntriesKept /\ n \in Int /\ ~error
  BY ValueTyped DEF CalcInv, Calc!Evaluate
<1>2. /\ IF pendingOp # Calc!NoOp
         THEN /\ Calc!Show(Calc!Apply(operandA, pendingOp, n), Calc!NoOp)
              /\ \/ operandA' = operandA /\ lastOp' = lastOp /\ lastOperand' = lastOperand
                 \/ /\ operandA' = Calc!Apply(operandA, pendingOp, n)
                    /\ lastOp' = pendingOp /\ lastOperand' = n
         ELSE IF lastOp # Calc!NoOp
         THEN /\ Calc!Show(Calc!Apply(n, lastOp, lastOperand), Calc!NoOp)
              /\ operandA' \in {operandA, Calc!Apply(n, lastOp, lastOperand)}
              /\ lastOp' = lastOp /\ lastOperand' = lastOperand
         ELSE UNCHANGED <<shown, error, entering, operandA, pendingOp, lastOp, lastOperand>>
      /\ expected' = (IF op = Calc!NoOp THEN Calc!NoValue ELSE Calc!Apply(acc, op, n))
      /\ op' = Calc!NoOp /\ acc' = acc /\ odd' = odd
  BY DEF Calc!Evaluate, Calc!First
<1> HIDE DEF n
<1>3. Calc!NoOp \in Operations
  BY DEF Operations
<1>4. CASE pendingOp # Calc!NoOp
  <2> DEFINE v == Calc!Apply(operandA, pendingOp, n)
  <2>1. v \in Int /\ pendingOp \in Calc!Ops
    BY <1>1, <1>4, ApplyTyped DEF CalcTypes, Operations
  <2>2. /\ shown'.neg \in BOOLEAN /\ shown'.mag \in 0 .. Largest
        /\ shown' = [neg |-> shown'.neg, mag |-> shown'.mag]
        /\ error' \in BOOLEAN /\ entering' \in BOOLEAN
        /\ pendingOp' = Calc!NoOp
        /\ Calc!Fits(v) => ~error' /\ Calc!Value(shown') = v
        /\ ~Calc!Fits(v) => error'
    BY <1>2, <1>3, <1>4, <2>1, ShowKept
  <2> HIDE DEF v
  <2>3. CalcTypes'
    BY <1>1, <1>2, <1>3, <1>4, <2>1, <2>2 DEF CalcTypes, v
  <2>4. EntriesKept'
    BY <1>2, <2>2 DEF EntriesKept
  <2>5. ~odd' => expected' = v
    BY <1>1, <1>2, <1>4 DEF EntriesKept, v
  <2>6. Calc!CalculatesInOrder'
    BY <2>2, <2>5 DEF Calc!CalculatesInOrder
  <2> QED BY <2>3, <2>4, <2>6 DEF CalcInv
<1>5. CASE pendingOp = Calc!NoOp
  <2>1. expected' = Calc!NoValue
    BY <1>1, <1>2, <1>5 DEF EntriesKept
  <2>2. CASE lastOp # Calc!NoOp
    <3> DEFINE v == Calc!Apply(n, lastOp, lastOperand)
    <3>1. v \in Int
      BY <1>1, <2>2, ApplyTyped DEF CalcTypes, Operations
    <3>2. /\ shown'.neg \in BOOLEAN /\ shown'.mag \in 0 .. Largest
          /\ shown' = [neg |-> shown'.neg, mag |-> shown'.mag]
          /\ error' \in BOOLEAN /\ entering' \in BOOLEAN
          /\ pendingOp' = Calc!NoOp
      BY <1>2, <1>3, <1>5, <2>2, <3>1, ShowKept
    <3> HIDE DEF v
    <3>3. CalcTypes'
      BY <1>1, <1>2, <1>3, <1>5, <2>2, <3>1, <3>2 DEF CalcTypes, v
    <3>4. EntriesKept'
      BY <1>2, <3>2 DEF EntriesKept
    <3> QED BY <2>1, <3>3, <3>4 DEF CalcInv, Calc!CalculatesInOrder
  <2>3. CASE lastOp = Calc!NoOp
    <3>1. CalcTypes'
      BY <1>1, <1>2, <1>5, <2>3 DEF CalcTypes
    <3>2. EntriesKept'
      BY <1>2, <1>5, <2>3 DEF EntriesKept
    <3> QED BY <2>1, <3>1, <3>2 DEF CalcInv, Calc!CalculatesInOrder
  <2> QED BY <2>2, <2>3
<1> QED BY <1>4, <1>5

LEMMA SetOperatorStep == ASSUME CalcInv, Calc!SetOperator PROVE CalcInv'
<1> DEFINE n == Calc!Value(shown)
<1>1. CalcTypes /\ EntriesKept /\ n \in Int /\ ~error
  BY ValueTyped DEF CalcInv, Calc!SetOperator
<1>2. PICK k \in Calc!Ops : Calc!Operator(k) /\ op' = (IF error' THEN Calc!NoOp ELSE k)
  BY DEF Calc!SetOperator
<1>3. /\ acc' = (IF op = Calc!NoOp THEN n ELSE IF fresh THEN Calc!Apply(acc, op, n) ELSE acc)
      /\ odd' = (odd \/ (op # Calc!NoOp /\ percent))
      /\ ~fresh' /\ ~percent' /\ expected' = Calc!NoValue
      /\ lastOp' = lastOp /\ lastOperand' = lastOperand
  BY DEF Calc!SetOperator
<1>4. /\ pendingOp # Calc!NoOp /\ entering =>
             /\ Calc!Show(Calc!Apply(operandA, pendingOp, n), k)
             /\ operandA' = (IF pendingOp = "/" /\ n = 0 THEN operandA
                             ELSE Calc!Apply(operandA, pendingOp, n))
      /\ ~(pendingOp # Calc!NoOp /\ entering) =>
             /\ operandA' = (IF pendingOp = Calc!NoOp THEN n ELSE operandA)
             /\ pendingOp' = k /\ entering' = FALSE /\ shown' = shown /\ error' = error
  BY <1>2 DEF Calc!Operator, Calc!First
<1> HIDE DEF n
<1>5. k \in Operations /\ k # Calc!NoOp
  BY DEF Operations, Calc!Ops, Calc!NoOp
<1>6. acc' \in Int
  BY <1>1, <1>3, ApplyTyped DEF CalcTypes, Operations, EntriesKept
<1>7. CASE pendingOp # Calc!NoOp /\ entering
  <2> DEFINE v == Calc!Apply(operandA, pendingOp, n)
  <2>1. v \in Int
    BY <1>1, <1>7, ApplyTyped DEF CalcTypes, Operations
  <2>2. /\ shown'.neg \in BOOLEAN /\ shown'.mag \in 0 .. Largest
        /\ shown' = [neg |-> shown'.neg, mag |-> shown'.mag]
        /\ error' \in BOOLEAN /\ entering' \in BOOLEAN /\ ~entering'
        /\ pendingOp' = (IF error' THEN Calc!NoOp ELSE k)
        /\ ~Calc!Fits(v) => error'
    BY <1>4, <1>5, <1>7, <2>1, ShowKept
  <2>3. ~error' => operandA' = v
    <3>1. pendingOp = "/" /\ n = 0 => v = Calc!Undefined
      BY DEF Calc!Apply
    <3> QED BY <1>4, <1>7, <2>2, <3>1, UndefinedUnfit
  <2>4. operandA' \in Int
    BY <1>1, <1>4, <1>7, <2>1 DEF CalcTypes
  <2> HIDE DEF v
  <2>5. CalcTypes'
    BY <1>1, <1>3, <1>5, <1>6, <2>2, <2>4 DEF CalcTypes, Operations
  <2>6. ~odd' => acc' = v
    BY <1>1, <1>3, <1>7 DEF EntriesKept, v
  <2>7. EntriesKept'
    BY <1>2, <1>3, <2>2, <2>3, <2>6 DEF EntriesKept
  <2> QED BY <1>3, <2>5, <2>7 DEF CalcInv, Calc!CalculatesInOrder
<1>8. CASE ~(pendingOp # Calc!NoOp /\ entering)
  <2>1. /\ operandA' = (IF pendingOp = Calc!NoOp THEN n ELSE operandA)
        /\ pendingOp' = k /\ entering' = FALSE /\ shown' = shown /\ error' = error
    BY <1>4, <1>8
  <2>2. entering' \in BOOLEAN /\ ~entering'
    <3>1. entering' \in BOOLEAN
      BY <2>1, Zenon
    <3> QED BY <2>1, <3>1
  <2>3. CalcTypes'
    BY <1>1, <1>3, <1>5, <1>6, <2>1, <2>2 DEF CalcTypes
  <2>4. EntriesKept'
    BY <1>1, <1>2, <1>3, <1>8, <2>1, <2>2 DEF EntriesKept
  <2> QED BY <1>3, <2>3, <2>4 DEF CalcInv, Calc!CalculatesInOrder
<1> QED BY <1>7, <1>8

LEMMA CalcStep == ASSUME CalcInv, Calc!Next PROVE CalcInv'
BY DigitStep, ToggleSignStep, BackspaceStep, PercentStep, ClearStep, EvaluateStep, SetOperatorStep
   DEF Calc!Next

LEMMA CalcUnchanged == ASSUME CalcInv, UNCHANGED calculatorVars PROVE CalcInv'
BY DEF CalcInv, CalcTypes, EntriesKept, Calc!CalculatesInOrder, Calc!Fits, Calc!Value, calculatorVars

LEMMA CalcImplies == ASSUME CalcInv PROVE Calc!TypeOK /\ Calc!CalculatesInOrder
BY DEF CalcInv, CalcTypes, Operations, Calc!TypeOK

-----------------------------------------------------------------------------
(* The specification. *)

\* A frame has as many references as it has uses, through faults that find no
\* memory, copies and pages freed in part; and as long as all directories share
\* the heap's table a page shows what was last written to it (mm/paging.c,
\* mm/vm.c).
THEOREM MemoryAlwaysSound == Spec => []MemorySound
<1> DEFINE Inv == part = "space" => SpaceInv
<1>1. Init => Inv
  BY Zenon, SpaceStart DEF Init
<1>2. Inv /\ [Next]_vars => Inv'
  <2> SUFFICES ASSUME Inv, [Next]_vars, part' = "space" PROVE SpaceInv'
    OBVIOUS
  <2>1. CASE Next
    BY Zenon, <2>1, SpaceStep DEF Next, Of
  <2>2. CASE UNCHANGED vars
    <3>1. UNCHANGED part /\ UNCHANGED spaceVars
      BY <2>2 DEF vars
    <3> QED BY <3>1, SpaceUnchanged DEF spaceVars
  <2> QED BY <2>1, <2>2
<1>3. Inv => MemorySound
  BY SpaceImplies DEF MemorySound
<1> QED BY <1>1, <1>2, <1>3, PTL DEF Spec

\* Loading, running, ending and crashing processes leave the frames of each one
\* apart, the text as the image had it and out of the process's reach, and the
\* caller's context as it was; the kernel faults on a process's behalf only in a
\* listing of more entries than 32 bits can size (src/kernel/userland.c, cpu/idt.c).
THEOREM ProcessesAlwaysSound == Spec => []ProcessesSound
<1> DEFINE Inv == part = "user" => UserInv
<1>1. Init => Inv
  BY Zenon, UserStart DEF Init
<1>2. Inv /\ [Next]_vars => Inv'
  <2> SUFFICES ASSUME Inv, [Next]_vars, part' = "user" PROVE UserInv'
    OBVIOUS
  <2>1. CASE Next
    BY Zenon, <2>1, UserStep DEF Next, Of
  <2>2. CASE UNCHANGED vars
    <3>1. UNCHANGED part /\ UNCHANGED userVars
      BY <2>2 DEF vars
    <3> QED BY <3>1, UserUnchanged
  <2> QED BY <2>1, <2>2
<1>3. Inv => ProcessesSound
  BY UserImplies DEF ProcessesSound
<1> QED BY <1>1, <1>2, <1>3, PTL DEF Spec

\* Until a long name is adopted by another entry, a path leads to what was last
\* given that name, or a longer one whose 8.3 form it is, and a directory that is
\* deleted leaves nothing named in it (vfs_to_83, fat32_dir_find,
\* fat32_dir_create_entry, vfs_delete, vfs_rename).
THEOREM NamesAlwaysResolve == Spec => []NamesResolve
<1> DEFINE Inv == part = "names" => NamesInv
<1>1. Init => Inv
  BY Zenon, NamesStart DEF Init
<1>2. Inv /\ [Next]_vars => Inv'
  <2> SUFFICES ASSUME Inv, [Next]_vars, part' = "names" PROVE NamesInv'
    OBVIOUS
  <2>1. CASE Next
    BY Zenon, <2>1, NamesStep DEF Next, Of
  <2>2. CASE UNCHANGED vars
    <3>1. UNCHANGED part /\ UNCHANGED namesVars
      BY <2>2 DEF vars
    <3> QED BY <3>1, NamesUnchanged
  <2> QED BY <2>1, <2>2
<1>3. Inv => NamesResolve
  BY NamesImplies DEF NamesResolve
<1> QED BY <1>1, <1>2, <1>3, PTL DEF Spec

\* A drive holds the last save that was flushed to it whole, unless saves that
\* were broken off since have left sectors among it, and a boot without failures
\* finds that save or a later one (kmain, drivers/ramdisk.c, fs/blkdev.c).
THEOREM DriveAlwaysKept == Spec => []DriveKept
<1> DEFINE Inv == part = "store" => StoreInv
<1>1. Init => Inv
  BY StoreStart DEF Init
<1>2. Inv /\ [Next]_vars => Inv'
  <2> SUFFICES ASSUME Inv, [Next]_vars, part' = "store" PROVE StoreInv'
    OBVIOUS
  <2>1. CASE Next
    BY Zenon, <2>1, StoreStep DEF Next, Of
  <2>2. CASE UNCHANGED vars
    <3>1. UNCHANGED part /\ UNCHANGED storeVars
      BY <2>2 DEF vars
    <3> QED BY <3>1, StoreUnchanged
  <2> QED BY <2>1, <2>2
<1>3. Inv => DriveKept
  BY StoreImplies DEF DriveKept
<1> QED BY <1>1, <1>2, <1>3, PTL DEF Spec

\* Keys come out of the ring once and in order unless it was cleared; the
\* pointer the desktop loop draws is the last one reported; every request for
\* a synchronisation is served; every sound is played whole and from its own
\* buffer, and a tone ends (drivers/keyboard.c, mouse.c, pit.c, sb16.c,
\* speaker.c and audio).
THEOREM DevicesAlwaysSound == Spec => []DevicesSound
<1> DEFINE Inv == (part = "input" => InputInv) /\ (part = "sound" => SoundInv)
<1>1. Init => Inv
  BY Zenon, InputStart, SoundStart DEF Init
<1>2. Inv /\ [Next]_vars => Inv'
  <2> SUFFICES ASSUME Inv, [Next]_vars PROVE Inv'
    OBVIOUS
  <2>1. CASE Next
    <3>1. ASSUME part' = "input" PROVE InputInv'
      BY Zenon, <2>1, <3>1, InputStep DEF Next, Of
    <3>2. ASSUME part' = "sound" PROVE SoundInv'
      BY Zenon, <2>1, <3>2, SoundStep DEF Next, Of
    <3> QED BY <3>1, <3>2
  <2>2. CASE UNCHANGED vars
    <3>1. UNCHANGED part /\ UNCHANGED inputVars /\ UNCHANGED soundVars
      BY <2>2 DEF vars
    <3>2. InputInv => InputInv'
      BY <3>1, InputUnchanged
    <3>3. SoundInv => SoundInv'
      BY <3>1, SoundUnchanged DEF soundVars
    <3> QED BY <3>1, <3>2, <3>3
  <2> QED BY <2>1, <2>2
<1>3. Inv => DevicesSound
  BY InputImplies, SoundImplies DEF DevicesSound
<1> QED BY <1>1, <1>2, <1>3, PTL DEF Spec

\* The focused window is the one in front, all windows stay on the screen and
\* large enough, what changed is drawn by the next pass, and an application is
\* initialised when it gets a window and closed when it loses it, through every
\* press, drag, key and callback; icons stay on the grid, one to a place; and
\* after a pass the screen shows the scene with the cursor at the pointer
\* (desktop/desktop.c, drivers/gfx.c).
THEOREM DesktopAlwaysSound == Spec => []DesktopSound
<1> DEFINE Inv == /\ part = "windows" => WindowsInv
                  /\ part = "icons" => IconsInv
                  /\ part = "display" => Proved!IInv
<1>1. Init => Inv
  BY Zenon, WindowsStart, IconsStart, DisplayStart DEF Init
<1>2. Inv /\ [Next]_vars => Inv'
  <2> SUFFICES ASSUME Inv, [Next]_vars PROVE Inv'
    OBVIOUS
  <2>1. CASE Next
    <3>1. ASSUME part' = "windows" PROVE WindowsInv'
      BY Zenon, <2>1, <3>1, WindowsStep DEF Next, Of
    <3>2. ASSUME part' = "icons" PROVE IconsInv'
      BY Zenon, <2>1, <3>2, IconsStep DEF Next, Of
    <3>3. ASSUME part' = "display" PROVE Proved!IInv'
      BY Zenon, <2>1, <3>3, DisplayStep DEF Next, Of
    <3> QED BY <3>1, <3>2, <3>3
  <2>2. CASE UNCHANGED vars
    <3>1. /\ UNCHANGED part /\ UNCHANGED windowsVars /\ UNCHANGED iconsVars
          /\ UNCHANGED displayVars
      BY <2>2 DEF vars
    <3>2. WindowsInv => WindowsInv'
      BY <3>1, WindowsUnchanged
    <3>3. IconsInv => IconsInv'
      BY <3>1, IconsUnchanged
    <3>4. Proved!IInv => Proved!IInv'
      BY <3>1, DisplayUnchanged
    <3> QED BY <3>1, <3>2, <3>3, <3>4
  <2> QED BY <2>1, <2>2
<1>3. Inv => DesktopSound
  BY WindowsImplies, IconsImplies, DisplayImplies DEF DesktopSound
<1> QED BY <1>1, <1>2, <1>3, PTL DEF Spec

\* A text that Notepad shows as saved is what its path leads to, although an
\* untitled text's path may lead to another's entry, and through writes that fail
\* and files replaced by the other application, until a read fails halfway; no file
\* gets the text of another before a path has led Notepad from one to the other,
\* and the one in the folder none after that; and the calculator gives what its
\* keys say in their order, for the sequences whose meaning the keys settle
\* (apps/notepad_app.c, filemanager_app.c, calc_app.c, fs/vfs.c, fs/fat32.c).
THEOREM ApplicationsAlwaysSound == Spec => []ApplicationsSound
<1> DEFINE Inv == (part = "documents" => DocsInv) /\ (part = "calculator" => CalcInv)
<1>1. Init => Inv
  BY Zenon, DocsStart, CalcStart DEF Init
<1>2. Inv /\ [Next]_vars => Inv'
  <2> SUFFICES ASSUME Inv, [Next]_vars PROVE Inv'
    OBVIOUS
  <2>1. CASE Next
    <3>1. ASSUME part' = "documents" PROVE DocsInv'
      BY Zenon, <2>1, <3>1, DocsStep DEF Next, Of
    <3>2. ASSUME part' = "calculator" PROVE CalcInv'
      BY Zenon, <2>1, <3>2, CalcStep DEF Next, Of
    <3> QED BY <3>1, <3>2
  <2>2. CASE UNCHANGED vars
    <3>1. UNCHANGED part /\ UNCHANGED documentsVars /\ UNCHANGED calculatorVars
      BY <2>2 DEF vars
    <3>2. DocsInv => DocsInv'
      BY <3>1, DocsUnchanged
    <3>3. CalcInv => CalcInv'
      BY <3>1, CalcUnchanged
    <3> QED BY <3>1, <3>2, <3>3
  <2> QED BY Zenon, <2>1, <2>2
<1>3. Inv => ApplicationsSound
  BY DocsImplies, CalcImplies DEF ApplicationsSound
<1> QED BY <1>1, <1>2, <1>3, PTL DEF Spec
=============================================================================
