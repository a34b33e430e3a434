------------------------------ MODULE MCParts ------------------------------
(***************************************************************************)
(* Parts of the system that keep no state in common: memory, processes,    *)
(* names, storage, the devices of input and sound, the desktop and its     *)
(* applications, and the shell with its terminal.  A behaviour is one of   *)
(* one part; the others stay as they began, in one initial state.          *)
(***************************************************************************)
EXTENDS KernelParts

CONSTANTS
    Builtins, Apps, Fixed, Launchers,                           \* Windows
    MaxWindows, Screen, MinWidth, MaxPresses,
    IconLaunchers, MaxIcons, Cells, CellWidth, IconWidth,       \* Icons
    ScreenWidth, CursorWidth, Colors,                           \* Compositor
    Welcome, Plain, Numbered, Inner, Folder, Home,              \* Documents
    Lengthy, MaxText, MaxEvents, MaxTexts, Typed,
    Digits, Largest, MaxResult, MaxPressed,                    \* Calculator
    Size, LineMax, Buffer, MaxLines, Cols, Heights,             \* Shell
    ScrollStep, MaxCommands

ASSUME WindowsAssumption ==
    /\ IsFiniteSet(Builtins) /\ None \notin Builtins \cup Apps
    /\ MinWidth \in Nat /\ Screen \in Nat /\ MinWidth <= Screen
ASSUME IconsAssumption ==
    /\ IconLaunchers \in Nat /\ MaxIcons \in Nat /\ IconLaunchers <= MaxIcons
    /\ Cells \in Nat \ {0} /\ IconWidth \in Nat \ {0}
    /\ CellWidth \in Nat /\ IconWidth <= CellWidth
TextPaths == {Welcome, Inner, Plain} \cup Numbered
ASSUME DocumentsAssumption ==
    /\ IsFiniteSet(Numbered) /\ MaxText \in Nat /\ MaxTexts \in Nat
    /\ Typed \notin TextPaths /\ {None, Folder} \cap TextPaths = {}
    /\ Inner \notin {Welcome, Plain} \cup Numbered /\ Plain \notin Numbered
    /\ Welcome \notin {Plain} \cup Numbered
    /\ None \notin Seq(TextPaths \cup {Typed})
ASSUME CalculatorAssumption ==
    /\ Digits \subseteq 0 .. 9 /\ MaxResult \in Nat
    /\ Largest \in Nat \ {0} /\ Largest % 10 = 9

VARIABLES
    part,
    desk, gesture, presses, menu, up, stale, left,
    icon, button, pressed, copy, start, drag, dragCopy, offset, mixed,
    picture, back, front, dirty, saved, cursorDrawn, x, lastX,
    scene, window, bar, rendered, drawing,
    files, slot, goes, folder, note, fm, events, torn, foreign, crossed,
    shown, error, entering, operandA, pendingOp, lastOp, lastOperand, pressedKeys,
    acc, op, fresh, percent, expected, odd,
    hist, historyFile, lines, scrolled, height, shownLines, commands, issued, output,
    savedList, lostList

\* The 8.3 form of every long name in the run.
MCCut == [n \in LongNames |-> CHOOSE s \in ShortNames : TRUE]

Windows == INSTANCE Windows
Icons == INSTANCE Icons WITH Launchers <- IconLaunchers
Display == INSTANCE Compositor WITH Width <- ScreenWidth, content <- picture, pc <- drawing
Docs == INSTANCE Documents
Calc == INSTANCE Calculator WITH MaxKeys <- MaxPressed, input <- entering, a <- operandA,
            pending <- pendingOp, last <- lastOp, keys <- pressedKeys
Shell == INSTANCE Shell WITH file <- historyFile, offset <- scrolled, shown <- shownLines,
            saved <- savedList, lost <- lostList

windowsVars == <<desk, gesture, presses, menu, up, stale, left>>
iconsVars == <<icon, button, pressed, copy, start, drag, dragCopy, offset, mixed>>
displayVars == <<picture, back, front, dirty, saved, cursorDrawn, x, lastX, scene, window,
                 bar, rendered, drawing>>
documentsVars == <<files, slot, goes, folder, note, fm, events, torn, foreign, crossed>>
calculatorVars == <<shown, error, entering, operandA, pendingOp, lastOp, lastOperand,
                    pressedKeys, acc, op, fresh, percent, expected, odd>>
shellVars == <<hist, historyFile, lines, scrolled, height, shownLines, commands, issued,
               output, savedList, lostList>>
vars == <<part, spaceVars, userVars, namesVars, storeVars, inputVars, soundVars, windowsVars,
          iconsVars, displayVars, documentsVars, calculatorVars,
          shellVars>>

Parts == {"space", "user", "names", "store", "input", "sound", "windows", "icons", "display",
          "documents", "calculator", "shell"}

Init ==
    /\ part \in Parts
    /\ Space!Init /\ User!Init /\ Names!Init /\ Icons!Init /\ Calc!Init
    /\ Store!Init /\ (part # "store" => layout = "no drive" /\ image = "none")
    /\ Input!Init /\ (part # "input" => plain)
    /\ Sound!Init /\ (part # "sound" => backend = "card" /\ tick = 0)
    /\ Windows!Init /\ (part # "windows" => desk.open = Fixed)
    /\ Display!Init /\ (part # "display" => \A c, d \in DOMAIN picture : picture[c] = "light")
    /\ Docs!Init
    /\ Shell!Init /\ (part # "shell" => historyFile = None /\ \A h \in Heights : height <= h)

\* A step of one part is none of the others.
Of(p) ==
    /\ part = p /\ UNCHANGED part
    /\ p # "space" => UNCHANGED spaceVars
    /\ p # "user" => UNCHANGED userVars
    /\ p # "names" => UNCHANGED namesVars
    /\ p # "store" => UNCHANGED storeVars
    /\ p # "input" => UNCHANGED inputVars
    /\ p # "sound" => UNCHANGED soundVars
    /\ p # "windows" => UNCHANGED windowsVars
    /\ p # "icons" => UNCHANGED iconsVars
    /\ p # "display" => UNCHANGED displayVars
    /\ p # "documents" => UNCHANGED documentsVars
    /\ p # "calculator" => UNCHANGED calculatorVars
    /\ p # "shell" => UNCHANGED shellVars

Next ==
    \/ Of("space") /\ Space!Next
    \/ Of("user") /\ User!Next
    \/ Of("names") /\ Names!Next
    \/ Of("store") /\ Store!Next
    \/ Of("input") /\ Input!Next
    \/ Of("sound") /\ Sound!Next
    \/ Of("windows") /\ Windows!Next
    \/ Of("icons") /\ Icons!Next
    \/ Of("display") /\ Display!Next
    \/ Of("documents") /\ Docs!Next
    \/ Of("calculator") /\ Calc!Next
    \/ Of("shell") /\ Shell!Next

Spec == Init /\ [][Next]_vars

-----------------------------------------------------------------------------
(* Properties.  Each is asked of the behaviours of its part. *)

\* The variables of every part are of their types.
TypeOK ==
    CASE part = "space" -> Space!TypeOK
      [] part = "user" -> User!TypeOK
      [] part = "names" -> Names!TypeOK
      [] part = "store" -> Store!TypeOK
      [] part = "input" -> Input!TypeOK
      [] part = "sound" -> Sound!TypeOK
      [] part = "windows" -> Windows!TypeOK
      [] part = "icons" -> Icons!TypeOK
      [] part = "display" -> Display!TypeOK
      [] part = "documents" -> Docs!TypeOK
      [] part = "calculator" -> Calc!TypeOK
      [] part = "shell" -> Shell!TypeOK

\* No frame is lost or counted too often by lazy faults, copies before a write
\* or pages freed in part, and each heap page shows what was written to it
\* (mm/paging.c, mm/vm.c).
MemorySound == part = "space" => Space!ReferencesCounted /\ Space!PagesKeepData

\* Loading, running and ending a process leave its text, its frames and the
\* context of its caller intact (src/kernel/userland.c, cpu/idt.c).
ProcessesSound == part = "user" => User!ContextSound /\ User!FramesApart /\ User!TextIntact

\* Names lead to what they were given to, and a directory is deleted only
\* when nothing is named in it (fat32_dir_find, vfs_delete, vfs_rename).
NamesResolve == part = "names" => Names!NamesResolve /\ Names!NothingStranded

\* What was synchronised to the drive is there after every boot, and found
\* (kmain, drivers/ramdisk.c).
DriveKept == part = "store" => Store!DriveKept

\* The handlers of keyboard, mouse, timer and sound card and the tasks they
\* interrupt lose nothing and mix nothing up (drivers/keyboard.c, mouse.c,
\* pit.c, sb16.c, speaker.c, audio).
DevicesSound ==
    /\ part = "input" => Input!InputSound
    /\ part = "sound" => Sound!SoundSound

\* Windows and icons stay where they can be used, the one in front has the
\* focus, and what has changed is drawn with the cursor once on top
\* (desktop/desktop.c, drivers/gfx.c).
DesktopSound ==
    /\ part = "windows" => Windows!WindowsSound
    /\ part = "icons" => Icons!IconsSound
    /\ part = "display" => Display!ScreenTrue

\* A text that Notepad shows as saved is what its path leads to, no file gets
\* another's text but those a name was found for that is not theirs, and the
\* calculator gives what its keys say
\* (apps/notepad_app.c, filemanager_app.c, calc_app.c).
ApplicationsSound ==
    /\ part = "documents" => Docs!DocumentsSound
    /\ part = "calculator" => Calc!CalculatesInOrder

\* The history lists the latest commands and comes back whole from its file,
\* and the terminal holds and shows the end of what was printed (kshell.c,
\* desktop/desktop.c).
ShellSound == part = "shell" => Shell!ShellSound
=============================================================================
