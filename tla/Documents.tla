------------------------------ MODULE Documents ------------------------------
(***************************************************************************)
(* Two applications over the same files: Notepad, which edits one text at  *)
(* a time (apps/notepad_app.c), and Files, which lists directories,        *)
(* deletes, and hands a text to Notepad (apps/filemanager_app.c).  Each    *)
(* callback of an application is one step of the desktop's loop.           *)
(*                                                                         *)
(* A path stands for each character that was first stored under it, Typed  *)
(* for one that has been typed since.  A path may lead to another file: an *)
(* untitled text's 8.3 form is cut short, to the one that all of them      *)
(* have, and a new entry may follow a long name that a deleted one left    *)
(* (see Directory).  What else is in the directory, and so where a new     *)
(* entry finds room, is left open.                                         *)
(*                                                                         *)
(* Scrolling and drawing are left out, and so is the name being typed in   *)
(* the prompt: the path it gives is chosen at once.                        *)
(***************************************************************************)
EXTENDS Integers, Sequences, SequencesExt

CONSTANTS
    Welcome,        \* welcome.txt, which Notepad opens with
    Plain,          \* untitled.txt
    Numbered,       \* untitled1.txt and on, which need a long name
    Inner,          \* a text in the folder
    Folder, Home,   \* the directory within, and the one it is in
    Lengthy,        \* the texts that are longer at first than Notepad takes
    MaxText,        \* NOTEPAD_MAX_CHARS - 1
    MaxEvents,      \* bound on characters typed or erased, entries made, and failures
                    \* of the volume
    MaxTexts,       \* bound on the texts in the home directory at a time
    Typed, None

VARIABLES
    files,          \* the text of each file, None for no file
    slot,           \* where its entry is, in the order of a search
    goes,           \* the name its entry goes by
    folder,         \* the folder exists
    note,           \* the state of Notepad
    fm,             \* the state of Files
    events,         \* so far
    torn,           \* history: a read failed with the buffer partly overwritten
    foreign,        \* history: the file was deleted, or cut by a full disk, since Notepad
                    \* took its text
    crossed         \* history: Notepad read or wrote another file than the path's own

disk == <<files, slot, goes>>
vars == <<disk, folder, note, fm, events, torn, foreign, crossed>>

Untitled == {Plain} \cup Numbered
Paths == {Welcome, Inner} \cup Untitled
Slots == 1 .. MaxTexts

First(text, n) == SubSeq(text, 1, IF Len(text) < n THEN Len(text) ELSE n)

-----------------------------------------------------------------------------
(* Paths. *)

Stored(p) == files[p] # None

\* vfs_to_83: of untitled1.txt the form is UNTITLED.TXT.
Form(p) == IF p \in Numbered THEN Plain ELSE p

\* fat32_dir_find: the first entry that goes by the name, or has it as 8.3 form.
Matches(p) == {q \in Paths : Stored(q) /\ p \in {goes[q], Form(q)}}
Leads(p) == LET found == Matches(p)
            IN  IF found = {} THEN None
                ELSE CHOOSE q \in found : \A r \in found : slot[q] <= slot[r]

\* vfs_exists
Exists(p) == Leads(p) # None
Text(p) == files[Leads(p)]

\* The file that a write to p gets to, which it makes if there is none.
Written(p) == IF Exists(p) THEN Leads(p) ELSE p

\* A write to p makes an entry in the home directory.
New(p) == ~Exists(p) /\ p # Inner

\* The bound on what happens to the texts.
Counts(n) == events + n <= MaxEvents /\ events' = events + n
Making(p) == IF New(p) THEN 1 ELSE 0

\* fat32_dir_create_entry: an entry without a long name of its own may follow one
\* that was left behind.
Put(p, text) ==
    /\ files' = [files EXCEPT ![Written(p)] = text]
    /\ IF ~New(p) THEN UNCHANGED <<slot, goes>>
       ELSE \E s \in Slots \ {slot[q] : q \in {x \in Paths : Stored(x)}},
              n \in {p} \cup (IF p \in {Welcome, Plain} THEN Numbered ELSE {}) :
                slot' = [slot EXCEPT ![p] = s] /\ goes' = [goes EXCEPT ![p] = n]

\* vfs_delete
Unlink(q) ==
    /\ files' = [files EXCEPT ![q] = None]
    /\ slot' = [slot EXCEPT ![q] = 0] /\ goes' = [goes EXCEPT ![q] = q]

-----------------------------------------------------------------------------
(* Notepad. *)

\* notepad_new_document, notepad_on_close
Empty == [open |-> TRUE, text |-> <<>>, path |-> None, dirty |-> FALSE, prompt |-> FALSE]

\* Mutant of Loaded: the path stays the one of the text before.
LoadedKeepsPath(n, p) ==
    [n EXCEPT !.text = First(Text(p), MaxText), !.dirty = FALSE, !.prompt = FALSE]

\* notepad_open_file, when the file can be read: as much of it as there is
\* room for.  Whether the window is open it leaves alone.
Loaded(n, p) == [Empty EXCEPT !.open = n.open, !.text = First(Text(p), MaxText), !.path = p]

\* notepad_open_file: Notepad stays as it is when there is no such file.
Load(n, p) == IF Exists(p) THEN Loaded(n, p) ELSE n

\* notepad_on_init
Started == Load(Empty, Welcome)

\* desktop_launch_app: a closed Notepad starts anew, an open one is shown.
Launched(n) == IF n.open THEN n ELSE Started

\* Notepad has reached a file under p.
Reaches(p) == crossed' = (crossed \/ (Exists(p) /\ Leads(p) # p))

\* What Notepad has taken from there is what is there.
Taken(p) == foreign' = FALSE /\ Reaches(p)

Init ==
    /\ files = [p \in Paths |-> IF p \in Untitled THEN None
                               ELSE [i \in 1 .. (IF p \in Lengthy THEN MaxText + 1 ELSE 1) |-> p]]
    /\ slot = [p \in Paths |-> IF p = Welcome THEN 1 ELSE 0] /\ goes = [p \in Paths |-> p]
    /\ folder = TRUE
    /\ note = [Empty EXCEPT !.open = FALSE]
    /\ fm = [cwd |-> Home, prev |-> Home, entries |-> SetToSeq({Welcome, Folder}),
             selected |-> 1]
    /\ events = 0 /\ torn = FALSE /\ foreign = FALSE /\ crossed = FALSE

\* The start menu, an icon or a command opens Notepad.
OpenNotepad ==
    /\ ~note.open
    /\ note' = Started
    /\ Taken(note'.path)
    /\ UNCHANGED <<disk, folder, fm, events, torn>>

\* notepad_on_close
CloseNotepad ==
    /\ note.open
    /\ note' = [Empty EXCEPT !.open = FALSE]
    /\ UNCHANGED <<disk, folder, fm, events, torn, foreign, crossed>>

\* notepad_on_key: a character is added if there is room, or the last one
\* erased; not while the prompt is open.
Edit ==
    /\ note.open /\ ~note.prompt /\ Counts(1)
    /\ \/ /\ Len(note.text) < MaxText
          /\ note' = [note EXCEPT !.text = Append(note.text, Typed), !.dirty = TRUE]
       \/ /\ note.text # <<>>
          /\ note' = [note EXCEPT !.text = Front(note.text), !.dirty = TRUE]
    /\ UNCHANGED <<disk, folder, fm, torn, foreign, crossed>>

\* notepad_on_key: control and N, O; escape.
Control ==
    /\ note.open
    /\ \/ note' = Empty
       \/ note' = [note EXCEPT !.prompt = TRUE]
       \/ note.prompt /\ note' = [note EXCEPT !.prompt = FALSE]
    /\ UNCHANGED <<disk, folder, fm, events, torn, foreign, crossed>>

\* notepad_on_key: enter in the prompt.  The prompt stays for a name that does
\* not exist and closes for one that does, readable or not.
Enter ==
    /\ note.open /\ note.prompt
    /\ \E p \in {q \in Paths : Exists(q)} :
           /\ note' = [Load(note, p) EXCEPT !.prompt = FALSE]
           /\ Taken(p)
    /\ UNCHANGED <<disk, folder, fm, events, torn>>

\* The same, when reading fails: characters up to some place are the file's.
EnterTorn ==
    /\ note.open /\ note.prompt /\ Counts(1)
    /\ \E p \in {q \in Paths : Exists(q)} : \E k \in 0 .. Len(First(Text(p), Len(note.text))) :
           /\ note' = [note EXCEPT !.prompt = FALSE,
                  !.text = [i \in DOMAIN note.text |-> IF i <= k THEN Text(p)[i] ELSE note.text[i]]]
           /\ torn' = (torn \/ k > 0)
           /\ Reaches(p)
    /\ UNCHANGED <<disk, folder, fm, foreign>>

\* notepad_save: the path of the text, or an untitled one that finds nothing.
Target ==
    LET unused == {u \in Numbered : ~Exists(u)}
    IN  IF note.path # None THEN note.path
        ELSE IF ~Exists(Plain) THEN Plain
        ELSE IF unused = {} THEN None ELSE CHOOSE u \in unused : TRUE

\* The text as it is stored under p for the first time.
Own(text, p) == [i \in DOMAIN text |-> IF text[i] = Typed THEN p ELSE text[i]]

\* A file can be written in the folder only while it exists.
Writable(p) == p # None /\ (p = Inner => folder)

\* notepad_save, vfs_write_file
Save ==
    /\ note.open /\ Writable(Target) /\ Counts(Making(Target))
    /\ Put(Target, Own(note.text, Target))
    /\ note' = [note EXCEPT !.text = Own(note.text, Target), !.path = Target, !.dirty = FALSE]
    /\ Taken(Target)
    /\ UNCHANGED <<folder, fm, torn>>

\* The volume is full: vfs_write stores a part and says so, which
\* vfs_write_file takes for success.
SaveShort ==
    /\ note.open /\ Writable(Target) /\ note.text # <<>> /\ Counts(1 + Making(Target))
    /\ Put(Target, Front(Own(note.text, Target)))
    /\ note' = [note EXCEPT !.text = Own(note.text, Target), !.path = Target, !.dirty = FALSE]
    /\ foreign' = TRUE /\ Reaches(Target)
    /\ UNCHANGED <<folder, fm, torn>>

\* Mutant of SaveFails: the text is taken for saved.
SaveFailsClean ==
    /\ note.open /\ Writable(Target)
    /\ \/ Put(Target, <<>>) /\ Counts(1 + Making(Target))
       \/ UNCHANGED disk /\ Counts(1)
    /\ note' = [note EXCEPT !.dirty = FALSE]
    /\ UNCHANGED <<folder, fm, torn, foreign, crossed>>

\* The write fails, after vfs_open has cut the file or before: the text stays
\* modified, and has no path if it had none.
SaveFails ==
    /\ note.open /\ Writable(Target)
    /\ \/ Put(Target, <<>>) /\ Counts(1 + Making(Target))
       \/ UNCHANGED disk /\ Counts(1)
    /\ foreign' = TRUE /\ Reaches(Target)
    /\ UNCHANGED <<folder, fm, note, torn>>

-----------------------------------------------------------------------------
(* Files. *)

\* vfs_listdir: by the names they go by, the files there are now and the folder,
\* in some order; the folder, once it is deleted, is empty.
Listed(dir, there) ==
    LET all == SetToSeq(there \cap (IF dir = Home THEN (Paths \ {Inner}) \cup {Folder} ELSE {Inner}))
    IN  [i \in DOMAIN all |-> IF all[i] = Folder THEN Folder ELSE goes[all[i]]]

There(stored, in) == {p \in Paths : stored[p] # None} \cup (IF in THEN {Folder} ELSE {})

\* Mutant of Refreshed: the selection is left where it was.
RefreshedOnly(f, there) == [f EXCEPT !.entries = Listed(f.cwd, there)]

\* fm_refresh: a selection beyond the entries goes to the first.
Refreshed(f, there) ==
    LET e == Listed(f.cwd, there)
    IN  [f EXCEPT !.entries = e,
                  !.selected = IF e = <<>> THEN 0 ELSE IF @ \in DOMAIN e THEN @ ELSE 1]

\* fm_go_to
GoneTo(dir) ==
    Refreshed([fm EXCEPT !.prev = fm.cwd, !.cwd = dir, !.selected = 0], There(files, folder))

\* fm_activate_selected: a directory is entered; a text is given to Notepad,
\* which is opened after that and so, unless it was open, starts anew.
Activate(f) ==
    IF f.selected = 0 THEN fm' = f /\ UNCHANGED <<note, foreign, crossed>>
    ELSE IF f.entries[f.selected] = Folder
    THEN /\ fm' = GoneTo(Folder)
         /\ UNCHANGED <<note, foreign, crossed>>
    ELSE /\ note' = Launched(Load(note, f.entries[f.selected]))
         /\ IF note.open /\ ~Exists(f.entries[f.selected]) THEN UNCHANGED <<foreign, crossed>>
            ELSE Taken(note'.path)
         /\ fm' = f

\* fm_on_key: enter, and the arrow keys.
KeyEnter ==
    /\ Activate(fm)
    /\ UNCHANGED <<disk, folder, events, torn>>

KeyArrow ==
    /\ fm' \in {[fm EXCEPT !.selected = i] :
                   i \in {fm.selected - 1, fm.selected + 1} \cap DOMAIN fm.entries}
    /\ UNCHANGED <<disk, folder, note, events, torn, foreign, crossed>>

\* fm_on_click: a row is selected; a second click on the same row, soon
\* enough, activates what is in it by now, as the enter key would.
ClickRow ==
    /\ \E row \in DOMAIN fm.entries :
           LET f == [fm EXCEPT !.selected = row]
           IN  Activate(f) \/ (fm' = f /\ UNCHANGED <<note, foreign, crossed>>)
    /\ UNCHANGED <<disk, folder, events, torn>>

\* fm_on_key, fm_on_click: fm_go_up, fm_go_back, fm_refresh.
Navigate ==
    /\ \/ fm.cwd # Home /\ fm' = GoneTo(Home)
       \/ /\ fm.prev # fm.cwd
          /\ fm' = Refreshed([fm EXCEPT !.cwd = fm.prev, !.prev = fm.cwd, !.selected = 0], There(files, folder))
       \/ fm' = Refreshed(fm, There(files, folder))
    /\ UNCHANGED <<disk, folder, note, events, torn, foreign, crossed>>

\* fm_on_key: delete, what the name that is listed leads to; a folder must be empty.
Delete ==
    /\ fm.selected # 0
    /\ LET e == fm.entries[fm.selected]
       IN  IF e = Folder
           THEN folder' = (folder /\ Exists(Inner)) /\ UNCHANGED <<disk, foreign>>
           ELSE /\ IF Exists(e) THEN Unlink(Leads(e)) ELSE UNCHANGED disk
                /\ foreign' = (foreign \/ Leads(note.path) = Leads(e))
                /\ UNCHANGED folder
    /\ fm' = Refreshed(fm, There(files', folder'))
    /\ UNCHANGED <<note, events, torn, crossed>>

\* fm_on_close, then fm_on_init.
Reopen ==
    /\ fm' = Refreshed([fm EXCEPT !.cwd = Home, !.prev = Home, !.selected = 0], There(files, folder))
    /\ UNCHANGED <<disk, folder, note, events, torn, foreign, crossed>>

\* Of a text that a failed read left torn nothing is promised: there it ends.
Next ==
    /\ ~torn
    /\ \/ OpenNotepad \/ CloseNotepad \/ Edit \/ Control \/ Enter \/ EnterTorn
       \/ Save \/ SaveShort \/ SaveFails
       \/ KeyEnter \/ KeyArrow \/ ClickRow \/ Navigate \/ Delete \/ Reopen

Spec == Init /\ [][Next]_vars

-----------------------------------------------------------------------------
(* Properties. *)

\* The variables are of their types; the row that is selected, and which the
\* keys then index the entries with, is one of them.
TypeOK ==
    /\ \A p \in Paths : Stored(p) => files[p] \in Seq(Paths) /\ goes[p] \in Paths
    /\ Len(note.text) <= MaxText /\ note.path \in Paths \cup {None}
    /\ fm.selected \in 0 .. Len(fm.entries)
    /\ fm.entries # <<>> => fm.selected # 0

\* A text that is not marked as modified is what its path leads to, or the
\* beginning of that, unless the file was deleted or a write or a read of it failed.
SavedIsStored ==
    note.path # None /\ ~note.dirty /\ ~foreign /\ ~torn =>
        Exists(note.path) /\ note.text = First(Text(note.path), MaxText)

\* No file ever gets what another contained, unless a read failed halfway, or a
\* path has led Notepad to another file than its own: to an untitled text whose
\* 8.3 form it is, or a file that goes by an untitled text's name.  What is in
\* another directory keeps apart from these, too.
TextsApart ==
    ~torn => \A p \in Paths : Stored(p) =>
        ToSet(files[p]) \subseteq (IF crossed /\ p # Inner THEN Paths \ {Inner} ELSE {p})

DocumentsSound == SavedIsStored /\ TextsApart
=============================================================================
