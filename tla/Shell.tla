------------------------------- MODULE Shell -------------------------------
(***************************************************************************)
(* The kernel shell's history of commands (kshell.c) and the terminal of   *)
(* the desktop that its output goes to (desktop/desktop.c).                *)
(*                                                                         *)
(* A line is a sequence of characters; the commands that matter here are   *)
(* one character, and every message is one character too.  Each key's      *)
(* editing is left out: a line is submitted whole.                         *)
(***************************************************************************)
EXTENDS Integers, Sequences, SequencesExt

CONSTANTS
    Size,           \* KSHELL_HISTORY_SIZE
    LineMax,        \* KSHELL_LINE_MAX, TERMINAL_INPUT_MAX
    Buffer,         \* the buffer of cmd_history
    MaxLines, Cols, \* TERMINAL_HISTORY_LINES, TERMINAL_HISTORY_COLS
    Heights,        \* lines of history that the window may have room for
    ScrollStep,     \* TERMINAL_SCROLL_STEP
    MaxCommands,    \* bound on commands
    None

VARIABLES
    hist,           \* history_entries, history_next, history_count
    file,           \* /history.txt, None for no file
    lines,          \* desktop_terminal_state.lines
    offset,         \* desktop_terminal_state.scroll_offset
    height,         \* the room in the window
    shown,          \* the lines just drawn, None when none were
    commands,       \* so far
    issued,         \* history: the commands, from the last load on
    output,         \* history: what was printed since the last clear
    saved,          \* history: what the file should give back, None if unknown
    lost            \* history: it gave something else

vars == <<hist, file, lines, offset, height, shown, commands, issued, output, saved, lost>>

NL == "\n"
Save == <<"s">>     \* history save
Load == <<"l">>     \* history load
List == <<"h">>     \* history
Clear == <<"c">>    \* clear
Others == {[i \in 1 .. n |-> "x"] : n \in 1 .. LineMax - 1}
Lines == {Save, Load, List, Clear} \cup Others
Message == <<"m", NL>>

Latest(n, s) == IF Len(s) <= n THEN s ELSE SubSeq(s, Len(s) - n + 1, Len(s))
Clipped(line) == SubSeq(line, 1, IF Len(line) < LineMax THEN Len(line) ELSE LineMax - 1)

\* A text as its lines, the last of them not ended.
Split(text) ==
    FoldLeft(LAMBDA s, c : IF c = NL THEN Append(s, <<>>) ELSE [s EXCEPT ![Len(s)] = Append(@, c)],
             << <<>> >>, text)

-----------------------------------------------------------------------------
(* The history. *)

NoHistory == [e |-> [i \in 0 .. Size - 1 |-> <<>>], next |-> 0, count |-> 0]

\* Mutant of Add: the count is not held at the size.
AddUncapped(h, line) ==
    IF line = <<>> THEN h
    ELSE [e |-> [h.e EXCEPT ![h.next] = Clipped(line)], next |-> (h.next + 1) % Size, count |-> h.count + 1]

\* history_add
Add(h, line) ==
    IF line = <<>> THEN h
    ELSE [e |-> [h.e EXCEPT ![h.next] = Clipped(line)],
          next |-> (h.next + 1) % Size,
          count |-> IF h.count < Size THEN h.count + 1 ELSE h.count]

\* cmd_history: the entries from the oldest on.
Listing(h) == [i \in 1 .. h.count |-> h.e[(h.next + Size - h.count + i - 1) % Size]]

\* A character goes to the buffer if some places are left after it.
Put(b, c, spare) == IF Len(b) + spare < Buffer THEN Append(b, c) ELSE b

\* Mutant of Text: the entries are written in the order of the ring.
TextAsStored(h) ==
    FoldLeft(LAMBDA b, i : Put(FoldLeft(LAMBDA d, c : Put(d, c, 2), b, h.e[i - 1]), NL, 1),
             <<>>, [i \in 1 .. h.count |-> i])

\* cmd_history save: the text for the file, cut to the buffer.
Text(h) ==
    FoldLeft(LAMBDA b, line : Put(FoldLeft(LAMBDA d, c : Put(d, c, 2), b, line), NL, 1),
             <<>>, Listing(h))

\* cmd_history load: as much of the file as the buffer holds becomes the
\* history, empty lines left out.
Read == Split(SubSeq(file, 1, IF Len(file) < Buffer THEN Len(file) ELSE Buffer - 1))
Restored(h) == FoldLeft(Add, [h EXCEPT !.next = 0, !.count = 0], Read)

-----------------------------------------------------------------------------
(* The terminal. *)

\* Mutant of Push: at the limit the last line is reused.
PushOver(t) == IF Len(t) < MaxLines THEN Append(t, <<>>) ELSE [t EXCEPT ![MaxLines] = <<>>]

\* desktop_terminal_push_line
Push(t) == IF Len(t) < MaxLines THEN Append(t, <<>>) ELSE Append(Tail(t), <<>>)

\* desktop_terminal_append_char, desktop_terminal_current_line
AppendChar(t, c) ==
    LET s == IF t = <<>> THEN Push(t) ELSE t
        r == IF c # NL /\ Len(Last(s)) >= Cols THEN Push(s) ELSE s
    IN  IF c = NL THEN Push(s) ELSE [r EXCEPT ![Len(r)] = Append(@, c)]

\* terminal_print
Printed(text) == lines' = FoldLeft(AppendChar, lines, text) /\ output' = output \o text

\* desktop_terminal_scroll_max
ScrollMax(t, room) == IF Len(t) <= room THEN 0 ELSE Len(t) - room

Init ==
    /\ hist = NoHistory
    /\ file \in {None, <<"y", NL, "y", "y", "y", NL, NL, "y">>}
    /\ lines = <<>> /\ offset = 0 /\ height \in Heights /\ shown = None
    /\ commands = 0 /\ issued = <<>> /\ output = <<>> /\ saved = None /\ lost = FALSE

\* desktop_terminal_submit_input: the line is repeated after the prompt and
\* then given to kshell_dispatch_command, which first adds it to the history.
Submit(line) ==
    /\ line \in Lines /\ commands < MaxCommands
    /\ commands' = commands + 1
    /\ shown' = None
    /\ UNCHANGED height

Echo(line) == <<">">> \o line \o <<NL>>

\* A command that does nothing here, and one that lists the history.
PlainCommand ==
    /\ \E line \in Others \cup {List} :
           /\ Submit(line)
           /\ hist' = Add(hist, line)
           /\ Printed(Echo(line) \o (IF line = List
                  THEN FoldLeft(LAMBDA t, l : t \o l \o <<NL>>, <<>>, Listing(hist'))
                  ELSE Message))
           /\ issued' = Append(issued, line)
    /\ UNCHANGED <<file, offset, saved, lost>>

HistorySave ==
    /\ Submit(Save)
    /\ hist' = Add(hist, Save)
    /\ Printed(Echo(Save) \o Message)
    /\ issued' = Append(issued, Save)
    /\ \/ file' = Text(hist') /\ saved' = Listing(hist')
       \* The write fails, after the file was cut or before.
       \/ file' \in {file, <<>>} /\ saved' = None
    /\ UNCHANGED <<offset, lost>>

HistoryLoad ==
    /\ Submit(Load)
    /\ Printed(Echo(Load) \o Message)
    /\ IF file = None
       THEN hist' = Add(hist, Load) /\ issued' = Append(issued, Load)
       ELSE /\ hist' = Restored(Add(hist, Load))
            /\ LET read == SelectSeq(Read, LAMBDA l : l # <<>>)
               IN  issued' = [i \in DOMAIN read |-> Clipped(read[i])]
    /\ lost' = (lost \/ (saved # None /\ Listing(hist') # saved))
    /\ UNCHANGED <<file, offset, saved>>

\* clear: gfx_clear, desktop_terminal_clear.
ClearScreen ==
    /\ Submit(Clear)
    /\ hist' = Add(hist, Clear) /\ issued' = Append(issued, Clear)
    /\ lines' = <<>> /\ output' = <<>> /\ offset' = 0
    /\ UNCHANGED <<file, saved, lost>>

\* desktop_terminal_scroll
Scroll ==
    /\ \E delta \in {-ScrollStep, ScrollStep} :
           LET next == IF offset + delta < 0 THEN 0 ELSE offset + delta
               max == ScrollMax(lines, height)
           IN  offset' = IF next > max THEN max ELSE next
    /\ shown' = None
    /\ UNCHANGED <<hist, file, lines, height, commands, issued, output, saved, lost>>

\* The window is resized.
Resize ==
    /\ height' \in Heights
    /\ shown' = None
    /\ UNCHANGED <<hist, file, lines, offset, commands, issued, output, saved, lost>>

\* desktop_draw_terminal: an offset beyond the first line.
Clamped(o, t, room) == IF o > ScrollMax(t, room) THEN ScrollMax(t, room) ELSE o

Draw ==
    /\ offset' = Clamped(offset, lines, height)
    /\ LET before == Len(lines) - height - offset'
           first == IF before < 0 THEN 1 ELSE before + 1
           last == first + height - 1
       IN  shown' = SubSeq(lines, first, IF last > Len(lines) THEN Len(lines) ELSE last)
    /\ UNCHANGED <<hist, file, lines, height, commands, issued, output, saved, lost>>

Next == PlainCommand \/ HistorySave \/ HistoryLoad \/ ClearScreen \/ Scroll \/ Resize \/ Draw

Spec == Init /\ [][Next]_vars

-----------------------------------------------------------------------------
(* Properties. *)

\* The variables are of their types.
TypeOK ==
    /\ hist.next \in 0 .. Size - 1 /\ hist.count \in 0 .. Size
    /\ Len(lines) <= MaxLines /\ \A i \in DOMAIN lines : Len(lines[i]) <= Cols
    /\ offset \in 0 .. MaxLines /\ height \in Heights

\* The history lists the latest commands, as many as it has room for.
HistoryKept == Listing(hist) = Latest(Size, issued)

\* What was saved is what a load gives, whole: the command that saves is itself
\* the latest entry and short enough for the buffer to hold the rest.
SavedComesBack == ~lost

\* A line of output as the rows it takes: one at least.
Rows(line) ==
    LET n == (Len(line) + Cols - 1) \div Cols
    IN  IF n = 0 THEN << <<>> >>
        ELSE [k \in 1 .. n |-> SubSeq(line, (k - 1) * Cols + 1, IF k = n THEN Len(line) ELSE k * Cols)]

\* The terminal holds the end of what was printed, wrapped at its width.
TailKept ==
    lines = IF output = <<>> THEN <<>>
            ELSE Latest(MaxLines, FoldLeft(LAMBDA s, line : s \o Rows(line), <<>>, Split(output)))

\* A drawing fills the window when there are lines enough, wherever it was
\* scrolled to before lines were cleared or the window was resized.
WindowFilled ==
    shown # None => Len(shown) = (IF Len(lines) < height THEN Len(lines) ELSE height)

ShellSound == HistoryKept /\ SavedComesBack /\ TailKept /\ WindowFilled
=============================================================================
