------------------------------ MODULE Userland ------------------------------
(***************************************************************************)
(* Loading and running a user process: src/kernel/userland.c, process.c,   *)
(* the system calls of cpu/idt.c and the user range checks of mem/vmm.c.   *)
(*                                                                         *)
(* userland_start builds a directory, enters ring 3 and comes back to its  *)
(* caller when the process exits or faults.  Nothing it allocates is ever  *)
(* given back, so the n-th frame handed out is frame n; others allocate    *)
(* too, and memory may end before any of its allocations.  Where it gives  *)
(* up, the machine halts.                                                  *)
(***************************************************************************)
EXTENDS Naturals, Sequences, FiniteSets

CONSTANTS
    Programs,     \* programs: sequences of segments [first, last, writable, sound]
    StackPages,   \* the pages below USER_STACK_TOP
    LastPage,     \* bound: user pages are 1 .. LastPage
    MaxFrames,    \* bound: frames of memory
    ProcessMax,   \* PROCESS_MAX
    MaxStarts,    \* bound: programs started
    Modulus,      \* the sizes that 32 bits tell apart, in directory entries
    None

VARIABLES
    pc,           \* where userland_start and the process stand
    program,      \* what is being loaded or run
    next,         \* the segment or stack page that is next
    cr3,          \* the current directory; 0 is the kernel's
    pd,           \* the directory being built
    pages,        \* the user pages of each directory
    used,         \* frames handed out
    content,      \* what each frame holds
    process,      \* process_table
    current,      \* current_process
    tss,          \* the kernel stack of the next entry from ring 3; 0 is the boot stack
    pids,         \* next_pid - 1
    wrapped       \* history: the last call listed, for more than 32 bits can size

vars == <<pc, program, next, cr3, pd, pages, used, content, process, current, tss, pids,
          wrapped>>

Pages == 1 .. LastPage
Frames == 1 .. MaxFrames
Slots == 1 .. ProcessMax
KernelDirectory == 0
NoPages == [p \in Pages |-> None]
Span(segment) == segment.first .. segment.last

Init ==
    /\ pc = "shell" /\ program = <<>> /\ next = 0
    /\ cr3 = KernelDirectory /\ pd = 0 /\ pages = [d \in Frames |-> NoPages]
    /\ used = 0 /\ content = [f \in Frames |-> "free"]
    /\ process = [s \in Slots |-> [state |-> "unused", dir |-> 0, pid |-> 0]]
    /\ current = 0 /\ tss = 0 /\ pids = 0 /\ wrapped = FALSE

-----------------------------------------------------------------------------
(* Loading. *)

Halt ==
    /\ pc' = "halted"
    /\ UNCHANGED <<program, next, cr3, pd, pages, used, content, process, current, tss, pids, wrapped>>

\* Memory that others take meanwhile.
TakenElsewhere ==
    /\ pc \notin {"halted", "panic"} /\ used < MaxFrames /\ used' = used + 1
    /\ UNCHANGED <<pc, program, next, cr3, pd, pages, content, process, current, tss, pids, wrapped>>

\* userland_start up to the new directory.
Start(prog) ==
    /\ pc = "shell" /\ pids < MaxStarts
    /\ IF used = MaxFrames THEN Halt
       ELSE /\ pd' = used + 1 /\ used' = used + 1
            /\ program' = prog /\ next' = 1 /\ pc' = "stack"
            /\ UNCHANGED <<cr3, pages, content, process, current, tss, pids, wrapped>>

HasTable == pages[pd] # NoPages
NeededFor(S) == Cardinality(S) + (IF HasTable THEN 0 ELSE 1)

\* map_user_range: one frame after another.  The first mapping makes the table.
Mapped(S) ==
    LET skip == used + (IF HasTable THEN 0 ELSE 1)
        frame(p) == skip + Cardinality({q \in S : q <= p})
    IN  /\ pages' = [pages EXCEPT ![pd] =
              [p \in Pages |-> IF p \in S THEN [frame |-> frame(p), writable |-> TRUE] ELSE @[p]]]
        /\ used' = used + NeededFor(S)

MapStack ==
    /\ pc = "stack"
    /\ IF used + NeededFor(StackPages) > MaxFrames THEN Halt
       ELSE /\ Mapped(StackPages) /\ pc' = "segments"
            /\ UNCHANGED <<program, next, cr3, pd, content, process, current, tss, pids, wrapped>>

\* A page that is mapped already, to the stack or to another segment, ends it.
MapSegment ==
    /\ pc = "segments" /\ next <= Len(program)
    /\ LET S == Span(program[next])
       IN  IF \/ used + NeededFor(S) > MaxFrames
              \/ \E p \in S : pages[pd][p] # None
             THEN Halt
             ELSE /\ Mapped(S) /\ next' = next + 1
                  /\ UNCHANGED <<pc, program, cr3, pd, content, process, current, tss, pids, wrapped>>

\* The image is copied with the new directory current.
SwitchForCopy ==
    /\ pc = "segments" /\ next > Len(program)
    /\ cr3' = pd /\ next' = 1 /\ pc' = "copy"
    /\ UNCHANGED <<program, pd, pages, used, content, process, current, tss, pids, wrapped>>

FrameOf(d, p) == pages[d][p].frame
FramesOf(d, S) == {FrameOf(d, p) : p \in S}
Filled(F, what) == [f \in Frames |-> IF f \in F THEN what ELSE content[f]]

CopySegment ==
    /\ pc = "copy" /\ next <= Len(program)
    /\ IF ~program[next].sound THEN Halt
       ELSE /\ content' = Filled(FramesOf(cr3, Span(program[next])), "image")
            /\ next' = next + 1
            /\ UNCHANGED <<pc, program, cr3, pd, pages, used, process, current, tss, pids, wrapped>>

ReadOnly(prog) == UNION {Span(prog[i]) : i \in {j \in DOMAIN prog : ~prog[j].writable}}

\* Mutant: the program's text stays writable.
ProtectNothing ==
    /\ pc = "copy" /\ next > Len(program)
    /\ pc' = "create"
    /\ UNCHANGED <<program, next, cr3, pd, pages, used, content, process, current, tss, pids, wrapped>>

\* clear_user_write_range for each segment without PF_W
Protect ==
    /\ pc = "copy" /\ next > Len(program)
    /\ pages' = [pages EXCEPT ![pd] = [p \in Pages |->
          IF p \in ReadOnly(program) THEN [@[p] EXCEPT !.writable = FALSE] ELSE @[p]]]
    /\ pc' = "create"
    /\ UNCHANGED <<program, next, cr3, pd, used, content, process, current, tss, pids, wrapped>>

Reusable(s) == process[s].state \in {"unused", "exited", "faulted"}

\* process_create and process_switch_to.  (The table is never full: one
\* process runs at a time.)
Enter ==
    /\ pc = "create"
    /\ \E s \in Slots :
          /\ Reusable(s) /\ \A t \in Slots : t < s => ~Reusable(t)
          /\ process' = [process EXCEPT ![s] =
                            [state |-> "running", dir |-> pd, pid |-> pids + 1]]
          /\ current' = s /\ tss' = s
    /\ cr3' = pd /\ pids' = pids + 1 /\ pc' = "user"
    /\ UNCHANGED <<program, next, pd, pages, used, content, wrapped>>

-----------------------------------------------------------------------------
(* The process. *)

\* Mutant: the caller goes on under the process's directory.
ToKernelAfterExit == current' = 0 /\ tss' = 0 /\ UNCHANGED cr3

\* process_switch_to_kernel
ToKernel == current' = 0 /\ tss' = 0 /\ cr3' = KernelDirectory

\* userland_return_from_syscall and userland_fault_current_process: the saved
\* context brings userland_start back to its caller.
Leave(state) ==
    /\ process' = [process EXCEPT ![current].state = state]
    /\ ToKernel /\ pc' = "shell"
    /\ UNCHANGED <<program, next, pd, pages, used, content, pids, wrapped>>

Exit == pc = "user" /\ Leave("exited")

\* A divide error and the like, from ring 3.
Exception == pc = "user" /\ Leave("faulted")

\* A store of the process itself: a page fault ends it.
Store(p) ==
    /\ pc = "user"
    /\ IF pages[cr3][p] # None /\ pages[cr3][p].writable
         THEN /\ content' = Filled({FrameOf(cr3, p)}, "data")
              /\ UNCHANGED <<pc, program, next, cr3, pd, pages, used, process, current, tss, pids, wrapped>>
         ELSE Leave("faulted")

\* Mutant: the range check does not ask whether the pages are writable.
AccessibleForRead(first, last, write) ==
    \A p \in first .. last : p \in Pages /\ pages[cr3][p] # None

\* vmm_user_range_accessible
Accessible(first, last, write) ==
    \A p \in first .. last :
        p \in Pages /\ pages[cr3][p] # None /\ (write => pages[cr3][p].writable)

\* The kernel stores into user pages for a process: CR0.WP holds for it too,
\* and a fault of its own stops the machine.
KernelStores(S) ==
    IF \A p \in S : p \in Pages /\ pages[cr3][p] # None /\ pages[cr3][p].writable
      THEN /\ content' = Filled(FramesOf(cr3, S), "data")
           /\ UNCHANGED <<pc, program, next, cr3, pd, pages, used, process, current, tss, pids>>
      ELSE /\ pc' = "panic"
           /\ UNCHANGED <<program, next, cr3, pd, pages, used, content, process, current, tss, pids>>

\* SYS_READ, SYS_READCHAR, SYS_STAT, SYS_TCP_RECV, SYS_NET_DNS and SYS_NET_STAT
\* fill a range.  A range that is not all the process's own to write is refused
\* whole.
SystemCall(first, last) ==
    /\ pc = "user" /\ Accessible(first, last, TRUE)
    /\ KernelStores(first .. last) /\ wrapped' = FALSE

\* SYS_LISTDIR asks for a range of max entries, whose size is reckoned in 32
\* bits, and stores as many as the directory has, up to max.  (An entry takes a
\* page here.  A range of no bytes is not checked at all.)
ListDirectory(first, max, entries) ==
    LET stored == IF max < entries THEN max ELSE entries
    IN  /\ pc = "user" /\ Accessible(first, first + (max % Modulus) - 1, TRUE)
        /\ KernelStores(first .. first + stored - 1)
        /\ wrapped' = (max >= Modulus)

Next ==
    \/ TakenElsewhere
    \/ \E prog \in Programs : Start(prog)
    \/ MapStack \/ MapSegment \/ SwitchForCopy \/ CopySegment \/ Protect \/ Enter
    \/ Exit \/ Exception
    \/ \E p \in Pages : Store(p)
    \/ \E first, last \in Pages : first <= last /\ SystemCall(first, last)
    \/ \E first, entries \in Pages, max \in 0 .. Modulus + 1 : ListDirectory(first, max, entries)

Spec == Init /\ [][Next]_vars

-----------------------------------------------------------------------------
(* Properties. *)

TypeOK ==
    /\ pc \in {"shell", "stack", "segments", "copy", "create", "user", "halted", "panic"}
    /\ program \in Programs \cup {<<>>} /\ next \in Nat
    /\ cr3 \in Frames \cup {KernelDirectory} /\ pd \in Frames \cup {0} /\ used \in 0 .. MaxFrames
    /\ content \in [Frames -> {"free", "image", "data"}]
    /\ process \in [Slots -> [state : {"unused", "running", "exited", "faulted"},
                              dir : Frames \cup {0}, pid : 0 .. MaxStarts]]
    /\ current \in Slots \cup {0} /\ tss \in Slots \cup {0} /\ pids \in 0 .. MaxStarts
    /\ wrapped \in BOOLEAN
    /\ \A d \in Frames, p \in Pages : pages[d][p] # None =>
          pages[d][p] \in [frame : Frames, writable : BOOLEAN]

\* The directory, the kernel stack and the process table always say the same:
\* in ring 3 those of the one running process, back in the caller the kernel's,
\* and only the loader works under the directory it is filling.
ContextSound ==
    /\ pc = "user" => /\ current # 0 /\ tss = current
                      /\ cr3 = process[current].dir /\ process[current].state = "running"
    /\ pc \in {"shell", "stack", "segments"} => cr3 = KernelDirectory
    /\ pc \in {"copy", "create"} => cr3 = pd
    /\ pc \notin {"user", "halted", "panic"} => current = 0 /\ tss = 0
    /\ \A s \in Slots : process[s].state = "running" => s = current

\* No page of a process shares its frame with another page, of the same or of
\* an earlier process, or with a directory.
FramesApart ==
    \A d \in Frames, p \in Pages :
        pages[d][p] # None =>
            /\ FrameOf(d, p) \notin {process[s].dir : s \in Slots} \cup {pd}
            /\ \A e \in Frames, q \in Pages :
                   <<d, p>> # <<e, q>> /\ pages[e][q] # None => FrameOf(d, p) # FrameOf(e, q)

\* Whatever a process stores or asks the kernel to store, the text it was
\* loaded with stays, and the kernel faults on its behalf only in a listing
\* of more entries than 32 bits can size, whose range the check does not see.
TextIntact ==
    /\ pc = "panic" => wrapped
    /\ pc = "user" => \A p \in ReadOnly(program) : content[FrameOf(cr3, p)] = "image"
=============================================================================
