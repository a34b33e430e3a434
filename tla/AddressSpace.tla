--------------------------- MODULE AddressSpace ---------------------------
(***************************************************************************)
(* Page tables, the kernel's lazily filled heap and the two page faults    *)
(* the kernel repairs: mm/paging.c and mm/vm.c.                            *)
(*                                                                         *)
(* A directory sees the heap through a page table.  A user directory       *)
(* copies the kernel's entries once, when it is made: it shares the table  *)
(* the kernel's directory has at that moment, and grows one of its own     *)
(* when there was none.  Everything acts on the directory that is current. *)
(* The heap has one table, and one more table holds the scratch mapping.   *)
(***************************************************************************)
EXTENDS Naturals, FiniteSetsExt

CONSTANTS
    MaxFrames,     \* bound: physical pages
    HeapPages,     \* VM_KERNEL_HEAP_PAGES
    UserDirs,      \* directories of user processes
    Kernel,        \* kernel_pd_phys
    None           \* no frame, no mapping

VARIABLES
    refs,        \* references to each frame; 0 is a free frame
    data,        \* what each frame holds
    root,        \* the frame of each directory
    heapTable,   \* the frame of each directory's heap table
    scratch,     \* the frame of each directory's scratch table
    pte,         \* the entries of each table
    state,       \* vm_page_state
    cur,         \* the current directory
    written,     \* history: what was last written to each page handed out
    panic        \* a fault nobody repaired

vars == <<refs, data, root, heapTable, scratch, pte, state, cur, written, panic>>

Frames == 1 .. MaxFrames
Pages == 1 .. HeapPages
Directories == UserDirs \cup {Kernel}
Made == {d \in Directories : root[d] # None}
Values == 0 .. 1
Entry == [frame : Frames, writable : BOOLEAN, cow : BOOLEAN]
NoEntry == [frame |-> None, writable |-> FALSE, cow |-> FALSE]
Empty == [p \in Pages |-> NoEntry]

\* The frame of the kernel's directory is outside the frames counted here.
Init ==
    /\ refs = [f \in Frames |-> 0] /\ data = [f \in Frames |-> 1]
    /\ root = [d \in Directories |-> IF d = Kernel THEN Kernel ELSE None]
    /\ heapTable = [d \in Directories |-> None]
    /\ scratch = [d \in Directories |-> None]
    /\ pte = [f \in Frames |-> Empty]
    /\ state = [p \in Pages |-> "free"]
    /\ cur = Kernel
    /\ written = [p \in Pages |-> 0]
    /\ panic = FALSE

\* Frames are interchangeable: the first free ones stand for any.  (Pmm has
\* the search.)
FreeFrames == {f \in Frames : refs[f] = 0}
First == Min(FreeFrames)
Second == Min(FreeFrames \ {First})

\* paging_get_mapping in directory d
Look(d, p) == IF heapTable[d] = None THEN NoEntry ELSE pte[heapTable[d]][p]
Mapped(d, p) == Look(d, p) # NoEntry

-----------------------------------------------------------------------------
(* Directories. *)

\* The kernel's entries of the upper quarter, as they are now.
Copied(d) == [heapTable EXCEPT ![d] = heapTable[Kernel]]

\* paging_create_user_directory_phys
CreateDirectory(d) ==
    /\ cur = Kernel /\ root[d] = None
    /\ FreeFrames # {}
    /\ refs' = [refs EXCEPT ![First] = 1]
    /\ root' = [root EXCEPT ![d] = First]
    /\ heapTable' = Copied(d)
    /\ scratch' = [scratch EXCEPT ![d] = scratch[Kernel]]
    /\ UNCHANGED <<data, pte, state, cur, written, panic>>

\* paging_switch_directory
Switch(d) ==
    /\ root[d] # None /\ d # cur
    /\ cur' = d
    /\ UNCHANGED <<refs, data, root, heapTable, scratch, pte, state, written, panic>>

-----------------------------------------------------------------------------
(* The heap's address ranges. *)

Run(first, count) == first .. first + count - 1

\* allocate_virtual_pages: the first run of free pages that is long enough.
Allocate(count) ==
    \E first \in Pages :
        /\ Run(first, count) \subseteq {p \in Pages : state[p] = "free"}
        /\ \A q \in 1 .. first - 1 :
              ~(Run(q, count) \subseteq {p \in Pages : state[p] = "free"})
        /\ state' = [p \in Pages |-> IF p \in Run(first, count) THEN "lazy" ELSE state[p]]
        /\ written' = [p \in Pages |-> IF p \in Run(first, count) THEN 0 ELSE written[p]]
        /\ UNCHANGED <<refs, data, root, heapTable, scratch, pte, cur, panic>>

\* The references pages S of the current table hold to frame f.
Held(S, f) == Cardinality({p \in S : Look(cur, p).frame = f})

\* Unmap S in the current directory and drop the references of its entries.
Released(S) ==
    /\ refs' = [f \in Frames |-> refs[f] - Held(S, f)]
    /\ pte' = IF heapTable[cur] = None THEN pte
              ELSE [pte EXCEPT ![heapTable[cur]] =
                       [p \in Pages |-> IF p \in S THEN NoEntry ELSE @[p]]]

\* free_virtual_pages: page by page, given up at the first one that is free.
Free(first, count) ==
    LET asked == Run(first, count)
        stops == {p \in asked : state[p] = "free"}
        freed == {p \in asked : \A q \in stops : p < q}
    IN  /\ asked \subseteq Pages /\ freed # {}
        /\ Released(freed)
        /\ state' = [p \in Pages |-> IF p \in freed THEN "free" ELSE state[p]]
        /\ UNCHANGED <<data, root, heapTable, scratch, cur, written, panic>>

-----------------------------------------------------------------------------
(* Access to a page that was handed out, and the faults it raises. *)

Panic ==
    /\ panic' = TRUE
    /\ UNCHANGED <<refs, data, root, heapTable, scratch, pte, state, cur, written>>

\* A write that meets a writable entry.
Write(p, v) ==
    /\ state[p] # "free" /\ Look(cur, p).writable
    /\ data' = [data EXCEPT ![Look(cur, p).frame] = v]
    /\ written' = [written EXCEPT ![p] = v]
    /\ UNCHANGED <<refs, root, heapTable, scratch, pte, state, cur, panic>>

Zeroed(f) == [data EXCEPT ![f] = 0]

\* vm_handle_lazy_fault: a frame, and a table when the directory has none.
LazyFault(p) ==
    /\ state[p] # "free" /\ ~Mapped(cur, p)
    /\ IF state[p] # "lazy" \/ Cardinality(FreeFrames) < (IF heapTable[cur] = None THEN 2 ELSE 1)
         THEN Panic
         ELSE LET f == First
                  t == IF heapTable[cur] = None THEN Second ELSE heapTable[cur]
              IN
                 /\ refs' = [refs EXCEPT ![f] = 1, ![t] = 1]
                 /\ heapTable' = [heapTable EXCEPT ![cur] = t]
                 /\ pte' = [pte EXCEPT ![t] =
                       [(IF heapTable[cur] = None THEN Empty ELSE @) EXCEPT ![p] =
                           [frame |-> f, writable |-> TRUE, cow |-> FALSE]]]
                 /\ data' = Zeroed(f)
                 /\ state' = [state EXCEPT ![p] = "reserved"]
                 /\ UNCHANGED <<root, scratch, cur, written, panic>>

\* Mutant: the page's share of the frame it leaves is not given up.
CopyKeepsShare(p, new) ==
    /\ refs' = [refs EXCEPT ![new] = 1, ![scratch'[cur]] = 1]
    /\ data' = [data EXCEPT ![new] = data[Look(cur, p).frame]]
    /\ pte' = [pte EXCEPT ![heapTable[cur]][p] =
                  [frame |-> new, writable |-> TRUE, cow |-> FALSE]]

\* Mutant: the page gets a new frame before its content has been copied.
CopyNothing(p, new) ==
    /\ refs' = [refs EXCEPT ![new] = 1, ![scratch'[cur]] = 1, ![Look(cur, p).frame] = @ - 1]
    /\ pte' = [pte EXCEPT ![heapTable[cur]][p] =
                  [frame |-> new, writable |-> TRUE, cow |-> FALSE]]
    /\ UNCHANGED data

\* The page gets a copy of its frame, and gives up its share of the old one.
Copy(p, new) ==
    /\ refs' = [refs EXCEPT ![new] = 1, ![scratch'[cur]] = 1, ![Look(cur, p).frame] = @ - 1]
    /\ data' = [data EXCEPT ![new] = data[Look(cur, p).frame]]
    /\ pte' = [pte EXCEPT ![heapTable[cur]][p] =
                  [frame |-> new, writable |-> TRUE, cow |-> FALSE]]

\* paging_temp_map: the scratch mapping's table is made where it is missing.
TempMap ==
    IF scratch[cur] # None THEN UNCHANGED scratch
    ELSE scratch' = [scratch EXCEPT ![cur] = Second]

\* vm_handle_cow_fault: the copy is made through the scratch mapping.
CowFault(p) ==
    /\ Mapped(cur, p) /\ Look(cur, p).cow
    /\ IF Cardinality(FreeFrames) < (IF scratch[cur] = None THEN 2 ELSE 1)
         THEN Panic
         ELSE /\ TempMap /\ Copy(p, First)
              /\ UNCHANGED <<root, heapTable, state, cur, written, panic>>

\* A second page is given the frame of the first, and both are marked to be
\* copied before a write.
Share(p, q) ==
    /\ Mapped(cur, p) /\ state[p] # "free"
    /\ state[q] = "lazy" /\ ~Mapped(cur, q)
    /\ LET f == Look(cur, p).frame
           shared == [frame |-> f, writable |-> FALSE, cow |-> TRUE]
       IN  /\ refs' = [refs EXCEPT ![f] = @ + 1]
           /\ pte' = [pte EXCEPT ![heapTable[cur]][p] = shared, ![heapTable[cur]][q] = shared]
    /\ written' = [written EXCEPT ![q] = written[p]]
    /\ UNCHANGED <<data, root, heapTable, scratch, state, cur, panic>>

-----------------------------------------------------------------------------
Next ==
    /\ ~panic
    /\ \/ \E d \in UserDirs : CreateDirectory(d)
       \/ \E d \in Directories : Switch(d)
       \/ \E n \in Pages : Allocate(n)
       \/ \E p, n \in Pages : Free(p, n)
       \/ \E p \in Pages, v \in Values : Write(p, v)
       \/ \E p \in Pages : LazyFault(p)
       \/ \E p \in Pages : CowFault(p)
       \/ \E p, q \in Pages : Share(p, q)

Spec == Init /\ [][Next]_vars

-----------------------------------------------------------------------------
(* Properties. *)

TypeOK ==
    /\ refs \in [Frames -> 0 .. Cardinality(Directories) + 2 * HeapPages]
    /\ data \in [Frames -> Values]
    /\ root \in [Directories -> Frames \cup {Kernel, None}]
    /\ heapTable \in [Directories -> Frames \cup {None}]
    /\ scratch \in [Directories -> Frames \cup {None}]
    /\ pte \in [Frames -> [Pages -> Entry \cup {NoEntry}]]
    /\ state \in [Pages -> {"free", "lazy", "reserved"}]
    /\ cur \in Made /\ panic \in BOOLEAN
    /\ written \in [Pages -> Values]

\* The tables in use.
Tables == {heapTable[d] : d \in Made} \ {None}
ScratchTables == {scratch[d] : d \in Made} \ {None}

\* A frame has as many references as it has uses: as a directory, a table, or
\* an entry of a table.  Nothing is lost by a fault that finds no memory, by a
\* copy or by pages freed in part, and no frame in use is free.
ReferencesCounted ==
    \A f \in Frames :
        refs[f] = Cardinality({d \in Directories : root[d] = f})
                + Cardinality({t \in Tables \cup ScratchTables : t = f})
                + Cardinality({u \in Tables \X Pages : pte[u[1]][u[2]].frame = f})

\* Every directory made so far sees the heap through the kernel's table.
OneTable == \A d \in Made : heapTable[d] = heapTable[Kernel]

\* While all directories share the heap's table, a page that was handed out
\* shows what was last written to it, or zero, whoever looks: frames that are
\* freed, handed out again, shared and copied never show one page's data in
\* another.  (A user directory made before the heap was first touched breaks
\* this: nothing ties its table to the kernel's.)
PagesKeepData ==
    OneTable => \A d \in Made, p \in Pages :
        state[p] # "free" /\ Mapped(d, p) => data[Look(d, p).frame] = written[p]
=============================================================================
