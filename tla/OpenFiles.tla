----------------------------- MODULE OpenFiles -----------------------------
(***************************************************************************)
(* The open-file table of fs/vfs.c over the cluster chains of fs/fat32.c.  *)
(*                                                                         *)
(* An open file keeps a copy of its entry's start and size, and writes     *)
(* both back after each write.  Nothing connects two open files of one     *)
(* entry, or an open file and a later delete, truncation or renaming: the  *)
(* history variable stale holds the open files whose entry was changed     *)
(* behind their back.                                                      *)
(*                                                                         *)
(* Lengths and positions count clusters.  A position is an input of each   *)
(* write: reads and vfs_seek leave it anywhere, past the end too.  A start  *)
(* of Free is a file with no cluster, as other systems leave an empty one.  *)
(* vfs_write_file is an open, a write and a close.                         *)
(***************************************************************************)
EXTENDS Naturals, Sequences, Functions, FiniteSetsExt

CONSTANTS
    Paths,       \* the files' names
    Clusters,    \* the clusters of the volume but the root directory's first
    PerCluster,  \* directory entries in one cluster
    MaxOpen,     \* VFS_MAX_OPEN_FILES
    MaxPos,      \* bound on sizes
    Positions,   \* where vfs_seek and reads may leave an open file
    Counts,      \* how much one write may ask for
    None, Free, End

VARIABLES
    link,        \* the FAT
    block,       \* what each cluster holds
    entry,       \* the directory's slots
    dir,         \* the clusters the directory has grown by
    file,        \* vfs_files
    stale,       \* history: open files whose entry has changed since
    conflict,    \* history: one of them was written to
    holds,       \* history: what was written to each slot's file
    lost         \* history: clusters taken by calls that failed before an entry
                 \* led to them

vars == <<link, block, entry, dir, file, stale, conflict, holds, lost>>

Handles == 1 .. MaxOpen
Slots == 1 .. Cardinality(Paths)
Total == Cardinality(Clusters)
Data == 0 .. 1
Zeroes == [i \in 0 .. MaxPos |-> 0]

Init ==
    /\ link = [c \in Clusters |-> Free] /\ block = [c \in Clusters |-> 1]
    /\ \/ entry = [s \in Slots |-> None]
       \/ \E p \in Paths :
             entry = [s \in Slots |-> IF s = 1 THEN [path |-> p, start |-> Free, size |-> 0]
                                             ELSE None]
    /\ dir = <<>> /\ lost = {}
    /\ file = [h \in Handles |-> None]
    /\ stale = {} /\ conflict = FALSE
    /\ holds = [s \in Slots |-> Zeroes]

Open == {h \in Handles : file[h] # None}
Live == {s \in Slots : entry[s] # None}
FreeClusters == {c \in Clusters : link[c] = Free}

\* The i-th cluster of the chain from c, and what ends the chain after it.
Nth(c) ==
    LET n[i \in 0 .. Total] ==
            IF i = 0 THEN c
            ELSE LET before == n[i - 1] IN IF before \in Clusters THEN link[before] ELSE End
    IN  n
Chain(c) == Range(Nth(c)) \cap Clusters

\* fat32_alloc_cluster k times.  (Which clusters: Fat32 has the search.)
Taken(k) ==
    {q \in [1 .. k -> FreeClusters] : \A i, j \in 1 .. k : q[i] = q[j] => i = j}

\* fat32_free_chain
Without(c, fat) == [d \in Clusters |-> IF d \in Chain(c) THEN Free ELSE fat[d]]

\* vfs_resolve_path in one directory
Resolved(p) == {s \in Live : entry[s].path = p}

-----------------------------------------------------------------------------
(* vfs_open and vfs_close. *)

\* The first slot of the table.
Slot(h) == h \notin Open /\ \A g \in Handles : g < h => g \in Open

Handle(s, start, size) == [slot |-> s, start |-> start, size |-> size]

OthersOn(s, h) == {g \in Open \ {h} : file[g].slot = s}

OpenFile(p) ==
    \E h \in Handles, s \in Resolved(p) :
        /\ Slot(h)
        /\ file' = [file EXCEPT ![h] = Handle(s, entry[s].start, entry[s].size)]
        /\ UNCHANGED <<link, block, entry, dir, stale, conflict, holds, lost>>

\* fat32_dir_create_entry: the first free slot; when the clusters of the
\* directory have none, it grows by one more.
FirstFree(s) == entry[s] = None /\ \A t \in Slots : t < s => entry[t] # None
Grows(s) == s > PerCluster * (1 + Len(dir))

\* The FAT when the directory has the clusters of q.
Chained(fat, q) ==
    [c \in Clusters |-> IF \E i \in DOMAIN q : q[i] = c
                         THEN LET i == CHOOSE i \in DOMAIN q : q[i] = c
                              IN  IF i = Len(q) THEN End ELSE q[i + 1]
                         ELSE fat[c]]

\* A new file gets a zeroed cluster, and then its entry.
Create(p) ==
    /\ Resolved(p) = {}
    /\ \E h \in Handles, s \in Slots, c \in FreeClusters :
          /\ Slot(h) /\ FirstFree(s)
          /\ IF Grows(s) THEN \E d \in FreeClusters \ {c} : dir' = Append(dir, d)
                         ELSE dir' = dir
          /\ link' = Chained([link EXCEPT ![c] = End], dir')
          /\ block' = [d \in Clusters |->
                          IF d = c \/ d \in Range(dir') \ Range(dir) THEN 0 ELSE block[d]]
          /\ entry' = [entry EXCEPT ![s] = [path |-> p, start |-> c, size |-> 0]]
          /\ file' = [file EXCEPT ![h] = Handle(s, c, 0)]
          /\ holds' = [holds EXCEPT ![s] = Zeroes]
          /\ UNCHANGED <<stale, conflict, lost>>

\* The file's cluster was the last one and the directory must grow: the call
\* fails, and does not give the cluster back.
CreateFails(p) ==
    /\ Resolved(p) = {}
    /\ \E h \in Handles, s \in Slots, c \in FreeClusters :
          /\ Slot(h) /\ FirstFree(s) /\ Grows(s) /\ FreeClusters = {c}
          /\ link' = [link EXCEPT ![c] = End] /\ block' = [block EXCEPT ![c] = 0]
          /\ lost' = lost \cup {c}
    /\ UNCHANGED <<entry, dir, file, stale, conflict, holds>>

\* Mutant: the file keeps the chain that has just been freed.
TruncateKeepsStart(p) ==
    \E h \in Handles, s \in Resolved(p), c \in FreeClusters :
        /\ Slot(h)
        /\ link' = [Without(entry[s].start, link) EXCEPT ![c] = End]
        /\ block' = [block EXCEPT ![c] = 0]
        /\ entry' = [entry EXCEPT ![s].size = 0]
        /\ file' = [file EXCEPT ![h] = Handle(s, entry[s].start, 0)]
        /\ stale' = stale \cup OthersOn(s, h)
        /\ holds' = [holds EXCEPT ![s] = Zeroes]
        /\ UNCHANGED <<dir, conflict, lost>>

\* The new cluster is taken before the old chain is freed: a full volume
\* leaves the file as it was.  The write flag is not asked for.
Truncate(p) ==
    \E h \in Handles, s \in Resolved(p), c \in FreeClusters :
        /\ Slot(h)
        /\ link' = [Without(entry[s].start, link) EXCEPT ![c] = End]
        /\ block' = [block EXCEPT ![c] = 0]
        /\ entry' = [entry EXCEPT ![s].start = c, ![s].size = 0]
        /\ file' = [file EXCEPT ![h] = Handle(s, c, 0)]
        /\ stale' = stale \cup OthersOn(s, h)
        /\ holds' = [holds EXCEPT ![s] = Zeroes]
        /\ UNCHANGED <<dir, conflict, lost>>

Close(h) ==
    /\ h \in Open
    /\ file' = [file EXCEPT ![h] = None] /\ stale' = stale \ {h}
    /\ UNCHANGED <<link, block, entry, dir, conflict, holds, lost>>

-----------------------------------------------------------------------------
(* Writing. *)

\* The walks of the first n clusters of a write at pos, in links.
Walked(pos, n) == (n * pos) + ((n * (n - 1)) \div 2)

Length(c) == Cardinality(Chain(c))

\* The clusters fat32_write_chain gets to write, of n at pos into a chain of
\* length old while room clusters are free: the guard
\* against circular chains counts the links of all its walks together, and
\* the volume may be full.
Done(old, room, pos, n) ==
    Max({d \in 0 .. n : Walked(pos, d) <= Total /\ (d > 0 => pos + d <= old + room)})

\* The length it has given the chain by then.
Reached(old, room, pos, n) ==
    LET d == Done(old, room, pos, n)
        wanted == IF d = n THEN pos + n
                  ELSE Min({pos + d, Total - Walked(pos, d)}) + 1
    IN  Max({old, Min({wanted, old + room})} \cup (IF d > 0 THEN {pos + d} ELSE {}))

\* Mutant: the chain grows by clusters that still hold what they held.
ZeroedLate(q) == block

\* fat32_write_chain zeroes each cluster before it links it.
Zeroed(q) == [c \in Clusters |-> IF c \in Range(q) THEN 0 ELSE block[c]]

\* vfs_sync_open_file: the slot gets the open file's start and size, whatever
\* the slot holds by now.  A slot that holds no file keeps none.
Synced(f) ==
    [entry EXCEPT ![f.slot] =
        IF @ = None THEN None ELSE [@ EXCEPT !.start = f.start, !.size = f.size]]

\* Mutant: every write is taken for an append.
SizeAppended(f, pos, n) == f.size + n

SizeAfter(f, pos, n) == Max({f.size, pos + n})

\* vfs_write of n clusters of v.  A file with no cluster gets one first, which
\* the open file remembers; the clusters the chain grows by follow it.  A write
\* that cannot be finished fails with its first clusters written and its chain
\* grown, but the size not moved and the entry not told of a first cluster.
Write(h, pos, n, v) ==
    LET f == file[h]
        old == Length(f.start)
        room == Cardinality(FreeClusters)
        d == Done(old, room, pos, n)
        nth == Nth(f.start)
        units == pos .. pos + d - 1
        size == IF d = n THEN SizeAfter(f, pos, n) ELSE f.size
        untold == entry[f.slot] # None /\ entry[f.slot].start = Free
    IN  /\ h \in Open /\ pos + n <= MaxPos
        /\ \E q \in Taken(Reached(old, room, pos, n) - old) :
           LET At(i) == IF i < old THEN nth[i] ELSE q[i - old + 1]
               start == IF q = <<>> THEN f.start ELSE At(0)
           IN  /\ link' = IF q = <<>> THEN link
                          ELSE Chained(link, IF old = 0 THEN q ELSE <<At(old - 1)>> \o q)
               /\ block' = [c \in Clusters |->
                        IF c \in {At(i) : i \in units} THEN v ELSE Zeroed(q)[c]]
               /\ file' = [file EXCEPT ![h].start = start, ![h].size = size]
               /\ entry' = IF d = n THEN Synced(file'[h]) ELSE entry
               /\ lost' = IF d = n THEN lost \ (Chain(f.start) \cup Range(q))
                          ELSE IF untold THEN lost \cup Range(q) ELSE lost
        /\ stale' = stale \cup OthersOn(f.slot, h)
        /\ conflict' = (h \in stale)
        /\ holds' = [holds EXCEPT ![f.slot] =
                        [i \in 0 .. MaxPos |-> IF i \in units THEN v
                                              ELSE IF f.start = Free THEN 0 ELSE @[i]]]
        /\ UNCHANGED dir

-----------------------------------------------------------------------------
(* Names. *)

\* vfs_delete
Delete(p) ==
    \E s \in Resolved(p) :
        /\ link' = Without(entry[s].start, link)
        /\ entry' = [entry EXCEPT ![s] = None]
        /\ stale' = stale \cup OthersOn(s, 0)
        /\ UNCHANGED <<block, dir, file, conflict, holds, lost>>

\* vfs_rename: a new entry for the same chain, then the old one goes.
Rename(p, q) ==
    /\ Resolved(q) = {}
    /\ \E s \in Resolved(p), t \in Slots :
          /\ FirstFree(t)
          /\ IF Grows(t) THEN \E d \in FreeClusters : dir' = Append(dir, d)
                         ELSE dir' = dir
          /\ entry' = [entry EXCEPT ![t] = [entry[s] EXCEPT !.path = q], ![s] = None]
          /\ holds' = [holds EXCEPT ![t] = holds[s]]
          /\ stale' = stale \cup OthersOn(s, 0)
    /\ link' = Chained(link, dir')
    /\ block' = [d \in Clusters |-> IF d \in Range(dir') \ Range(dir) THEN 0 ELSE block[d]]
    /\ UNCHANGED <<file, conflict, lost>>

\* A write that meets a conflict is the last step.
Next ==
    \/ ~conflict /\ \E p \in Paths : OpenFile(p)
    \/ ~conflict /\ \E p \in Paths : Create(p)
    \/ ~conflict /\ \E p \in Paths : CreateFails(p)
    \/ ~conflict /\ \E p \in Paths : Truncate(p)
    \/ ~conflict /\ \E h \in Handles : Close(h)
    \/ ~conflict /\ \E h \in Handles, pos \in Positions, n \in Counts : Write(h, pos, n, 1)
    \/ ~conflict /\ \E p \in Paths : Delete(p)
    \/ ~conflict /\ \E p, q \in Paths : Rename(p, q)

Spec == Init /\ [][Next]_vars

-----------------------------------------------------------------------------
(* Properties. *)

TypeOK ==
    /\ link \in [Clusters -> Clusters \cup {Free, End}]
    /\ block \in [Clusters -> Data]
    /\ \A s \in Slots : entry[s] # None =>
          entry[s] \in [path : Paths, start : Clusters \cup {Free}, size : 0 .. MaxPos]
    /\ \A h \in Handles : file[h] # None =>
          file[h] \in [slot : Slots, start : Clusters \cup {Free}, size : 0 .. MaxPos]
    /\ dir \in Seq(Clusters) /\ lost \subseteq Clusters
    /\ stale \subseteq Open /\ conflict \in BOOLEAN
    /\ holds \in [Slots -> [0 .. MaxPos -> Data]]

\* While no open file is written to that others have changed behind its back,
\* every allocated cluster is in the chain of one entry or of the directory,
\* each chain ends where a chain ends, and an open file nobody interfered with
\* agrees with its entry.  For want of room two calls lose clusters, and no
\* other does: a creation whose directory cannot grow (vfs.c:519), and the first
\* write to a file without a cluster, until the same open file is written to
\* again (fat32.c:592).
FilesSound ==
    ~conflict =>
        /\ \A s, t \in Live : s # t =>
              Chain(entry[s].start) \cap Chain(entry[t].start) = {}
        /\ LET files == UNION {Chain(entry[s].start) : s \in Live}
           IN  /\ {c \in Clusters : link[c] # Free} = files \cup Range(dir) \cup lost
               /\ files \cap (Range(dir) \cup lost) = {} /\ Range(dir) \cap lost = {}
        /\ \A s \in Live : End \in Range(Nth(entry[s].start))
        /\ \A s \in Live : entry[s].size <= Length(entry[s].start)
        /\ \A h \in Open \ stale :
              /\ file[h].slot \in Live
              /\ \/ file[h].start = entry[file[h].slot].start
                 \/ entry[file[h].slot].start = Free /\ Chain(file[h].start) \subseteq lost
              /\ file[h].size = entry[file[h].slot].size

\* Under the same condition each file holds what was written to it, and zeroes
\* where nothing was: after seeks past the end, writes that failed halfway,
\* truncations and clusters that belonged to other files.
FilesKeepData ==
    ~conflict =>
        \A s \in Live : LET nth == Nth(entry[s].start) IN
            \A i \in 0 .. entry[s].size - 1 : block[nth[i]] = holds[s][i]
=============================================================================
