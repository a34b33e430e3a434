------------------------------- MODULE Fat32 -------------------------------
(***************************************************************************)
(* The on-disk structures of fs/fat32.c and the operations of fs/vfs.c     *)
(* that change them, over the write-back store SectorCache implements: the *)
(* variables fat1, fat2 and entry are what cached reads see, fat1d, fat2d  *)
(* and entryd what the device holds, and the Persist actions move one      *)
(* sector from the former to the latter whenever an eviction or a flush    *)
(* does.  The FSInfo sector is written directly.                           *)
(*                                                                         *)
(* The kernel runs one operation at a time, so an operation is a sequence  *)
(* of steps under one program counter: pc is the step to take and ret the  *)
(* step to go on with when the allocator, a flush or a write barrier       *)
(* returns.  What interleaves with the steps is the cache's write-back,    *)
(* power failure and, when Faults asks for it, transfers the device        *)
(* refuses.                                                                *)
(***************************************************************************)
EXTENDS Naturals, FiniteSets

CONSTANTS
    Names,        \* the directory entries that can be created
    Title,        \* the file name an entry is created for
    NClusters,    \* vol->total_clusters
    PerSector,    \* FAT entries in one sector
    DirSlots,     \* directory entries in one cluster
    MaxIndex,     \* largest cluster index written to
    MaxUnread,    \* bound on the free clusters whose entries a boot's check cannot read
    Ops,          \* the operations called
    Faults,       \* subset of {"crash", "ioerror"}
    NoEntry       \* a name with no directory entry

ASSUME Fat32Assumption ==
    /\ NClusters \in Nat \ {0, 1}
    /\ PerSector \in Nat \ {0}
    /\ DirSlots \in Nat \ {0}
    /\ MaxIndex \in Nat /\ MaxUnread \in Nat
    /\ Ops \subseteq {"create", "write", "delete", "truncate", "rename", "sync"}
    /\ Faults \subseteq {"crash", "ioerror"}

First == 2
Last == NClusters + 1
Clusters == First .. Last
Root == First                 \* fat32_format puts the root directory there
FREE == 0
EOC == 1                      \* any value at least FAT32_EOC; 1 is no cluster
Empty == 0                    \* start cluster of an entry with no cluster

ASSUME NoEntryAssumption ==
    NoEntry \notin Names \cup [home : Clusters, start : {Empty} \cup Clusters]

VARIABLES
    fat1, fat2, entry,        \* cached view
    fat1d, fat2d, entryd,     \* on the device
    info,                     \* FSInfo on the device
    stale,                    \* clusters whose content predates their owner
    zeroing,                  \* zeroed in the cache, not yet on the device
    freeCount, nextFree,      \* vol->free_clusters, vol->next_free
    pc, ret, op,              \* the operation under way
    cur, new, start, left, freed,   \* its local variables
    owned,                    \* history: the clusters given to each file
    erred                     \* history: a call failed, or a transfer was refused,
                              \* since the boot's check began

cached == <<fat1, fat2, entry>>
device == <<fat1d, fat2d, entryd, info>>
content == <<stale, zeroing>>
counts == <<freeCount, nextFree>>
locals == <<cur, new, start, left, freed>>
vars == <<cached, device, content, counts, pc, ret, op, locals, owned, erred>>

NoOp == [kind |-> "none", name |-> NoEntry, to |-> NoEntry]
IsCluster(v) == v \in Clusters
Present(e, n) == e[n] # NoEntry
Sector(c) == c \div PerSector
FreeIn(f) == {c \in Clusters : f[c] = FREE}

Init ==
    /\ fat1 = [c \in Clusters |-> IF c = Root THEN EOC ELSE FREE]
    /\ fat2 = fat1
    /\ entry \in [Names -> {NoEntry, [home |-> Root, start |-> Empty]}]
    /\ Cardinality({n \in Names : Present(entry, n)}) <= DirSlots
    /\ fat1d = fat1 /\ fat2d = fat2 /\ entryd = entry
    /\ stale = Clusters \ {Root}
    /\ zeroing = {}
    /\ freeCount = Cardinality(FreeIn(fat1))
    /\ nextFree = First + 1
    /\ info = [free |-> freeCount, next |-> nextFree]
    /\ pc = "idle" /\ ret = "idle" /\ op = NoOp
    /\ cur = Root /\ new = Root /\ start = Empty /\ left = 0 /\ freed = 0
    /\ owned = [n \in Names |-> {}]
    /\ erred = FALSE

-----------------------------------------------------------------------------
(* Write-back, and the calls that wait for it. *)

PersistFat1(k) ==
    /\ \E c \in Clusters : Sector(c) = k /\ fat1[c] # fat1d[c]
    /\ fat1d' = [c \in Clusters |-> IF Sector(c) = k THEN fat1[c] ELSE fat1d[c]]
    /\ UNCHANGED <<fat2d, entryd, zeroing>>

PersistFat2(k) ==
    /\ \E c \in Clusters : Sector(c) = k /\ fat2[c] # fat2d[c]
    /\ fat2d' = [c \in Clusters |-> IF Sector(c) = k THEN fat2[c] ELSE fat2d[c]]
    /\ UNCHANGED <<fat1d, entryd, zeroing>>

PersistEntry(n) ==
    /\ entry[n] # entryd[n]
    /\ entryd' = [entryd EXCEPT ![n] = entry[n]]
    /\ UNCHANGED <<fat1d, fat2d, zeroing>>

PersistZero(c) ==
    /\ c \in zeroing
    /\ zeroing' = zeroing \ {c}
    /\ UNCHANGED <<fat1d, fat2d, entryd>>

Persist ==
    /\ \/ \E k \in 0 .. Last : PersistFat1(k) \/ PersistFat2(k)
       \/ \E n \in Names : PersistEntry(n)
       \/ \E c \in Clusters : PersistZero(c)
    /\ UNCHANGED <<cached, info, stale, counts, pc, ret, op, locals, owned, erred>>

Clean == fat1 = fat1d /\ fat2 = fat2d /\ entry = entryd /\ zeroing = {}

\* Call a flush or a barrier and go on with step r.
Call(sub, r) == pc' = sub /\ ret' = r
Goto(r) == pc' = r /\ UNCHANGED ret

\* Mutant: the barrier does not wait for the flush.
BarrierUnordered ==
    /\ pc = "barrier"
    /\ info' = [free |-> freeCount, next |-> nextFree]
    /\ pc' = ret
    /\ UNCHANGED <<cached, fat1d, fat2d, entryd, content, counts, ret, op,
                   locals, owned, erred>>

\* fat32_write_barrier: everything is on the device, then FSInfo is written.
Barrier ==
    /\ pc = "barrier"
    /\ Clean
    /\ info' = [free |-> freeCount, next |-> nextFree]
    /\ pc' = ret
    /\ UNCHANGED <<cached, fat1d, fat2d, entryd, content, counts, ret, op,
                   locals, owned, erred>>

\* fat32_cache_flush
Flush ==
    /\ pc = "flush"
    /\ Clean
    /\ pc' = ret
    /\ UNCHANGED <<cached, device, content, counts, ret, op, locals, owned, erred>>

-----------------------------------------------------------------------------
(* The FAT. *)

\* fat32_write_fat: FAT1, then FAT2.
WriteFat(c, v) ==
    /\ fat1' = [fat1 EXCEPT ![c] = v]
    /\ fat2' = [fat2 EXCEPT ![c] = v]

\* Mutant: the hint is not taken back to the first cluster.
FollowingUnbounded(c) == c + 1

Following(c) == IF c = Last THEN First ELSE c + 1

\* The first free cluster from the hint on, cyclically.
Candidates ==
    IF \E c \in FreeIn(fat1) : c >= nextFree
      THEN {c \in FreeIn(fat1) : c >= nextFree}
      ELSE FreeIn(fat1)

Found(c) == c \in Candidates /\ \A d \in Candidates : c <= d

\* Mutant: the hint is advanced, the free count is not.
TakeUncounted(c) ==
    /\ WriteFat(c, EOC)
    /\ nextFree' = Following(c)
    /\ new' = c
    /\ UNCHANGED freeCount

Take(c) ==
    /\ WriteFat(c, EOC)
    /\ freeCount' = IF freeCount # 0 THEN freeCount - 1 ELSE 0
    /\ nextFree' = Following(c)
    /\ new' = c

\* fat32_alloc_cluster up to its barrier, settling on cluster c.
AllocAt(c) ==
    /\ pc = "alloc"
    /\ c \in FreeIn(fat1)
    /\ Take(c)
    /\ pc' = "barrier"
    /\ UNCHANGED <<entry, device, content, ret, op, cur, start, left, freed, owned>>

Alloc == \E c \in Clusters : Found(c) /\ AllocAt(c) /\ UNCHANGED erred

\* No free cluster: every caller gives up, and none gives back a cluster it
\* already has.
AllocNoSpace ==
    /\ pc = "alloc"
    /\ FreeIn(fat1) = {}
    /\ pc' = "idle"
    /\ erred' = TRUE
    /\ UNCHANGED <<cached, device, content, counts, ret, op, locals, owned>>

\* Writing zeroes over the cluster just allocated.
Zero(c) == stale' = stale \ {c} /\ zeroing' = zeroing \cup {c}

\* One round of the loop of fat32_free_chain; "next" is what FAT1 says follows
\* the cluster, or a value that ends the loop when it could not be read.
FreeRound(next) ==
    /\ pc = "free"
    /\ WriteFat(cur, FREE)
    /\ stale' = stale \cup {cur}
    /\ IF IsCluster(next)
         THEN /\ cur' = next
              /\ freed' = freed + 1
              /\ UNCHANGED <<counts, pc>>
         ELSE /\ freeCount' = freeCount + freed + 1
              /\ nextFree' = IF start < nextFree THEN start ELSE nextFree
              /\ freed' = 0
              /\ pc' = "barrier"
              /\ UNCHANGED cur
    /\ UNCHANGED <<entry, device, zeroing, ret, op, new, start, left, owned>>

FreeNext == FreeRound(fat1[cur]) /\ UNCHANGED erred

-----------------------------------------------------------------------------
(* Directory entries: fat32_dir_create_entry. *)

Room(c) ==
    Cardinality({n \in Names : Present(entry, n) /\ entry[n].home = c}) < DirSlots

\* Mutant: the old name of a renamed file is never marked deleted.
WriteEntryOnly ==
    /\ pc = "scan"
    /\ Room(cur)
    /\ LET n == IF op.kind = "rename" THEN op.to ELSE op.name
       IN  entry' = [entry EXCEPT ![n] = [home |-> cur, start |-> start]]
    /\ Call("flush", "idle")
    /\ UNCHANGED <<fat1, fat2, device, content, counts, op, locals, owned, erred>>

\* A slot is free in this cluster: write the entry and flush.
WriteEntry ==
    /\ pc = "scan"
    /\ Room(cur)
    /\ LET n == IF op.kind = "rename" THEN op.to ELSE op.name
       IN  entry' = [entry EXCEPT ![n] = [home |-> cur, start |-> start]]
    /\ owned' = IF op.kind = "rename"
                  THEN [owned EXCEPT ![op.to] = owned[op.name]]
                  ELSE [owned EXCEPT ![op.name] = {start}]
    /\ Call("flush", IF op.kind = "rename" THEN "mark" ELSE "idle")
    /\ UNCHANGED <<fat1, fat2, device, content, counts, op, locals, erred>>

\* No slot is free: look in the next cluster, or ask for one more.
ScanOn(next) ==
    /\ pc = "scan"
    /\ ~Room(cur)
    /\ IF IsCluster(next)
         THEN cur' = next /\ Goto("scan")
         ELSE Call("alloc", "linkdir") /\ UNCHANGED cur
    /\ UNCHANGED <<cached, device, content, counts, op, new, start, left, freed,
                   owned>>

ScanNext == ScanOn(fat1[cur]) /\ UNCHANGED erred

\* Zero the new directory cluster, link it, and scan it after the barrier.
LinkDir ==
    /\ pc = "linkdir"
    /\ Zero(new)
    /\ WriteFat(cur, new)
    /\ cur' = new
    /\ Call("barrier", "scan")
    /\ UNCHANGED <<entry, device, counts, op, new, start, left, freed, owned, erred>>

\* fat32_dir_mark_deleted, and the flush that ends it.
MarkDeleted ==
    /\ pc = "mark"
    /\ entry' = [entry EXCEPT ![op.name] = NoEntry]
    /\ owned' = [owned EXCEPT ![op.name] = {}]
    /\ Call("flush", "idle")
    /\ UNCHANGED <<fat1, fat2, device, content, counts, op, locals, erred>>

-----------------------------------------------------------------------------
(* The operations of the VFS. *)

Begin(kind, n, m) ==
    /\ pc = "idle"
    /\ kind \in Ops
    /\ op' = [kind |-> kind, name |-> n, to |-> m]
    /\ UNCHANGED <<cached, device, content, counts, new, owned>>

\* fat32_dir_find: an entry for the same file name.
NameFound(n) == \E m \in Names : Present(entry, m) /\ Title[m] = Title[n]

\* vfs_open with VFS_O_CREATE and vfs_mkdir once the name was not found:
\* allocate, zero, flush, then write the entry.
NewFile(n) ==
    /\ ~Present(entry, n)
    /\ Begin("create", n, NoEntry)
    /\ cur' = Root
    /\ Call("alloc", "zero")
    /\ UNCHANGED <<start, left, freed>>

Create(n) == ~NameFound(n) /\ NewFile(n) /\ UNCHANGED erred

\* Mutant: the entry is written before the zeroes are flushed.
ZeroFirstUnflushed ==
    /\ pc = "zero"
    /\ Zero(new)
    /\ start' = new
    /\ Goto(IF op.kind = "create" THEN "scan" ELSE "walk")
    /\ cur' = IF op.kind = "create" THEN cur ELSE new
    /\ UNCHANGED <<cached, device, counts, op, new, left, freed, owned, erred>>

\* The first cluster of a file is zeroed and flushed before anything else.
ZeroFirst ==
    /\ pc = "zero"
    /\ Zero(new)
    /\ start' = new
    /\ IF op.kind = "create"
         THEN Call("flush", "scan") /\ UNCHANGED cur
         ELSE Call("flush", "walk") /\ cur' = new
    /\ UNCHANGED <<cached, device, counts, op, new, left, freed, owned, erred>>

\* vfs_write at cluster index i: fat32_write_chain, which allocates a first
\* cluster for an empty file.
Write(n, i) ==
    /\ Present(entry, n)
    /\ Begin("write", n, NoEntry)
    /\ start' = entry[n].start
    /\ left' = i
    /\ IF start' = Empty
         THEN Call("alloc", "zero") /\ UNCHANGED cur
         ELSE cur' = start' /\ Goto("walk")
    /\ UNCHANGED <<freed, erred>>

\* Walk to the cluster to write; past the end of the chain, add a cluster.
WalkOn(next) ==
    /\ pc = "walk"
    /\ left > 0
    /\ IF IsCluster(next)
         THEN cur' = next /\ left' = left - 1 /\ Goto("walk")
         ELSE Call("alloc", "link") /\ UNCHANGED <<cur, left>>
    /\ UNCHANGED <<cached, device, content, counts, op, new, start, freed, owned>>

\* Mutant: the walk stops one cluster early and cuts the chain there.
WalkShort == WalkOn(IF left = 1 THEN EOC ELSE fat1[cur]) /\ UNCHANGED erred

WalkNext == WalkOn(fat1[cur]) /\ UNCHANGED erred

\* Mutant: the cluster is linked without being zeroed.
LinkUnzeroed ==
    /\ pc = "link"
    /\ WriteFat(cur, new)
    /\ owned' = [owned EXCEPT ![op.name] = @ \cup {new}]
    /\ cur' = new
    /\ left' = left - 1
    /\ Call("barrier", "walk")
    /\ UNCHANGED <<entry, device, content, counts, op, new, start, freed, erred>>

Link ==
    /\ pc = "link"
    /\ Zero(new)
    /\ WriteFat(cur, new)
    /\ owned' = [owned EXCEPT ![op.name] = @ \cup {new}]
    /\ cur' = new
    /\ left' = left - 1
    /\ Call("barrier", "walk")
    /\ UNCHANGED <<entry, device, counts, op, new, start, freed, erred>>

\* Whose entry the device has in the place of the cached entry of n: that of n,
\* unless it never got there; then what was there before, an entry that is not
\* cached any more or a free slot.
InPlaceOf(n) ==
    IF Present(entryd, n) /\ entryd[n].home = entry[n].home THEN {n}
    ELSE {NoEntry} \cup {m \in Names : /\ Present(entryd, m) /\ ~Present(entry, m)
                                       /\ entryd[m].home = entry[n].home}

\* Mutant: the entry is updated in the cache and never flushed.
SyncEntryUnflushed ==
    /\ pc = "walk" /\ left = 0
    /\ entry' = [entry EXCEPT ![op.name].start = start]
    /\ owned' = [owned EXCEPT ![op.name] = @ \cup {start}]
    /\ Goto("idle")
    /\ UNCHANGED <<fat1, fat2, device, content, counts, op, locals, erred>>

\* The data is in the cache; vfs_sync_open_file reads the sector of the entry
\* from the device, not from the cache, stores size and start cluster in what
\* it finds in the entry's place, puts that in the cached sector and flushes.
SyncEntry ==
    /\ pc = "walk" /\ left = 0
    /\ \E m \in InPlaceOf(op.name) :
          /\ entry' = [n \in Names |->
                          IF n = m THEN [home |-> entry[op.name].home, start |-> start]
                          ELSE IF n = op.name THEN NoEntry ELSE entry[n]]
          /\ owned' = [n \in Names |->
                          IF n = m THEN owned[op.name] \cup {start}
                          ELSE IF n = op.name THEN {} ELSE owned[n]]
    /\ Call("flush", "idle")
    /\ UNCHANGED <<fat1, fat2, device, content, counts, op, locals, erred>>

\* vfs_delete: fat32_dir_delete_entry frees the chain, then marks the entry.
Delete(n) ==
    /\ Present(entry, n)
    /\ Begin("delete", n, NoEntry)
    /\ start' = entry[n].start
    /\ IF start' = Empty
         THEN Goto("mark") /\ UNCHANGED <<cur, freed>>
         ELSE pc' = "free" /\ ret' = "mark" /\ cur' = start' /\ freed' = 0
    /\ UNCHANGED <<left, erred>>

\* vfs_open with VFS_O_TRUNC on an existing file: allocate a cluster, free the
\* old chain, then zero the cluster and point the entry at it.
Truncate(n) ==
    /\ Present(entry, n)
    /\ Begin("truncate", n, NoEntry)
    /\ start' = entry[n].start
    /\ Call("alloc", "freeold")
    /\ UNCHANGED <<cur, left, freed, erred>>

FreeOld ==
    /\ pc = "freeold"
    /\ IF start = Empty
         THEN Goto("replace") /\ UNCHANGED cur
         ELSE cur' = start /\ Call("free", "replace")
    /\ UNCHANGED <<cached, device, content, counts, op, new, start, left, freed,
                   owned, erred>>

Replace ==
    /\ pc = "replace"
    /\ Zero(new)
    /\ entry' = [entry EXCEPT ![op.name].start = new]
    /\ owned' = [owned EXCEPT ![op.name] = {new}]
    /\ Call("flush", "idle")
    /\ UNCHANGED <<fat1, fat2, device, counts, op, locals, erred>>

\* vfs_rename: a second entry for the chain, then the first is marked deleted.
NewName(n, m) ==
    /\ Present(entry, n) /\ ~Present(entry, m)
    /\ Begin("rename", n, m)
    /\ start' = entry[n].start
    /\ cur' = Root
    /\ Goto("scan")
    /\ UNCHANGED <<left, freed>>

Rename(n, m) == ~NameFound(m) /\ NewName(n, m) /\ UNCHANGED erred

\* fat32_sync, from the timer's request or the shell.
Sync ==
    /\ Begin("sync", NoEntry, NoEntry)
    /\ Call("barrier", "idle")
    /\ UNCHANGED <<cur, start, left, freed, erred>>

-----------------------------------------------------------------------------
(* Faults. *)

Running == pc \notin {"idle", "down"}

\* A refused transfer makes the operation, or the check at boot, return with
\* what it did so far.
Abort ==
    /\ Running
    /\ pc' = "idle"
    /\ freed' = 0
    /\ UNCHANGED <<cached, content, counts, ret, op, cur, new, start, left, owned>>

\* fat32_write_fat fails between the two copies of the FAT.
HalfWrite ==
    /\ \/ /\ pc = "alloc"
          /\ \E c \in Clusters : Found(c) /\ fat1' = [fat1 EXCEPT ![c] = EOC]
       \/ pc = "free" /\ fat1' = [fat1 EXCEPT ![cur] = FREE]
       \/ pc \in {"link", "linkdir"} /\ fat1' = [fat1 EXCEPT ![cur] = new]
    /\ IF pc \in {"link", "linkdir"} THEN Zero(new) ELSE UNCHANGED content
    /\ owned' = IF pc = "link" THEN [owned EXCEPT ![op.name] = @ \cup {new}] ELSE owned
    /\ pc' = "idle"
    /\ freed' = 0
    /\ UNCHANGED <<fat2, entry, counts, ret, op, cur, new, start, left>>

\* Power failure: the cached view is lost.
Crash ==
    /\ "crash" \in Faults
    /\ pc # "down"
    /\ fat1' = fat1d /\ fat2' = fat2d /\ entry' = entryd
    /\ stale' = stale \cup zeroing /\ zeroing' = {}
    /\ pc' = "down" /\ ret' = "idle" /\ op' = NoOp
    /\ cur' = Root /\ new' = Root /\ start' = Empty /\ left' = 0 /\ freed' = 0
    /\ owned' = [n \in Names |-> {}]
    /\ UNCHANGED <<device, counts, erred>>

\* fat32_mount takes the counts from FSInfo, when they are plausible.
Mount ==
    /\ pc = "down"
    /\ freeCount' = IF info.free = 0 \/ info.free > NClusters
                      THEN NClusters - 1 ELSE info.free
    /\ nextFree' = IF IsCluster(info.next) THEN info.next ELSE First
    /\ pc' = "mounted"
    /\ UNCHANGED <<cached, device, content, ret, op, locals, owned, erred>>

\* fat32_fsck at boot, before anything is cached but FAT1: the clusters counted
\* as free,
Recounted(n) ==
    /\ pc = "mounted"
    /\ freeCount' = n
    /\ pc' = "counted"
    /\ UNCHANGED <<cached, device, content, nextFree, ret, op, locals, owned>>

\* Mutant: the check trusts the free count of the volume.
RecountTrusting == Recounted(freeCount) /\ erred' = FALSE

Recount == Recounted(Cardinality(FreeIn(fat1))) /\ erred' = FALSE

\* FAT1 copied over FAT2, sector by sector where they differ,
Mirror(k) ==
    /\ pc = "counted"
    /\ \E c \in Clusters : Sector(c) = k /\ fat1[c] # fat2[c]
    /\ \A c \in Clusters : Sector(c) < k => fat1[c] = fat2[c]
    /\ fat2' = [c \in Clusters |-> IF Sector(c) = k THEN fat1[c] ELSE fat2[c]]
    /\ fat2d' = fat2'
    /\ UNCHANGED <<fat1, entry, fat1d, entryd, info, content, counts, pc, ret, op,
                   locals, owned, erred>>

\* and the counts stored.
Fsck ==
    /\ pc = "counted"
    /\ fat1 = fat2
    /\ info' = [free |-> freeCount, next |-> nextFree]
    /\ pc' = "idle"
    /\ UNCHANGED <<cached, fat1d, fat2d, entryd, content, counts, ret, op, locals,
                   owned, erred>>

\* fat32_read_fat fails and answers FAT32_BAD, which every chain walk takes
\* for the end of the chain and the allocator for a cluster in use.
BadRead ==
    \/ WalkOn(EOC) \/ ScanOn(EOC) \/ FreeRound(EOC)
    \/ \E c \in Clusters : AllocAt(c)

\* A refused read makes fat32_dir_find answer that there is no such name, so
\* that a second entry is made for it.
Overlooked == \E n \in Names : NewFile(n) \/ \E m \in Names : NewName(n, m)

\* The boot's check counts a cluster whose FAT entry could not be read as one
\* in use, and goes on.
Miscount ==
    LET exact == Cardinality(FreeIn(fat1))
    IN  \E n \in 0 .. exact : exact - n <= MaxUnread /\ Recounted(n)

IOError ==
    /\ "ioerror" \in Faults
    /\ \/ (Abort \/ HalfWrite) /\ UNCHANGED device
       \/ BadRead \/ Overlooked \/ Miscount
    /\ erred' = TRUE

-----------------------------------------------------------------------------
Next ==
    \/ Persist \/ Barrier \/ Flush
    \/ Alloc \/ AllocNoSpace \/ FreeNext
    \/ WriteEntry \/ ScanNext \/ LinkDir \/ MarkDeleted
    \/ \E n \in Names :
          \/ Create(n) \/ Delete(n) \/ Truncate(n)
          \/ \E i \in 0 .. MaxIndex : Write(n, i)
          \/ \E m \in Names : Rename(n, m)
    \/ ZeroFirst \/ WalkNext \/ Link \/ SyncEntry \/ FreeOld \/ Replace \/ Sync
    \/ IOError \/ Crash \/ Mount
    \/ Recount \/ (\E k \in 0 .. Last : Mirror(k)) \/ Fsck

Spec == Init /\ [][Next]_vars

-----------------------------------------------------------------------------
(* Properties. *)

Entries == {NoEntry} \cup [home : Clusters, start : {Empty} \cup Clusters]
Steps == {"idle", "alloc", "barrier", "flush", "zero", "scan", "linkdir", "mark",
          "walk", "link", "free", "freeold", "replace", "down", "mounted", "counted"}

TypeOK ==
    /\ {fat1, fat2, fat1d, fat2d} \subseteq [Clusters -> {FREE, EOC} \cup Clusters]
    /\ {entry, entryd} \subseteq [Names -> Entries]
    /\ info \in [free : 0 .. NClusters, next : Clusters]
    /\ stale \subseteq Clusters /\ zeroing \subseteq Clusters
    /\ freeCount \in 0 .. NClusters /\ nextFree \in Clusters
    /\ pc \in Steps /\ ret \in Steps
    /\ cur \in Clusters /\ new \in Clusters /\ start \in {Empty} \cup Clusters
    /\ left \in 0 .. MaxIndex /\ freed \in 0 .. NClusters
    /\ owned \in [Names -> SUBSET Clusters]
    /\ erred \in BOOLEAN

\* References between clusters in a FAT f with directory entries e: no entry
\* and no link leads to a free cluster, and no two of them to the same one.
\* So every chain ends, and no two files share a cluster.
Started(e) == {n \in Names : Present(e, n) /\ e[n].start # Empty}
Linked(f) == {c \in Clusters : IsCluster(f[c])}

Sound(f, e) ==
    /\ f[Root] # FREE
    /\ \A n \in Started(e) : f[e[n].start] # FREE /\ e[n].start # Root
    /\ \A c \in Linked(f) : f[f[c]] # FREE /\ f[c] # Root
    /\ \A m, n \in Started(e) : e[m].start = e[n].start => m = n
    /\ \A c, d \in Linked(f) : f[c] = f[d] => c = d
    /\ \A n \in Started(e), c \in Linked(f) : e[n].start # f[c]

Referenced(f, e, c) ==
    \/ c = Root
    \/ \E n \in Started(e) : e[n].start = c
    \/ \E d \in Linked(f) : f[d] = c

\* Between operations the volume is sound, and unless one has failed nothing
\* is lost: every cluster in use belongs to the root directory or to a file.
Consistent ==
    pc = "idle" =>
        /\ Sound(fat1, entry)
        /\ ~erred => \A c \in Clusters \ FreeIn(fat1) : Referenced(fat1, entry, c)

\* vol->free_clusters is the number of free clusters at every step, but for
\* those the loop of fat32_free_chain has not added yet.
FreeCountExact == Cardinality(FreeIn(fat1)) = freeCount + freed

\* Every operation returns with its effect on the device, both copies of the
\* FAT equal and FSInfo current.
DurableAtRest ==
    pc = "idle" =>
        /\ Clean
        /\ fat1 = fat2
        /\ info = [free |-> freeCount, next |-> nextFree]

\* No file and no directory shows what a cluster held for an earlier owner.
NoStaleContent ==
    pc = "idle" =>
        /\ Root \notin stale
        /\ \A n \in Started(entry) : entry[n].start \notin stale
        /\ \A c \in Linked(fat1) : fat1[c] \notin stale

\* A file keeps the clusters it was given: a write may add clusters to a chain
\* but never cuts it (fat32.c:574).
WritesKeepData ==
    pc = "idle" =>
        \A n \in Names : Present(entry, n) =>
            \A c \in owned[n] :
                c = entry[n].start \/ \E d \in Clusters : fat1[d] = c

\* What the device holds is sound at every moment, so that a power failure at
\* any step leaves a volume whose files do not run into each other or into
\* free space (fat32.c:357).
CrashTolerant == Sound(fat1d, entryd)

\* No entry on the device leads to a cluster that has not been zeroed there: a
\* power failure never makes a new file show an older file's content.
CreatedZeroed ==
    \A n \in Started(entryd) : entryd[n].start \notin stale \cup zeroing

\* After a boot's check that was refused no transfer, or with no fault at all,
\* the free count is exact again and the copies of the FAT are the same, and
\* they stay so until a transfer is refused or space runs out (fat32.c:1246-1274).
Recovered ==
    pc = "idle" /\ ~erred =>
        /\ freeCount = Cardinality(FreeIn(fat1))
        /\ fat1 = fat2
        /\ Clean
=============================================================================
