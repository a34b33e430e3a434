---------------------------- MODULE Fat32Proofs ----------------------------
(***************************************************************************)
(* Proofs about Fat32, for any number of clusters, names and slots.        *)
(*                                                                         *)
(* The first half is about a volume whose transfers succeed, under every   *)
(* operation.  In the middle of one the cached entries and FAT do not say  *)
(* what the volume is: a file half deleted still has its entry, a first    *)
(* cluster is linked before the entry knows it.  View is the directory as  *)
(* the operation will leave it, Held the clusters that are in use and that *)
(* it refers to nowhere; with both, soundness holds at every step and each *)
(* step changes it in one of five ways (the Tidy lemmas).                  *)
(*                                                                         *)
(* That a write never cuts a chain needs more: each file keeps a set of    *)
(* clusters closed under links, no link leads into it from outside, and no *)
(* two of these sets meet.  The one way in is from a Lost cluster, one     *)
(* that a failed allocation left in use with nothing leading to it.        *)
(*                                                                         *)
(* The second half is about power failures and refused transfers while     *)
(* files are only created and written.  There a reference is one that the  *)
(* cache or the device holds, and BothSound says that all of them together *)
(* agree: so whichever part of the cache the device has, it is sound.      *)
(***************************************************************************)
EXTENDS Fat32, FiniteSetTheorems, TLAPS

-----------------------------------------------------------------------------
(* The control: which steps call the allocator, a wait or the freeing loop, *)
(* and for which operation. *)

\* The step a flush or a barrier returns to, or the step itself.
Point == IF pc \in {"barrier", "flush"} THEN ret ELSE pc

\* The call of the allocator on behalf of step r, or the point after it.
For(r) == Point = r \/ (Point = "alloc" /\ ret = r)

Scanning == Point = "scan" \/ For("linkdir")
Walking == Point = "walk" \/ For("link")
Detached == Point \in {"free", "mark", "replace"}

Control ==
    /\ pc = "alloc" => ret \in {"zero", "linkdir", "link", "freeold"}
    /\ pc = "barrier" =>
          ret \in {"zero", "linkdir", "link", "freeold", "scan", "walk", "mark",
                   "replace", "idle"}
    /\ pc = "flush" => ret \in {"scan", "walk", "mark", "idle"}
    /\ pc = "free" => ret \in {"mark", "replace"} /\ start \in Clusters
    /\ For("link") => left > 0
    /\ Walking => start \in Clusters

Called ==
    /\ For("zero") => op.kind \in {"create", "write"}
    /\ Scanning => op.kind \in {"create", "rename"}
    /\ Walking => op.kind = "write"
    /\ For("freeold") \/ Point = "replace" => op.kind = "truncate"
    /\ Point = "free" => op.kind = IF ret = "mark" THEN "delete" ELSE "truncate"
    /\ Point = "mark" => op.kind \in {"delete", "rename"}

Named ==
    /\ For("zero") \/ Scanning \/ Walking \/ Detached \/ For("freeold") => op.name \in Names
    /\ For("zero") =>
          IF op.kind = "create" THEN ~Present(entry, op.name)
          ELSE Present(entry, op.name) /\ entry[op.name].start = Empty
    /\ Scanning =>
          IF op.kind = "create" THEN ~Present(entry, op.name) /\ start \in Clusters
          ELSE /\ Present(entry, op.name) /\ entry[op.name].start = start
               /\ op.to \in Names /\ ~Present(entry, op.to)
    /\ Walking => Present(entry, op.name) /\ entry[op.name].start \in {Empty, start}
    /\ For("freeold") => Present(entry, op.name) /\ entry[op.name].start = start
    /\ Detached => Present(entry, op.name)

Orderly == Control /\ Called /\ Named

-----------------------------------------------------------------------------
(* The volume during an operation. *)

\* The entries as they will be: without the file being deleted or truncated,
\* or with the first cluster of the file being written.
Without(e, n) == [e EXCEPT ![n] = NoEntry]
WithStart(e, n, s) == [e EXCEPT ![n].start = s]

View ==
    IF Detached THEN Without(entry, op.name)
    ELSE IF Walking THEN WithStart(entry, op.name, start)
    ELSE entry

Fresh == Point \in {"zero", "linkdir", "link", "freeold", "replace"}
            \/ (Point = "free" /\ ret = "replace")
Begun == Scanning /\ op.kind = "create"

\* The clusters that are allocated and not yet, or no longer, referred to.
Held == 
    (IF Fresh THEN {new} ELSE {}) \cup (IF Begun THEN {start} ELSE {})
    \cup (IF Point = "free" THEN {cur} ELSE {})

Tidy(f, e, H) ==
    /\ Sound(f, e)
    /\ \A c \in H : c \in Clusters /\ f[c] # FREE /\ ~Referenced(f, e, c)

Whole(f, e, H) == \A c \in Clusters : f[c] # FREE => c \in H \/ Referenced(f, e, c)

VolumeTidy == Tidy(fat1, View, Held)
VolumeWhole == ~erred => Whole(fat1, View, Held)

Ends ==
    /\ Fresh => fat1[new] = EOC
    /\ Begun => fat1[start] = EOC /\ (Fresh => start # new)
    /\ Point = "free" /\ Fresh => cur # new

Keeps(n) == IF Walking /\ n = op.name THEN owned[n] \cup {start} ELSE owned[n]

Lost(c) == fat1[c] # FREE /\ c \notin Held /\ ~Referenced(fat1, View, c)

Apart(n) ==
    /\ \A c \in owned[n] : c = entry[n].start \/ \E d \in Clusters : fat1[d] = c
    /\ entry[n].start # Empty => entry[n].start \in owned[n]
    /\ \A c \in Clusters : fat1[c] \in Keeps(n) => c \in Keeps(n) \/ Lost(c)
    /\ \A c \in Keeps(n) : IsCluster(fat1[c]) => fat1[c] \in Keeps(n)
    /\ \A m \in Names \ {n} : Present(View, m) => Keeps(m) \cap Keeps(n) = {}

Kept == \A n \in Names : Present(View, n) => Apart(n)

Cursor ==
    /\ For("zero") /\ op.kind = "create" => cur = Root
    /\ Scanning =>
          /\ Referenced(fat1, View, cur)
          /\ \A n \in Names : Present(View, n) => cur \notin Keeps(n)
    /\ Walking => cur \in Keeps(op.name)
    /\ For("linkdir") \/ For("link") => fat1[cur] = EOC
    /\ Point = "free" =>
          \A n \in Names : Present(View, n) => cur \notin owned[n]

NoneStale ==
    /\ \A c \in Clusters : Referenced(fat1, View, c) => c \notin stale
    /\ Begun => start \notin stale

Counted ==
    /\ FreeCountExact
    /\ pc # "free" => freed = 0

Stored ==
    /\ fat1 = fat2
    /\ pc \notin {"barrier", "flush", "free"} => Clean
    /\ pc # "barrier" => info = [free |-> freeCount, next |-> nextFree]

-----------------------------------------------------------------------------
(* Power failures and refused transfers. *)

PointsTo(c, t) == fat1[c] = t \/ fat1d[c] = t
Starts(n, t) ==
    \/ Present(entry, n) /\ entry[n].start = t
    \/ Present(entryd, n) /\ entryd[n].start = t

BothSound ==
    /\ fat1[Root] # FREE /\ fat1d[Root] # FREE
    /\ \A c, t \in Clusters : PointsTo(c, t) => fat1[t] # FREE /\ fat1d[t] # FREE /\ t # Root
    /\ \A n \in Names, t \in Clusters :
          Starts(n, t) => fat1[t] # FREE /\ fat1d[t] # FREE /\ t # Root
    /\ \A c, d, t \in Clusters : PointsTo(c, t) /\ PointsTo(d, t) => c = d
    /\ \A m, n \in Names, t \in Clusters : Starts(m, t) /\ Starts(n, t) => m = n
    /\ \A c, t \in Clusters, n \in Names : ~(PointsTo(c, t) /\ Starts(n, t))

Loose(t) ==
    /\ t # Root /\ fat1[t] # FREE
    /\ \A c \in Clusters : ~PointsTo(c, t)

Pending ==
    /\ Fresh => Loose(new) /\ \A n \in Names : ~Starts(n, new)
    /\ Fresh /\ pc # "barrier" => fat1d[new] # FREE
    /\ Begun \/ Walking => Loose(start) /\ fat1d[start] # FREE /\ (Fresh => start # new)
    /\ Begun => \A n \in Names : ~Starts(n, start)
    /\ Walking => \A n \in Names \ {op.name} : ~Starts(n, start)
    /\ Scanning \/ Walking => fat1[cur] # FREE
    /\ For("zero") /\ op.kind = "create" => cur = Root

Growing ==
    /\ op.kind \in {"none", "create", "write", "sync"}
    /\ pc \notin {"free", "freeold", "mark", "replace"}
    /\ ret \notin {"free", "freeold", "mark", "replace"}
    /\ freed = 0

ZeroedFirst ==
    /\ \A n \in Names, t \in Clusters : Starts(n, t) => t \notin stale \cup zeroing
    /\ Begun \/ Walking => start \notin stale /\ (pc # "flush" => start \notin zeroing)

Rebooted == pc \in {"down", "mounted", "counted"} => Clean

Restored ==
    ~erred /\ pc \notin {"down", "mounted"} =>
        /\ freeCount = Cardinality(FreeIn(fat1))
        /\ pc # "counted" => fat1 = fat2
        /\ pc \notin {"barrier", "flush"} => Clean

\* What the device has as an entry is in the same place in the cache.
InPlace == \A n \in Names : Present(entryd, n) =>
              Present(entry, n) /\ entry[n].home = entryd[n].home

-----------------------------------------------------------------------------
(* Clusters, entries and counts. *)

\* The marks of a FAT entry are no clusters, and the root is one.
LEMMA Constants ==
    /\ FREE \notin Clusters /\ EOC \notin Clusters /\ Empty \notin Clusters
    /\ FREE # EOC /\ Root \in Clusters /\ Last \in Clusters /\ First \in Clusters
    /\ \A c \in Clusters : c \in Nat /\ Following(c) \in Clusters
    /\ NClusters - 1 \in 0 .. NClusters /\ 0 \in 0 .. NClusters
    /\ NClusters \in Nat /\ First + 1 \in Clusters /\ NClusters - 1 \in Nat
BY Fat32Assumption DEF Clusters, First, Last, FREE, EOC, Empty, Root, Following

\* A set of clusters is finite and has at most NClusters members.
LEMMA ClustersFinite ==
    ASSUME NEW S \in SUBSET Clusters
    PROVE  IsFiniteSet(S) /\ Cardinality(S) \in Nat /\ Cardinality(S) <= NClusters
<1>1. First \in Int /\ Last \in Int /\ Last - First + 1 = NClusters /\ Last >= First
  BY Fat32Assumption DEF First, Last
<1>2. IsFiniteSet(Clusters) /\ Cardinality(Clusters) = NClusters
  BY <1>1, FS_Interval DEF Clusters
<1>3. IsFiniteSet(S) /\ Cardinality(S) <= Cardinality(Clusters)
  BY <1>2, FS_Subset
<1>4. Cardinality(S) \in Nat
  BY <1>3, FS_CardinalityType
<1> QED BY <1>2, <1>3, <1>4, Fat32Assumption

Fats == [Clusters -> {FREE, EOC} \cup Clusters]
Directories == [Names -> Entries]

\* The number of free clusters changes by one when one is taken or freed.
LEMMA FreeTaken ==
    ASSUME NEW f \in Fats, NEW c \in Clusters, f[c] = FREE,
           NEW v \in {EOC} \cup Clusters
    PROVE  /\ Cardinality(FreeIn(f)) > 0
           /\ Cardinality(FreeIn([f EXCEPT ![c] = v])) = Cardinality(FreeIn(f)) - 1
<1> DEFINE g == [f EXCEPT ![c] = v]
<1>1. FreeIn(g) = FreeIn(f) \ {c} /\ c \in FreeIn(f)
  BY Constants DEF FreeIn, Fats
<1>2. FreeIn(f) \in SUBSET Clusters /\ FreeIn(g) \in SUBSET Clusters
  BY DEF FreeIn
<1>3. IsFiniteSet(FreeIn(f)) /\ Cardinality(FreeIn(f)) \in Nat /\ Cardinality(FreeIn(g)) \in Nat
  BY <1>2, ClustersFinite
<1>4. Cardinality(FreeIn(g)) = Cardinality(FreeIn(f)) - 1
  BY <1>1, <1>3, FS_RemoveElement
<1> QED BY <1>3, <1>4

\* Freeing a cluster in use adds one to the number of free ones.
LEMMA FreeGiven ==
    ASSUME NEW f \in Fats, NEW c \in Clusters, f[c] # FREE
    PROVE  /\ Cardinality(FreeIn(f)) < NClusters
           /\ Cardinality(FreeIn([f EXCEPT ![c] = FREE])) = Cardinality(FreeIn(f)) + 1
<1> DEFINE g == [f EXCEPT ![c] = FREE]
<1>1. FreeIn(g) = FreeIn(f) \cup {c} /\ c \notin FreeIn(f)
  BY Constants DEF FreeIn, Fats
<1>2. FreeIn(f) \in SUBSET Clusters /\ FreeIn(g) \in SUBSET Clusters
  BY DEF FreeIn
<1>3. /\ IsFiniteSet(FreeIn(f)) /\ Cardinality(FreeIn(f)) \in Nat
      /\ Cardinality(FreeIn(g)) \in Nat /\ Cardinality(FreeIn(g)) <= NClusters
  BY <1>2, ClustersFinite
<1>4. Cardinality(FreeIn(g)) = Cardinality(FreeIn(f)) + 1
  BY <1>1, <1>3, FS_AddElement
<1> QED BY <1>3, <1>4, Constants

\* Changing what follows a cluster in use frees none and takes none.
LEMMA FreeSame ==
    ASSUME NEW f \in Fats, NEW c \in Clusters, f[c] # FREE,
           NEW v \in {EOC} \cup Clusters
    PROVE  FreeIn([f EXCEPT ![c] = v]) = FreeIn(f)
BY Constants DEF FreeIn, Fats

\* An entry that is present has a home and a first cluster or none.
LEMMA EntryOf ==
    ASSUME NEW e \in Directories, NEW n \in Names, Present(e, n)
    PROVE  /\ e[n] \in [home : Clusters, start : {Empty} \cup Clusters]
           /\ e[n].start \in {Empty} \cup Clusters
BY DEF Directories, Entries, Present

\* An entry with a home is not the absent one.
LEMMA EntryIsPresent ==
    ASSUME NEW h \in Clusters, NEW s \in {Empty} \cup Clusters
    PROVE  /\ [home |-> h, start |-> s] \in Entries
           /\ [home |-> h, start |-> s] # NoEntry
BY NoEntryAssumption DEF Entries

\* Giving an entry another first cluster leaves it present.
LEMMA EntryStarted ==
    ASSUME NEW e \in Directories, NEW n \in Names, Present(e, n),
           NEW s \in {Empty} \cup Clusters
    PROVE  /\ WithStart(e, n, s) \in Directories
           /\ Present(WithStart(e, n, s), n) /\ WithStart(e, n, s)[n].start = s
           /\ \A m \in Names \ {n} : WithStart(e, n, s)[m] = e[m]
<1>1. e[n] \in [home : Clusters, start : {Empty} \cup Clusters]
  BY EntryOf
<1>2. PICK h \in Clusters, t \in {Empty} \cup Clusters : e[n] = [home |-> h, start |-> t]
  BY <1>1
<1>3. [e[n] EXCEPT !.start = s] = [home |-> h, start |-> s]
  BY <1>2
<1>4. WithStart(e, n, s) = [m \in Names |-> IF m = n THEN [home |-> h, start |-> s] ELSE e[m]]
  BY <1>3 DEF Directories, WithStart
<1> QED BY <1>4, EntryIsPresent DEF Directories, Present

-----------------------------------------------------------------------------
(* Types. *)

Typed ==
    /\ fat1 \in Fats /\ fat2 \in Fats /\ fat1d \in Fats /\ fat2d \in Fats
    /\ entry \in Directories /\ entryd \in Directories
    /\ info \in [free : 0 .. NClusters, next : Clusters]
    /\ stale \subseteq Clusters /\ zeroing \subseteq Clusters
    /\ freeCount \in 0 .. NClusters /\ nextFree \in Clusters
    /\ pc \in Steps /\ ret \in Steps
    /\ cur \in Clusters /\ new \in Clusters /\ start \in {Empty} \cup Clusters
    /\ left \in 0 .. MaxIndex /\ freed \in 0 .. NClusters
    /\ owned \in [Names -> SUBSET Clusters]
    /\ erred \in BOOLEAN

\* The type invariant, function by function.
LEMMA Types == Typed <=> TypeOK
BY DEF Typed, TypeOK, Fats, Directories

\* The freeing loop still has a cluster to count.
Spare == pc = "free" => freeCount + freed < NClusters

\* fat32_write_fat keeps both copies of the FAT.
LEMMA WriteTyped ==
    ASSUME fat1 \in Fats, fat2 \in Fats, NEW c \in Clusters,
           NEW v \in {FREE, EOC} \cup Clusters, WriteFat(c, v)
    PROVE  fat1' \in Fats /\ fat2' \in Fats
BY DEF WriteFat, Fats

\* Write-back keeps what the device holds.
LEMMA PersistTyped ==
    ASSUME Typed, Persist
    PROVE  Typed'
<1>1. /\ fat1d' \in Fats /\ fat2d' \in Fats /\ entryd' \in Directories
      /\ zeroing' \subseteq Clusters
  <2>1. ASSUME NEW k \in 0 .. Last, PersistFat1(k) \/ PersistFat2(k)
        PROVE  fat1d' \in Fats /\ fat2d' \in Fats /\ entryd' = entryd /\ zeroing' = zeroing
    BY <2>1 DEF PersistFat1, PersistFat2, Fats, Typed
  <2>2. ASSUME NEW n \in Names, PersistEntry(n)
        PROVE  fat1d' = fat1d /\ fat2d' = fat2d /\ entryd' \in Directories /\ zeroing' = zeroing
    BY <2>2 DEF PersistEntry, Directories, Typed
  <2>3. ASSUME NEW c \in Clusters, PersistZero(c)
        PROVE  /\ fat1d' = fat1d /\ fat2d' = fat2d /\ entryd' = entryd
               /\ zeroing' \subseteq Clusters
    BY <2>3 DEF PersistZero, Typed
  <2> QED BY <2>1, <2>2, <2>3 DEF Persist, Typed
<1> QED BY <1>1 DEF Persist, Typed, cached, counts, locals

\* The check at boot counts no more clusters than there are.
LEMMA FreeBounded == Cardinality(FreeIn(fat1)) \in 0 .. NClusters
<1>1. FreeIn(fat1) \in SUBSET Clusters
  BY DEF FreeIn
<1> QED BY <1>1, ClustersFinite, Constants

\* Every step keeps the types, if the freeing loop has a cluster left to count.
LEMMA StepTyped ==
    ASSUME Typed, Orderly, Spare, Next
    PROVE  Typed'
<1> USE DEF Typed, cached, device, content, counts, locals, Call, Goto, Steps, Control, Orderly
<1>1. CASE Persist
  BY <1>1, PersistTyped
<1>2. CASE Barrier
  BY <1>2 DEF Barrier
<1>3. CASE Flush
  BY <1>3 DEF Flush
<1>4. ASSUME NEW c \in Clusters, AllocAt(c), erred' \in BOOLEAN
      PROVE  Typed'
  BY <1>4, Constants, WriteTyped DEF AllocAt, Take
<1>5. CASE AllocNoSpace
  BY <1>5 DEF AllocNoSpace
<1>6. ASSUME NEW v, FreeRound(v), erred' \in BOOLEAN
      PROVE  Typed'
  BY <1>6, Constants, WriteTyped DEF FreeRound, Spare, IsCluster
<1>7. CASE WriteEntry
  <2>1. /\ op.name \in Names
        /\ [home |-> cur, start |-> start] \in Entries
    BY <1>7, EntryIsPresent DEF WriteEntry, Named, Scanning, Point
  <2>2. entry' \in Directories
    BY <1>7, <2>1 DEF WriteEntry, Directories
  <2>3. owned' \in [Names -> SUBSET Clusters]
    <3>1. CASE op.kind = "rename"
      BY <1>7, <2>1, <3>1 DEF WriteEntry
    <3>2. CASE op.kind # "rename"
      <4>1. start \in Clusters
        BY <1>7, <3>2 DEF WriteEntry, Named, Called, Scanning, Point
      <4> QED BY <1>7, <3>2, <4>1 DEF WriteEntry
    <3> QED BY <3>1, <3>2
  <2> QED BY <1>7, <2>2, <2>3 DEF WriteEntry
<1>8. ASSUME NEW v, ScanOn(v), erred' \in BOOLEAN
      PROVE  Typed'
  BY <1>8 DEF ScanOn, IsCluster
<1>9. CASE LinkDir
  BY <1>9, WriteTyped DEF LinkDir, Zero
<1>10. CASE MarkDeleted
  BY <1>10 DEF MarkDeleted, Directories, Entries
<1>11. ASSUME NEW n \in Names, erred' \in BOOLEAN,
              NewFile(n) \/ Delete(n) \/ Truncate(n)
              \/ (\E i \in 0 .. MaxIndex : Write(n, i)) \/ \E m \in Names : NewName(n, m)
       PROVE  Typed'
  BY <1>11, EntryOf, Constants DEF NewFile, Delete, Truncate, Write, NewName, Begin
<1>12. CASE ZeroFirst
  BY <1>12 DEF ZeroFirst, Zero
<1>13. ASSUME NEW v, WalkOn(v), erred' \in BOOLEAN
       PROVE  Typed'
  BY <1>13, Fat32Assumption DEF WalkOn, IsCluster
<1>14. CASE Link
  <2>1. left' \in 0 .. MaxIndex
    BY <1>14, Fat32Assumption DEF Link, For, Point
  <2>2. owned' \in [Names -> SUBSET Clusters]
    BY <1>14 DEF Link
  <2> QED BY <1>14, <2>1, <2>2, WriteTyped DEF Link, Zero
<1>15. CASE SyncEntry
  <2>1. op.name \in Names /\ Present(entry, op.name) /\ start \in Clusters
    BY <1>15 DEF SyncEntry, Named, Walking, For, Point
  <2>2. [home |-> entry[op.name].home, start |-> start] \in Entries /\ NoEntry \in Entries
    BY <2>1, EntryOf, EntryIsPresent DEF Entries
  <2>3. entry' \in Directories
    BY <1>15, <2>2 DEF SyncEntry, Directories
  <2>4. owned' \in [Names -> SUBSET Clusters]
    BY <1>15, <2>1 DEF SyncEntry
  <2> QED BY <1>15, <2>3, <2>4 DEF SyncEntry
<1>16. CASE FreeOld
  BY <1>16 DEF FreeOld
<1>17. CASE Replace
  <2>1. op.name \in Names /\ Present(entry, op.name)
    BY <1>17 DEF Replace, Named, Detached, Point
  <2>2. entry' \in Directories
    <3>1. entry' = WithStart(entry, op.name, new)
      BY <1>17 DEF Replace, WithStart
    <3> QED BY <2>1, <3>1, EntryStarted
  <2> QED BY <1>17, <2>1, <2>2 DEF Replace, Zero
<1>18. CASE Sync
  BY <1>18 DEF Sync, Begin
<1>23. ASSUME NEW n \in 0 .. NClusters, Recounted(n), erred' \in BOOLEAN
       PROVE  Typed'
  BY <1>23 DEF Recounted
<1>19. CASE IOError
  <2>1. erred' = TRUE
    BY <1>19 DEF IOError
  <2>2. CASE Abort /\ UNCHANGED device
    BY <2>1, <2>2, Constants DEF Abort
  <2>3. CASE HalfWrite /\ UNCHANGED device
    <3>1. fat1' \in Fats
      BY <2>3, Constants DEF HalfWrite, Fats
    <3>2. stale' \subseteq Clusters /\ zeroing' \subseteq Clusters
      BY <2>3 DEF HalfWrite, Zero
    <3>3. owned' \in [Names -> SUBSET Clusters]
      BY <2>3 DEF HalfWrite
    <3> QED BY <2>1, <2>3, <3>1, <3>2, <3>3, Constants DEF HalfWrite
  <2>4. CASE BadRead
    BY <2>1, <2>4, <1>4, <1>6, <1>8, <1>13 DEF BadRead
  <2>5. CASE Overlooked
    BY <2>1, <2>5, <1>11 DEF Overlooked
  <2>6. CASE Miscount
    <3>1. PICK n \in 0 .. Cardinality(FreeIn(fat1)) : Recounted(n)
      BY <2>6 DEF Miscount
    <3>2. n \in 0 .. NClusters /\ erred' \in BOOLEAN
      BY <2>1, FreeBounded, Constants
    <3> QED BY <1>23, <3>1, <3>2
  <2> QED BY <1>19, <2>2, <2>3, <2>4, <2>5, <2>6 DEF IOError
<1>20. CASE Crash
  BY <1>20, Constants, Fat32Assumption DEF Crash
<1>21. CASE Mount
  BY <1>21, Constants DEF Mount, IsCluster
<1>22. CASE Fsck
  BY <1>22 DEF Fsck
<1>24. ASSUME NEW k, Mirror(k)
       PROVE  Typed'
  BY <1>24 DEF Mirror, Fats
<1>25. CASE Recount
  BY <1>25, <1>23, FreeBounded DEF Recount
<1> QED
  BY <1>1, <1>2, <1>3, <1>4, <1>5, <1>6, <1>7, <1>8, <1>9, <1>10, <1>11, <1>12, <1>13,
     <1>14, <1>15, <1>16, <1>17, <1>18, <1>19, <1>20, <1>21, <1>22, <1>24, <1>25
  DEF Next, Alloc, FreeNext, ScanNext, WalkNext, Create, NewFile, Rename, Delete, Truncate, Write

-----------------------------------------------------------------------------
(* Every step is one of the operation under way. *)

\* Every step belongs to the operation under way, and a call returns to it.
LEMMA StepOrderly ==
    ASSUME Typed, Orderly, Next
    PROVE  Orderly'
<1> USE DEF Orderly, Control, Called, Named, Scanning, Walking, Detached, For, Point,
            cached, device, content, counts, locals, Call, Goto
<1>1. CASE Persist
  BY <1>1 DEF Persist
<1>2. CASE Barrier
  BY <1>2 DEF Barrier
<1>3. CASE Flush
  BY <1>3 DEF Flush
<1>4. ASSUME NEW c \in Clusters, AllocAt(c)
      PROVE  Orderly'
  BY <1>4 DEF AllocAt
<1>5. CASE AllocNoSpace
  BY <1>5 DEF AllocNoSpace
<1>6. ASSUME NEW v, FreeRound(v)
      PROVE  Orderly'
  BY <1>6 DEF FreeRound
<1>7. CASE WriteEntry
  <2>1. /\ op.name \in Names /\ entry \in Directories
        /\ [home |-> cur, start |-> start] # NoEntry
    BY <1>7, EntryIsPresent DEF WriteEntry, Typed
  <2>2. CASE op.kind = "rename"
    BY <1>7, <2>1, <2>2 DEF WriteEntry, Present, Directories
  <2>3. CASE op.kind # "rename"
    BY <1>7, <2>1, <2>3 DEF WriteEntry
  <2> QED BY <2>2, <2>3
<1>8. ASSUME NEW v, ScanOn(v)
      PROVE  Orderly'
  BY <1>8 DEF ScanOn
<1>9. CASE LinkDir
  BY <1>9 DEF LinkDir
<1>10. CASE MarkDeleted
  BY <1>10 DEF MarkDeleted
<1>11. ASSUME NEW n \in Names,
              NewFile(n) \/ Delete(n) \/ Truncate(n)
              \/ (\E i \in 0 .. MaxIndex : Write(n, i)) \/ \E m \in Names : NewName(n, m)
       PROVE  Orderly'
  BY <1>11, EntryOf, Constants DEF NewFile, Delete, Truncate, Write, NewName, Begin, Typed
<1>12. CASE ZeroFirst
  BY <1>12 DEF ZeroFirst, Typed
<1>13. ASSUME NEW v, WalkOn(v)
       PROVE  Orderly'
  BY <1>13 DEF WalkOn
<1>14. CASE Link
  BY <1>14 DEF Link
<1>15. CASE SyncEntry
  BY <1>15 DEF SyncEntry
<1>16. CASE FreeOld
  BY <1>16 DEF FreeOld, Typed
<1>17. CASE Replace
  BY <1>17 DEF Replace
<1>18. CASE Sync
  BY <1>18 DEF Sync, Begin
<1>23. ASSUME NEW n, Recounted(n)
       PROVE  Orderly'
  BY <1>23 DEF Recounted
<1>24. ASSUME NEW k, Mirror(k)
       PROVE  Orderly'
  BY <1>24 DEF Mirror
<1>19. CASE IOError
  <2>1. CASE Abort
    BY <2>1 DEF Abort
  <2>2. CASE HalfWrite
    BY <2>2 DEF HalfWrite
  <2>3. CASE BadRead
    BY <2>3, <1>4, <1>6, <1>8, <1>13 DEF BadRead
  <2>4. CASE Overlooked
    BY <2>4, <1>11 DEF Overlooked
  <2>5. CASE Miscount
    BY <2>5, <1>23 DEF Miscount
  <2> QED BY <1>19, <2>1, <2>2, <2>3, <2>4, <2>5 DEF IOError
<1>20. CASE Crash
  BY <1>20 DEF Crash
<1>21. CASE Mount
  BY <1>21 DEF Mount
<1>22. CASE Fsck
  BY <1>22 DEF Fsck
<1> QED
  BY <1>1, <1>2, <1>3, <1>4, <1>5, <1>6, <1>7, <1>8, <1>9, <1>10, <1>11, <1>12, <1>13,
     <1>14, <1>15, <1>16, <1>17, <1>18, <1>19, <1>20, <1>21, <1>22, <1>23, <1>24
  DEF Next, Alloc, FreeNext, ScanNext, WalkNext, Create, NewFile, Rename, Recount

\* While nothing fails, the entry that a write finds on the device is its own.
LEMMA SyncShape ==
    ASSUME Typed, Orderly, Stored, SyncEntry
    PROVE  /\ entry' = WithStart(entry, op.name, start)
           /\ owned' = [owned EXCEPT ![op.name] = @ \cup {start}]
<1>1. /\ op.name \in Names /\ Present(entry, op.name) /\ start \in Clusters /\ entryd = entry
      /\ entry \in Directories /\ owned \in [Names -> SUBSET Clusters]
  BY DEF SyncEntry, Orderly, Named, Control, Walking, For, Point, Stored, Clean, Typed
<1>2. InPlaceOf(op.name) = {op.name}
  BY <1>1 DEF InPlaceOf
<1>3. PICK h \in Clusters, t \in {Empty} \cup Clusters :
          entry[op.name] = [home |-> h, start |-> t]
  BY <1>1, EntryOf
<1>4. /\ entry' = [n \in Names |-> IF n = op.name THEN [home |-> h, start |-> start]
                                                  ELSE entry[n]]
      /\ owned' = [n \in Names |-> IF n = op.name THEN owned[op.name] \cup {start}
                                                  ELSE owned[n]]
  BY <1>2, <1>3 DEF SyncEntry
<1>5. [entry[op.name] EXCEPT !.start = start] = [home |-> h, start |-> start]
  BY <1>3
<1>6. WithStart(entry, op.name, start)
        = [n \in Names |-> IF n = op.name THEN [home |-> h, start |-> start] ELSE entry[n]]
  BY <1>1, <1>5 DEF WithStart, Directories
<1> QED BY <1>1, <1>4, <1>6

\* A formatted volume is typed, and no operation is under way.
LEMMA InitTyped == Init => Typed /\ Orderly
<1> SUFFICES ASSUME Init PROVE Typed /\ Orderly
  OBVIOUS
<1>1. fat1 \in Fats
  BY Constants DEF Init, Fats
<1>2. entry \in Directories
  BY Constants DEF Init, Directories, Entries
<1>3. FreeIn(fat1) \in SUBSET Clusters
  BY DEF FreeIn
<1>4. freeCount \in 0 .. NClusters
  BY <1>3, ClustersFinite, Constants DEF Init
<1>5. /\ nextFree \in Clusters /\ left \in 0 .. MaxIndex /\ freed \in 0 .. NClusters
      /\ info \in [free : 0 .. NClusters, next : Clusters]
      /\ owned \in [Names -> SUBSET Clusters]
  BY <1>4, Constants, Fat32Assumption DEF Init
<1>7. Typed
  BY <1>1, <1>2, <1>4, <1>5, Constants DEF Init, Typed, Steps
<1>6. Orderly
  BY DEF Init, Orderly, Control, Called, Named, Scanning, Walking, Detached, For, Point
<1> QED BY <1>6, <1>7

-----------------------------------------------------------------------------
(* What the changes of the FAT and of the directory do to a tidy volume. *)

\* What starts in e starts in d at the same cluster.
Fewer(e, d) ==
    \A n \in Names : Present(e, n) /\ e[n].start # Empty =>
        Present(d, n) /\ d[n].start = e[n].start

\* A directory with fewer chains is sound if the one with more is.
LEMMA SoundFewer ==
    ASSUME NEW f, NEW d, NEW e, Sound(f, d), Fewer(e, d)
    PROVE  Sound(f, e)
<1>1. \A n \in Started(e) : n \in Started(d) /\ d[n].start = e[n].start
  BY DEF Fewer, Started
<1> QED BY <1>1 DEF Sound

\* Only the first clusters of the entries matter.
LEMMA SameStarts ==
    ASSUME NEW f, NEW d, NEW e, Fewer(d, e), Fewer(e, d), NEW H
    PROVE  /\ Sound(f, d) <=> Sound(f, e)
           /\ \A c : Referenced(f, d, c) <=> Referenced(f, e, c)
           /\ Tidy(f, d, H) <=> Tidy(f, e, H)
           /\ Whole(f, d, H) <=> Whole(f, e, H)
<1>1. Started(d) = Started(e) /\ \A n \in Started(d) : d[n].start = e[n].start
  BY DEF Fewer, Started
<1>2. Sound(f, d) <=> Sound(f, e)
  BY <1>1 DEF Sound
<1>3. \A c : Referenced(f, d, c) <=> Referenced(f, e, c)
  BY <1>1 DEF Referenced
<1> QED BY <1>2, <1>3 DEF Tidy, Whole

\* Taking a free cluster: it is held, and nothing else changes.
LEMMA TidyTaken ==
    ASSUME NEW f \in Fats, NEW e, NEW H, Tidy(f, e, H),
           NEW c \in Clusters, f[c] = FREE,
           NEW g, g = [f EXCEPT ![c] = EOC]
    PROVE  /\ Tidy(g, e, H \cup {c})
           /\ Whole(f, e, H) => Whole(g, e, H \cup {c})
           /\ \A d \in Clusters : Referenced(g, e, d) <=> Referenced(f, e, d)
<1>1. /\ \A d \in Clusters : g[d] = IF d = c THEN EOC ELSE f[d]
      /\ c # Root
  BY DEF Fats, Tidy, Sound
<1>2. Linked(g) = Linked(f) /\ c \notin Linked(f)
  BY <1>1, Constants DEF Linked, IsCluster
<1>3. \A d \in Linked(f) : g[d] = f[d] /\ f[d] \in Clusters /\ d \in Clusters
  BY <1>1, <1>2 DEF Linked, IsCluster
<1>4. \A d : Referenced(g, e, d) <=> Referenced(f, e, d)
  BY <1>2, <1>3 DEF Referenced
<1>5. \A n \in Started(e) : g[e[n].start] # FREE
  <2> SUFFICES ASSUME NEW n \in Started(e) PROVE g[e[n].start] # FREE
    OBVIOUS
  <2>1. f[e[n].start] # FREE
    BY DEF Tidy, Sound
  <2>2. g[e[n].start] = IF e[n].start = c THEN EOC ELSE f[e[n].start]
    BY DEF Fats
  <2> QED BY <2>1, <2>2, Constants
<1>6. Sound(g, e)
  <2>1. g[Root] # FREE
    BY <1>1, Constants DEF Tidy, Sound
  <2>2. \A b \in Linked(g) : g[g[b]] # FREE /\ g[b] # Root
    BY <1>1, <1>2, <1>3, Constants DEF Tidy, Sound
  <2>3. \A a, b \in Linked(g) : g[a] = g[b] => a = b
    BY <1>2, <1>3 DEF Tidy, Sound
  <2>4. \A n \in Started(e), b \in Linked(g) : e[n].start # g[b]
    BY <1>2, <1>3 DEF Tidy, Sound
  <2> QED BY <1>5, <2>1, <2>2, <2>3, <2>4 DEF Tidy, Sound
<1>7. ~Referenced(f, e, c)
  BY DEF Referenced, Tidy, Sound
<1>8. ASSUME NEW d \in H \cup {c}
      PROVE  d \in Clusters /\ g[d] # FREE /\ ~Referenced(g, e, d)
  <2>1. CASE d = c
    <3>1. g[c] = EOC /\ ~Referenced(g, e, c)
      BY <1>1, <1>4, <1>7
    <3> QED BY <2>1, <3>1, Constants
  <2>2. CASE d \in H /\ d # c
    BY <2>2, <1>1, <1>4 DEF Tidy
  <2> QED BY <2>1, <2>2
<1>9. Whole(f, e, H) => Whole(g, e, H \cup {c})
  BY <1>1, <1>4 DEF Whole
<1> QED BY <1>4, <1>6, <1>8, <1>9 DEF Tidy

\* Linking a held cluster to the end of a chain: it is referred to.
LEMMA TidyLinked ==
    ASSUME NEW f \in Fats, NEW e, NEW H, Tidy(f, e, H),
           NEW c \in H, NEW d \in Clusters, f[d] = EOC,
           NEW g, g = [f EXCEPT ![d] = c]
    PROVE  /\ Tidy(g, e, H \ {c})
           /\ Whole(f, e, H) => Whole(g, e, H \ {c})
           /\ \A b \in Clusters : Referenced(g, e, b) <=> Referenced(f, e, b) \/ b = c
<1>1. /\ \A b \in Clusters : g[b] = IF b = d THEN c ELSE f[b]
      /\ c \in Clusters /\ f[c] # FREE /\ ~Referenced(f, e, c) /\ c # FREE
  BY Constants DEF Fats, Tidy
<1>2. Linked(g) = Linked(f) \cup {d} /\ d \notin Linked(f) /\ g[d] = c
  BY <1>1, Constants DEF Linked, IsCluster
<1>3. \A b \in Linked(f) : g[b] = f[b] /\ f[b] \in Clusters /\ f[b] # c
  BY <1>1, <1>2 DEF Linked, IsCluster, Referenced
<1>4. \A n \in Started(e) : e[n].start # c /\ g[e[n].start] # FREE
  <2> SUFFICES ASSUME NEW n \in Started(e) PROVE e[n].start # c /\ g[e[n].start] # FREE
    OBVIOUS
  <2>1. f[e[n].start] # FREE
    BY DEF Tidy, Sound
  <2>2. g[e[n].start] = IF e[n].start = d THEN c ELSE f[e[n].start]
    BY DEF Fats
  <2> QED BY <2>1, <2>2, <1>1 DEF Referenced
<1>5. \A b \in Clusters : Referenced(g, e, b) <=> Referenced(f, e, b) \/ b = c
  BY <1>2, <1>3 DEF Referenced
<1>6. \A b \in Clusters : g[b] # FREE <=> f[b] # FREE
  BY <1>1, Constants
<1>7. c # Root
  BY <1>1 DEF Referenced
<1>8. Sound(g, e)
  <2>1. g[Root] # FREE
    BY <1>6, Constants DEF Tidy, Sound
  <2>2. \A b \in Linked(g) : g[g[b]] # FREE /\ g[b] # Root
    BY <1>1, <1>2, <1>3, <1>6, <1>7 DEF Tidy, Sound
  <2>3. \A a, b \in Linked(g) : g[a] = g[b] => a = b
    BY <1>2, <1>3 DEF Tidy, Sound
  <2>4. \A n \in Started(e), b \in Linked(g) : e[n].start # g[b]
    BY <1>2, <1>3, <1>4 DEF Tidy, Sound
  <2>5. \A n \in Started(e) : g[e[n].start] # FREE /\ e[n].start # Root
    BY <1>4 DEF Tidy, Sound
  <2> QED BY <2>1, <2>2, <2>3, <2>4, <2>5 DEF Tidy, Sound
<1>9. \A b \in H \ {c} : b \in Clusters /\ g[b] # FREE /\ ~Referenced(g, e, b)
  BY <1>5, <1>6 DEF Tidy
<1>10. Whole(f, e, H) => Whole(g, e, H \ {c})
  BY <1>5, <1>6 DEF Whole
<1> QED BY <1>5, <1>8, <1>9, <1>10 DEF Tidy

\* Starting a file at a held cluster: it is referred to.
LEMMA TidyStarted ==
    ASSUME NEW f, NEW e, NEW H, Tidy(f, e, H),
           NEW c \in H, NEW n \in Names, ~Present(e, n) \/ e[n].start = Empty,
           NEW d, Present(d, n), d[n].start = c, \A m \in Names \ {n} : d[m] = e[m]
    PROVE  /\ Tidy(f, d, H \ {c})
           /\ Whole(f, e, H) => Whole(f, d, H \ {c})
           /\ \A b : Referenced(f, d, b) <=> Referenced(f, e, b) \/ b = c
<1>1. c \in Clusters /\ f[c] # FREE /\ ~Referenced(f, e, c) /\ c # Empty /\ c # Root
  BY Constants DEF Tidy, Referenced
<1>2. /\ Started(d) = Started(e) \cup {n} /\ n \notin Started(e)
      /\ \A m \in Started(e) : d[m].start = e[m].start /\ e[m].start # c
  BY <1>1 DEF Started, Present, Referenced
<1>3. \A b : Referenced(f, d, b) <=> Referenced(f, e, b) \/ b = c
  BY <1>2 DEF Referenced
<1>4. \A b \in Linked(f) : f[b] # c
  BY <1>1 DEF Referenced
<1>5. Sound(f, d)
  BY <1>1, <1>2, <1>4 DEF Tidy, Sound
<1> QED BY <1>3, <1>5 DEF Tidy, Whole

\* The first cluster of an entry.
StartOf(e, n) == IF n \in Started(e) THEN {e[n].start} ELSE {}

\* Removing an entry: its first cluster is held.
LEMMA TidyDetached ==
    ASSUME NEW f, NEW e \in Directories, NEW H, Tidy(f, e, H),
           NEW n \in Names
    PROVE  /\ Tidy(f, Without(e, n), H \cup StartOf(e, n))
           /\ Whole(f, e, H) => Whole(f, Without(e, n), H \cup StartOf(e, n))
           /\ \A b : Referenced(f, Without(e, n), b) <=>
                     Referenced(f, e, b) /\ b \notin StartOf(e, n)
<1> DEFINE d == Without(e, n)
           S == StartOf(e, n)
<1>1. /\ Started(d) = Started(e) \ {n}
      /\ \A m \in Started(d) : d[m].start = e[m].start
  BY DEF Directories, Started, Present, Without
<1>2. \A b \in S : /\ b \in Clusters /\ f[b] # FREE /\ b # Root
                   /\ \A m \in Started(d) : d[m].start # b
                   /\ \A c \in Linked(f) : f[c] # b
  BY <1>1, EntryOf DEF Tidy, Sound, Started, StartOf
<1>3. Sound(f, d)
  <2>1. Fewer(d, e)
    BY <1>1 DEF Fewer, Started
  <2> QED BY <2>1, SoundFewer DEF Tidy
<1>4. \A b : Referenced(f, d, b) <=> Referenced(f, e, b) /\ b \notin S
  BY <1>1, <1>2 DEF Referenced, StartOf
<1> QED BY <1>2, <1>3, <1>4 DEF Tidy, Whole

\* The cluster that a cluster is linked to.
After(f, c) == IF IsCluster(f[c]) THEN {f[c]} ELSE {}

\* Freeing a held cluster: the one it was linked to is held in its place.
LEMMA TidyFreed ==
    ASSUME NEW f \in Fats, NEW e, NEW H, Tidy(f, e, H),
           NEW c \in H, NEW g, g = [f EXCEPT ![c] = FREE],
           NEW S, S = After(f, c)
    PROVE  /\ Tidy(g, e, (H \ {c}) \cup S)
           /\ Whole(f, e, H) => Whole(g, e, (H \ {c}) \cup S)
           /\ \A b : Referenced(g, e, b) <=> Referenced(f, e, b) /\ b \notin S
           /\ c \notin S
<1>1. /\ \A b \in Clusters : g[b] = IF b = c THEN FREE ELSE f[b]
      /\ c \in Clusters /\ f[c] # FREE /\ ~Referenced(f, e, c) /\ c # Root
  BY DEF Fats, Tidy, Referenced
<1>2. /\ Linked(g) = Linked(f) \ {c}
      /\ \A b \in Linked(g) : g[b] = f[b] /\ f[b] \in Clusters /\ f[b] # c /\ b \in Clusters
  BY <1>1, Constants DEF Linked, IsCluster, Referenced
<1>3. c \notin S
  BY <1>1 DEF Linked, Referenced, After
<1>4. \A b \in S : /\ b \in Clusters /\ g[b] # FREE /\ b # Root
                   /\ \A m \in Started(e) : e[m].start # b
                   /\ \A a \in Linked(g) : g[a] # b
  BY <1>1, <1>2, <1>3 DEF Tidy, Sound, Linked, IsCluster, After
<1>5. \A b : Referenced(g, e, b) <=> Referenced(f, e, b) /\ b \notin S
  <2>1. \A b \in S : ~Referenced(g, e, b)
    BY <1>4 DEF Referenced
  <2>2. \A b : b \notin S /\ Referenced(f, e, b) => Referenced(g, e, b)
    BY <1>2 DEF Referenced, Linked, After
  <2>3. \A b : Referenced(g, e, b) => Referenced(f, e, b)
    BY <1>2 DEF Referenced
  <2> QED BY <2>1, <2>2, <2>3
<1>6. \A m \in Started(e) : g[e[m].start] # FREE
  <2> SUFFICES ASSUME NEW m \in Started(e) PROVE g[e[m].start] # FREE
    OBVIOUS
  <2>1. f[e[m].start] # FREE /\ e[m].start # c
    BY <1>1 DEF Tidy, Sound, Referenced
  <2> QED BY <2>1 DEF Fats
<1>7. Sound(g, e)
  <2>1. g[Root] # FREE
    BY <1>1, Constants DEF Tidy, Sound
  <2>2. ASSUME NEW b \in Linked(g)
        PROVE  g[g[b]] # FREE /\ g[b] # Root
    <3>1. b \in Linked(f) /\ g[b] = f[b] /\ f[b] \in Clusters /\ f[b] # c
      BY <1>2
    <3>2. f[f[b]] # FREE /\ f[b] # Root
      BY <3>1 DEF Tidy, Sound
    <3> QED BY <1>1, <3>1, <3>2
  <2>3. \A a, b \in Linked(g) : g[a] = g[b] => a = b
    <3>1. \A a, b \in Linked(f) : f[a] = f[b] => a = b
      BY DEF Tidy, Sound
    <3> QED BY <3>1, <1>2
  <2>4. \A n \in Started(e), b \in Linked(g) : e[n].start # g[b]
    <3>1. \A n \in Started(e), b \in Linked(f) : e[n].start # f[b]
      BY DEF Tidy, Sound
    <3> QED BY <3>1, <1>2
  <2>5. \A n \in Started(e) : e[n].start # Root
    BY DEF Tidy, Sound
  <2>6. \A m, n \in Started(e) : e[m].start = e[n].start => m = n
    BY DEF Tidy, Sound
  <2> QED BY <1>6, <2>1, <2>2, <2>3, <2>4, <2>5, <2>6 DEF Sound
<1>8. \A b \in (H \ {c}) \cup S : b \in Clusters /\ g[b] # FREE /\ ~Referenced(g, e, b)
  BY <1>1, <1>4, <1>5 DEF Tidy
<1>9. Whole(f, e, H) => Whole(g, e, (H \ {c}) \cup S)
  BY <1>1, <1>5 DEF Whole
<1> QED BY <1>3, <1>5, <1>7, <1>8, <1>9 DEF Tidy

-----------------------------------------------------------------------------
(* What each step does to the view and to the clusters held. *)

\* The view is a directory.
LEMMA ViewTyped ==
    ASSUME Typed, Orderly
    PROVE  View \in Directories
<1>1. CASE Detached
  BY <1>1 DEF View, Without, Typed, Directories, Entries
<1>2. CASE ~Detached /\ Walking
  <2>1. op.name \in Names /\ Present(entry, op.name) /\ start \in Clusters
    BY <1>2 DEF Orderly, Named, Control
  <2> QED BY <1>2, <2>1, EntryStarted DEF View, Typed
<1>3. CASE ~Detached /\ ~Walking
  BY <1>3 DEF View, Typed
<1> QED BY <1>1, <1>2, <1>3

\* Setting the first cluster an entry has changes nothing.
LEMMA EntrySame ==
    ASSUME NEW e \in Directories, NEW n \in Names, Present(e, n)
    PROVE  WithStart(e, n, e[n].start) = e
<1>1. e[n] \in [home : Clusters, start : {Empty} \cup Clusters]
  BY EntryOf
<1>2. PICK h \in Clusters, t \in {Empty} \cup Clusters : e[n] = [home |-> h, start |-> t]
  BY <1>1
<1>3. [e[n] EXCEPT !.start = e[n].start] = e[n]
  BY <1>2
<1> QED BY <1>3 DEF Directories, WithStart

\* The step changes neither the FAT nor the view.
Still == fat1' = fat1 /\ View' = View /\ Held' = Held

\* What is written back, waited for or walked.
LEMMA WaitsAreStill ==
    ASSUME Typed, Orderly,
           Persist \/ Barrier \/ Flush \/ ScanNext \/ WalkNext \/ Sync
    PROVE  Still
<1> USE DEF Still, View, Held, Fresh, Begun, Scanning, Walking, Detached, For, Point,
            cached, device, content, counts, locals, Call, Goto, Orderly
<1>1. CASE Persist
  BY <1>1 DEF Persist
<1>2. CASE Barrier
  BY <1>2 DEF Barrier, Control
<1>3. CASE Flush
  BY <1>3 DEF Flush, Control
<1>4. CASE ScanNext
  BY <1>4 DEF ScanNext, ScanOn
<1>5. CASE WalkNext
  BY <1>5 DEF WalkNext, WalkOn
<1>6. CASE Sync
  BY <1>6 DEF Sync, Begin
<1> QED BY <1>1, <1>2, <1>3, <1>4, <1>5, <1>6

\* The beginning of every operation but a deletion.
LEMMA BeginningsAreStill ==
    ASSUME Typed, Orderly, NEW n \in Names,
           Create(n) \/ Truncate(n)
           \/ (\E i \in 0 .. MaxIndex : Write(n, i)) \/ \E m \in Names : Rename(n, m)
    PROVE  Still
<1> USE DEF Still, View, Held, Fresh, Begun, Scanning, Walking, Detached, For, Point,
            cached, device, content, counts, locals, Call, Goto, Orderly, Begin
<1>1. CASE Create(n)
  BY <1>1 DEF Create, NewFile
<1>2. CASE Truncate(n)
  BY <1>2 DEF Truncate
<1>3. ASSUME NEW i \in 0 .. MaxIndex, Write(n, i)
      PROVE  Still
  BY <1>3, EntrySame DEF Write, Typed
<1>4. ASSUME NEW m \in Names, Rename(n, m)
      PROVE  Still
  BY <1>4 DEF Rename, NewName
<1> QED BY <1>1, <1>2, <1>3, <1>4

\* The end of a deletion, a renaming or a write: the entry becomes what the
\* view shows.
LEMMA EndsAreStill ==
    ASSUME Typed, Orderly, Stored, MarkDeleted \/ SyncEntry
    PROVE  Still
<1> USE DEF Still, View, Held, Fresh, Begun, Scanning, Walking, Detached, For, Point,
            cached, device, content, counts, locals, Call, Goto, Orderly, Without, WithStart
<1>1. CASE MarkDeleted
  BY <1>1 DEF MarkDeleted
<1>2. CASE SyncEntry
  <2>1. entry' = [entry EXCEPT ![op.name].start = start]
    BY <1>2, SyncShape
  <2> QED BY <1>2, <2>1 DEF SyncEntry
<1> QED BY <1>1, <1>2

\* fat32_alloc_cluster holds the cluster it takes.
LEMMA TakenShape ==
    ASSUME Typed, Orderly, VolumeTidy, NEW c \in Clusters, AllocAt(c)
    PROVE  /\ View' = View /\ Held' = Held \cup {c} /\ new' = c /\ Fresh' /\ ~Fresh
           /\ fat1[c] = FREE /\ fat1' = [fat1 EXCEPT ![c] = EOC]
           /\ Tidy(fat1', View', Held')
           /\ Whole(fat1, View, Held) => Whole(fat1', View', Held')
           /\ \A d \in Clusters : Referenced(fat1', View', d) <=> Referenced(fat1, View, d)
           /\ ~Referenced(fat1, View, c) /\ c \notin Held
<1>1. /\ View' = View /\ Held' = Held \cup {c} /\ new' = c /\ Fresh' /\ ~Fresh
  BY DEF AllocAt, Take, View, Held, Fresh, Begun, Scanning, Walking, Detached, For, Point,
         Orderly, Control
<1>2. fat1[c] = FREE /\ fat1' = [fat1 EXCEPT ![c] = EOC] /\ fat1 \in Fats
  BY DEF AllocAt, Take, WriteFat, FreeIn, Typed
<1>3. /\ Tidy(fat1', View, Held \cup {c})
      /\ Whole(fat1, View, Held) => Whole(fat1', View, Held \cup {c})
      /\ \A d \in Clusters : Referenced(fat1', View, d) <=> Referenced(fat1, View, d)
  BY <1>2, TidyTaken DEF VolumeTidy
<1>4. ~Referenced(fat1, View, c)
  BY <1>3 DEF Tidy
<1>5. c \notin Held
  BY <1>2 DEF VolumeTidy, Tidy
<1> QED BY <1>1, <1>2, <1>3, <1>4, <1>5

\* The directory grows by the cluster held for it.
LEMMA LinkDirShape ==
    ASSUME Typed, Orderly, VolumeTidy, Ends, fat1[cur] = EOC, LinkDir
    PROVE  /\ View' = View /\ Held' = Held \ {new} /\ new \in Held
           /\ fat1' = [fat1 EXCEPT ![cur] = new]
           /\ Tidy(fat1', View', Held')
           /\ Whole(fat1, View, Held) => Whole(fat1', View', Held')
           /\ \A b \in Clusters : Referenced(fat1', View', b) <=> Referenced(fat1, View, b) \/ b = new
<1>1. /\ View' = View /\ Held' = Held \ {new} /\ new \in Held
  BY DEF LinkDir, View, Held, Fresh, Begun, Scanning, Walking, Detached, For, Point, Ends,
         Call
<1>2. fat1' = [fat1 EXCEPT ![cur] = new] /\ fat1 \in Fats /\ cur \in Clusters
  BY DEF LinkDir, WriteFat, Typed
<1> QED BY <1>1, <1>2, TidyLinked DEF VolumeTidy

\* A file grows by the cluster held for it.
LEMMA LinkShape ==
    ASSUME Typed, Orderly, VolumeTidy, Ends, fat1[cur] = EOC, Link
    PROVE  /\ View' = View /\ Held' = Held \ {new} /\ new \in Held
           /\ fat1' = [fat1 EXCEPT ![cur] = new]
           /\ Tidy(fat1', View', Held')
           /\ Whole(fat1, View, Held) => Whole(fat1', View', Held')
           /\ \A b \in Clusters : Referenced(fat1', View', b) <=> Referenced(fat1, View, b) \/ b = new
<1>1. /\ View' = View /\ Held' = Held \ {new} /\ new \in Held
  BY DEF Link, View, Held, Fresh, Begun, Scanning, Walking, Detached, For, Point, Ends,
         Call
<1>2. fat1' = [fat1 EXCEPT ![cur] = new] /\ fat1 \in Fats /\ cur \in Clusters
  BY DEF Link, WriteFat, Typed
<1> QED BY <1>1, <1>2, TidyLinked DEF VolumeTidy

\* A round of fat32_free_chain moves what is held one cluster on.
LEMMA FreedShape ==
    ASSUME Typed, Orderly, VolumeTidy, Ends, FreeNext
    PROVE  LET S == After(fat1, cur) IN
           /\ View' = View /\ Held' = (Held \ {cur}) \cup S /\ cur \in Held
           /\ fat1' = [fat1 EXCEPT ![cur] = FREE] /\ fat1[cur] # FREE
           /\ Tidy(fat1', View', Held')
           /\ Whole(fat1, View, Held) => Whole(fat1', View', Held')
           /\ \A b : Referenced(fat1', View', b) <=> Referenced(fat1, View, b) /\ b \notin S
           /\ cur \notin S
<1> DEFINE S == After(fat1, cur)
<1>1. View' = View
  BY DEF FreeNext, FreeRound, View, Walking, Detached, For, Point, Orderly, Control
<1>2. Held' = (Held \ {cur}) \cup S /\ cur \in Held
  <2>1. pc = "free" /\ ret' = ret /\ new' = new /\ op' = op /\ ret \in {"mark", "replace"}
    BY DEF FreeNext, FreeRound, Orderly, Control
  <2>2. Held = (IF ret = "replace" THEN {new} ELSE {}) \cup {cur}
    BY <2>1 DEF Held, Fresh, Begun, Scanning, For, Point
  <2>3. ret = "replace" => cur # new
    BY <2>1 DEF Ends, Fresh, Point
  <2>4. CASE IsCluster(fat1[cur])
    <3>1. pc' = "free" /\ cur' = fat1[cur]
      BY <2>1, <2>4 DEF FreeNext, FreeRound
    <3>2. Held' = (IF ret = "replace" THEN {new} ELSE {}) \cup {fat1[cur]}
      BY <2>1, <3>1 DEF Held, Fresh, Begun, Scanning, For, Point
    <3> QED BY <2>2, <2>3, <2>4, <3>2 DEF After
  <2>5. CASE ~IsCluster(fat1[cur])
    <3>1. pc' = "barrier"
      BY <2>1, <2>5 DEF FreeNext, FreeRound
    <3>2. Held' = IF ret = "replace" THEN {new} ELSE {}
      BY <2>1, <3>1 DEF Held, Fresh, Begun, Scanning, For, Point
    <3> QED BY <2>2, <2>3, <2>5, <3>2 DEF After
  <2> QED BY <2>4, <2>5
<1>3. fat1' = [fat1 EXCEPT ![cur] = FREE] /\ fat1 \in Fats
  BY DEF FreeNext, FreeRound, WriteFat, Typed
<1>4. fat1[cur] # FREE
  BY <1>2 DEF VolumeTidy, Tidy
<1>6. /\ Tidy(fat1', View, (Held \ {cur}) \cup S)
      /\ Whole(fat1, View, Held) => Whole(fat1', View, (Held \ {cur}) \cup S)
      /\ \A b : Referenced(fat1', View, b) <=> Referenced(fat1, View, b) /\ b \notin S
      /\ cur \notin S
  <2>1. Tidy(fat1, View, Held) /\ cur \in Held
    BY <1>2 DEF VolumeTidy
  <2> QED BY <2>1, <1>3, TidyFreed
<1>7. /\ View' = View /\ Held' = (Held \ {cur}) \cup S /\ cur \in Held
      /\ fat1' = [fat1 EXCEPT ![cur] = FREE] /\ fat1[cur] # FREE
      /\ Tidy(fat1', View', Held')
      /\ Whole(fat1, View, Held) => Whole(fat1', View', Held')
      /\ \A b : Referenced(fat1', View', b) <=> Referenced(fat1, View, b) /\ b \notin S
      /\ cur \notin S
  BY <1>1, <1>2, <1>3, <1>4, <1>6
<1> QED BY <1>7

\* Giving up leaves clusters behind and refers to no more than before.
LEMMA NoSpaceShape ==
    ASSUME Typed, Orderly, VolumeTidy, AllocNoSpace
    PROVE  /\ View' = entry /\ entry' = entry /\ Held' = {} /\ fat1' = fat1 /\ erred' = TRUE
           /\ Tidy(fat1', View', Held')
           /\ \A c : Referenced(fat1', View', c) => Referenced(fat1, View, c)
<1>1. View' = entry /\ entry' = entry /\ Held' = {} /\ fat1' = fat1 /\ erred' = TRUE
  BY DEF AllocNoSpace, View, Held, Fresh, Begun, Scanning, Walking, Detached, For, Point, cached
<1>2. Fewer(entry, View)
  <2>1. ~Detached
    BY DEF Detached, Point, AllocNoSpace
  <2>2. CASE Walking
    <3>1. op.name \in Names /\ Present(entry, op.name) /\ start \in Clusters
          /\ entry[op.name].start \in {Empty, start} /\ entry \in Directories
      BY <2>2 DEF Orderly, Named, Control, Typed
    <3>2. View = WithStart(entry, op.name, start)
      BY <2>1, <2>2 DEF View
    <3>3. /\ Present(View, op.name) /\ View[op.name].start = start
          /\ \A m \in Names \ {op.name} : View[m] = entry[m]
      BY <3>1, <3>2, EntryStarted
    <3> QED BY <3>1, <3>3 DEF Fewer, Present
  <2>3. CASE ~Walking
    BY <2>1, <2>3 DEF View, Fewer
  <2> QED BY <2>2, <2>3
<1>3. Sound(fat1, entry)
  BY <1>2, SoundFewer DEF VolumeTidy, Tidy
<1>4. \A c : Referenced(fat1, entry, c) => Referenced(fat1, View, c)
  BY <1>2 DEF Referenced, Fewer, Started
<1> QED BY <1>1, <1>3, <1>4 DEF Tidy

\* A new entry refers to the cluster held for it.
LEMMA CreatedShape ==
    ASSUME Typed, Orderly, VolumeTidy, WriteEntry, op.kind = "create"
    PROVE  /\ View = entry /\ View' = entry' /\ Held = {start} /\ Held' = {} /\ fat1' = fat1
           /\ op.name \in Names /\ start \in Clusters /\ ~Present(entry, op.name)
           /\ Present(entry', op.name) /\ entry'[op.name].start = start
           /\ \A m \in Names \ {op.name} : entry'[m] = entry[m]
           /\ Tidy(fat1', View', Held')
           /\ Whole(fat1, View, Held) => Whole(fat1', View', Held')
           /\ \A b : Referenced(fat1', View', b) <=> Referenced(fat1, View, b) \/ b = start
<1>1. /\ View = entry /\ View' = entry' /\ Held = {start} /\ Held' = {} /\ fat1' = fat1
  BY DEF WriteEntry, View, Held, Fresh, Begun, Scanning, Walking, Detached, For, Point, Call
<1>2. op.name \in Names /\ ~Present(entry, op.name) /\ start \in Clusters
  BY DEF WriteEntry, Orderly, Named, Scanning, Point
<1>3. /\ Present(entry', op.name) /\ entry'[op.name].start = start
      /\ \A m \in Names \ {op.name} : entry'[m] = entry[m]
  BY <1>2, EntryIsPresent DEF WriteEntry, Typed, Directories, Present
<1>4. start \in {start} /\ Tidy(fat1, entry, {start}) /\ {start} \ {start} = {}
  BY <1>1 DEF VolumeTidy
<1>5. /\ Tidy(fat1, entry', {start} \ {start})
      /\ Whole(fat1, entry, {start}) => Whole(fat1, entry', {start} \ {start})
      /\ \A b : Referenced(fat1, entry', b) <=> Referenced(fat1, entry, b) \/ b = start
  BY <1>2, <1>3, <1>4, TidyStarted
<1> QED BY <1>1, <1>2, <1>3, <1>4, <1>5

\* A renamed file leaves the view under one name and enters it under another.
LEMMA RenamedShape ==
    ASSUME Typed, Orderly, VolumeTidy, WriteEntry, op.kind = "rename"
    PROVE  /\ View = entry /\ View' = Without(entry', op.name)
           /\ Held = {} /\ Held' = {} /\ fat1' = fat1
           /\ op.name \in Names /\ op.to \in Names /\ op.to # op.name
           /\ Present(entry, op.name) /\ entry[op.name].start = start
           /\ ~Present(entry, op.to)
           /\ Present(View', op.to) /\ View'[op.to].start = start /\ ~Present(View', op.name)
           /\ entry'[op.to] = View'[op.to]
           /\ \A m \in Names \ {op.name, op.to} : View'[m] = entry[m] /\ entry'[m] = entry[m]
           /\ Tidy(fat1', View', Held')
           /\ Whole(fat1, View, Held) => Whole(fat1', View', Held')
           /\ \A b : Referenced(fat1', View', b) <=> Referenced(fat1, View, b)
<1>1. /\ View = entry /\ View' = Without(entry', op.name)
      /\ Held = {} /\ Held' = {} /\ fat1' = fat1
  BY DEF WriteEntry, View, Held, Fresh, Begun, Scanning, Walking, Detached, For, Point, Call
<1>2. /\ op.name \in Names /\ op.to \in Names /\ op.to # op.name
      /\ Present(entry, op.name) /\ entry[op.name].start = start /\ ~Present(entry, op.to)
      /\ entry \in Directories
  BY DEF WriteEntry, Orderly, Named, Scanning, Point, Typed
<1>3. /\ Present(View', op.to) /\ View'[op.to].start = start /\ ~Present(View', op.name)
      /\ entry'[op.to] = View'[op.to]
      /\ \A m \in Names \ {op.name, op.to} : View'[m] = entry[m] /\ entry'[m] = entry[m]
  BY <1>1, <1>2, EntryIsPresent DEF WriteEntry, Typed, Directories, Present, Without
<1> DEFINE d == Without(entry, op.name)
<1>4. \A m \in Names : d[m] = IF m = op.name THEN NoEntry ELSE entry[m]
  BY <1>2 DEF Directories, Without
<1>5. Tidy(fat1, entry, {})
  BY <1>1 DEF VolumeTidy
<1>6. /\ Tidy(fat1, d, {} \cup StartOf(entry, op.name))
      /\ Whole(fat1, entry, {}) => Whole(fat1, d, {} \cup StartOf(entry, op.name))
      /\ \A b : Referenced(fat1, d, b) <=>
                Referenced(fat1, entry, b) /\ b \notin StartOf(entry, op.name)
  BY <1>2, <1>5, TidyDetached
<1> HIDE DEF d
<1>7. CASE start = Empty
  <2>1. StartOf(entry, op.name) = {}
    BY <1>2, <1>7 DEF StartOf, Started
  <2>2. Fewer(d, View') /\ Fewer(View', d)
    BY <1>2, <1>3, <1>4, <1>7 DEF Fewer, Present
  <2> QED BY <1>1, <1>2, <1>3, <1>6, <2>1, <2>2, SameStarts
<1>8. CASE start # Empty
  <2>1. StartOf(entry, op.name) = {start} /\ Referenced(fat1, entry, start)
    BY <1>2, <1>8 DEF StartOf, Started, Referenced
  <2>2. /\ ~Present(d, op.to) /\ \A m \in Names \ {op.to} : View'[m] = d[m]
    BY <1>2, <1>3, <1>4 DEF Present
  <2>3. /\ Tidy(fat1, d, {start}) /\ start \in {start} /\ {start} \ {start} = {}
        /\ Whole(fat1, entry, {}) => Whole(fat1, d, {start})
    BY <1>6, <2>1
  <2>4. /\ Tidy(fat1, View', {start} \ {start})
        /\ Whole(fat1, d, {start}) => Whole(fat1, View', {start} \ {start})
        /\ \A b : Referenced(fat1, View', b) <=> Referenced(fat1, d, b) \/ b = start
    BY <1>2, <1>3, <2>2, <2>3, TidyStarted
  <2>5. \A b : Referenced(fat1, View', b) <=> Referenced(fat1, entry, b)
    BY <1>6, <2>1, <2>4
  <2> QED BY <1>1, <1>2, <1>3, <2>3, <2>4, <2>5
<1> QED BY <1>7, <1>8

\* A deletion removes the file from the view and holds its first cluster.
LEMMA DeleteShape ==
    ASSUME Typed, Orderly, VolumeTidy, NEW n \in Names, Delete(n)
    PROVE  /\ View = entry /\ View' = Without(entry, n)
           /\ Held = {} /\ Held' = StartOf(entry, n) /\ fat1' = fat1
           /\ Present(entry, n)
           /\ Tidy(fat1', View', Held')
           /\ Whole(fat1, View, Held) => Whole(fat1', View', Held')
           /\ \A b : Referenced(fat1', View', b) <=> Referenced(fat1, View, b) /\ b \notin Held'
<1>1. View = entry /\ Held = {} /\ fat1' = fat1 /\ Present(entry, n)
  BY DEF Delete, Begin, View, Held, Fresh, Begun, Scanning, Walking, Detached, For, Point, cached
<1>2. View' = Without(entry, n)
  BY DEF Delete, Begin, View, Detached, Point, cached, Goto, Without
<1>3. Held' = StartOf(entry, n)
  <2>1. CASE entry[n].start = Empty
    BY <2>1, <1>1 DEF Delete, Begin, Held, Fresh, Begun, Scanning, For, Point, Goto, StartOf, Started
  <2>2. CASE entry[n].start # Empty
    BY <2>2, <1>1 DEF Delete, Begin, Held, Fresh, Begun, Scanning, For, Point, Goto, StartOf, Started
  <2> QED BY <2>1, <2>2
<1>4. Tidy(fat1, entry, {}) /\ {} \cup StartOf(entry, n) = StartOf(entry, n)
      /\ entry \in Directories
  BY <1>1 DEF VolumeTidy, Typed
<1>5. /\ Tidy(fat1, View', {} \cup StartOf(entry, n))
      /\ Whole(fat1, entry, {}) => Whole(fat1, View', {} \cup StartOf(entry, n))
      /\ \A b : Referenced(fat1, View', b) <=> Referenced(fat1, entry, b) /\ b \notin StartOf(entry, n)
  BY <1>2, <1>4, TidyDetached
<1> QED BY <1>1, <1>2, <1>3, <1>4, <1>5

\* So does a truncation once it has its new cluster.
LEMMA FreeOldShape ==
    ASSUME Typed, Orderly, VolumeTidy, FreeOld
    PROVE  /\ View = entry /\ View' = Without(entry, op.name)
           /\ Held = {new} /\ Held' = {new} \cup StartOf(entry, op.name) /\ fat1' = fat1
           /\ op.name \in Names /\ Present(entry, op.name)
           /\ Tidy(fat1', View', Held')
           /\ Whole(fat1, View, Held) => Whole(fat1', View', Held')
           /\ \A b : Referenced(fat1', View', b) <=>
                     Referenced(fat1, View, b) /\ b \notin StartOf(entry, op.name)
<1>1. View = entry /\ Held = {new} /\ fat1' = fat1
  BY DEF FreeOld, View, Held, Fresh, Begun, Scanning, Walking, Detached, For, Point, cached
<1>2. op.name \in Names /\ Present(entry, op.name) /\ entry[op.name].start = start
  BY DEF FreeOld, Orderly, Named, For, Point
<1>3. View' = Without(entry, op.name)
  BY DEF FreeOld, View, Detached, Point, cached, Goto, Call
<1>4. Held' = {new} \cup StartOf(entry, op.name)
  <2>1. CASE start = Empty
    BY <2>1, <1>2 DEF FreeOld, Held, Fresh, Begun, Scanning, For, Point, Goto, Call, StartOf, Started
  <2>2. CASE start # Empty
    <3>1. /\ pc' = "free" /\ ret' = "replace" /\ cur' = start /\ new' = new
      BY <2>2 DEF FreeOld, Call
    <3>2. Held' = {new} \cup {start}
      BY <3>1 DEF Held, Fresh, Begun, Scanning, For, Point
    <3>3. StartOf(entry, op.name) = {start}
      BY <1>2, <2>2 DEF StartOf, Started
    <3> QED BY <3>2, <3>3
  <2> QED BY <2>1, <2>2
<1>5. Tidy(fat1, entry, {new}) /\ entry \in Directories
  BY <1>1 DEF VolumeTidy, Typed
<1>6. /\ Tidy(fat1, View', {new} \cup StartOf(entry, op.name))
      /\ Whole(fat1, entry, {new}) => Whole(fat1, View', {new} \cup StartOf(entry, op.name))
      /\ \A b : Referenced(fat1, View', b) <=>
                Referenced(fat1, entry, b) /\ b \notin StartOf(entry, op.name)
  BY <1>2, <1>3, <1>5, TidyDetached
<1> QED BY <1>1, <1>2, <1>3, <1>4, <1>6

\* The truncated file comes back with the cluster held for it.
LEMMA ReplaceShape ==
    ASSUME Typed, Orderly, VolumeTidy, Replace
    PROVE  /\ View = Without(entry, op.name) /\ View' = entry'
           /\ Held = {new} /\ Held' = {} /\ fat1' = fat1
           /\ op.name \in Names /\ Present(entry', op.name) /\ entry'[op.name].start = new
           /\ \A m \in Names \ {op.name} : entry'[m] = entry[m] /\ View[m] = entry[m]
           /\ Tidy(fat1', View', Held')
           /\ Whole(fat1, View, Held) => Whole(fat1', View', Held')
           /\ \A b : Referenced(fat1', View', b) <=> Referenced(fat1, View, b) \/ b = new
<1>1. /\ View = Without(entry, op.name) /\ View' = entry'
      /\ Held = {new} /\ Held' = {} /\ fat1' = fat1
  BY DEF Replace, View, Held, Fresh, Begun, Scanning, Walking, Detached, For, Point, Call
<1>2. op.name \in Names /\ Present(entry, op.name) /\ entry \in Directories /\ new \in Clusters
  BY DEF Replace, Orderly, Named, Detached, Point, Typed
<1>3. /\ Present(entry', op.name) /\ entry'[op.name].start = new
      /\ \A m \in Names \ {op.name} : entry'[m] = entry[m]
  <2>1. entry' = WithStart(entry, op.name, new)
    BY DEF Replace, WithStart
  <2> QED BY <1>2, <2>1, EntryStarted
<1>4. ~Present(View, op.name) /\ \A m \in Names \ {op.name} : View[m] = entry[m]
  BY <1>1, <1>2 DEF Present, Directories, Without
<1>5. Tidy(fat1, View, {new}) /\ new \in {new} /\ {new} \ {new} = {}
  BY <1>1 DEF VolumeTidy
<1>6. \A m \in Names \ {op.name} : entry'[m] = View[m]
  BY <1>3, <1>4
<1>7. /\ Tidy(fat1, entry', {new} \ {new})
      /\ Whole(fat1, View, {new}) => Whole(fat1, entry', {new} \ {new})
      /\ \A b : Referenced(fat1, entry', b) <=> Referenced(fat1, View, b) \/ b = new
  BY <1>2, <1>3, <1>4, <1>5, <1>6, TidyStarted
<1> QED BY <1>1, <1>2, <1>3, <1>4, <1>5, <1>7

\* The cluster of a new file is held until its entry is written.
LEMMA ZeroForCreateShape ==
    ASSUME Typed, Orderly, ZeroFirst, op.kind = "create"
    PROVE  Still /\ Held = {new}
BY DEF ZeroFirst, Still, View, Held, Fresh, Begun, Scanning, Walking, Detached, For, Point,
       Call, cached

\* The first cluster of an empty file is in the view before the entry has it.
LEMMA ZeroForWriteShape ==
    ASSUME Typed, Orderly, VolumeTidy, ZeroFirst, op.kind # "create"
    PROVE  /\ View = entry /\ View' = WithStart(entry, op.name, new)
           /\ Held = {new} /\ Held' = {} /\ fat1' = fat1
           /\ op.name \in Names /\ Present(entry, op.name) /\ entry[op.name].start = Empty
           /\ Present(View', op.name) /\ View'[op.name].start = new
           /\ \A m \in Names \ {op.name} : View'[m] = entry[m]
           /\ Tidy(fat1', View', Held')
           /\ Whole(fat1, View, Held) => Whole(fat1', View', Held')
           /\ \A b : Referenced(fat1', View', b) <=> Referenced(fat1, View, b) \/ b = new
<1>1. /\ View = entry /\ View' = WithStart(entry, op.name, new)
      /\ Held = {new} /\ Held' = {} /\ fat1' = fat1
  BY DEF ZeroFirst, View, Held, Fresh, Begun, Scanning, Walking, Detached, For, Point, Call,
         cached
<1>2. /\ op.name \in Names /\ Present(entry, op.name) /\ entry[op.name].start = Empty
      /\ entry \in Directories /\ new \in Clusters
  BY DEF ZeroFirst, Orderly, Named, For, Point, Typed
<1>3. /\ Present(View', op.name) /\ View'[op.name].start = new
      /\ \A m \in Names \ {op.name} : View'[m] = entry[m]
  BY <1>1, <1>2, EntryStarted
<1>4. Tidy(fat1, entry, {new}) /\ new \in {new} /\ {new} \ {new} = {}
  BY <1>1 DEF VolumeTidy
<1>5. /\ Tidy(fat1, View', {new} \ {new})
      /\ Whole(fat1, entry, {new}) => Whole(fat1, View', {new} \ {new})
      /\ \A b : Referenced(fat1, View', b) <=> Referenced(fat1, entry, b) \/ b = new
  <2> DEFINE e == entry
             d == View'
             H == {new}
  <2>1. Tidy(fat1, e, H) /\ new \in H /\ op.name \in Names /\ e[op.name].start = Empty
    BY <1>2, <1>4
  <2>2. Present(d, op.name) /\ d[op.name].start = new /\ \A m \in Names \ {op.name} : d[m] = e[m]
    BY <1>3
  <2> HIDE DEF e, d, H
  <2>3. /\ Tidy(fat1, d, H \ {new})
        /\ Whole(fat1, e, H) => Whole(fat1, d, H \ {new})
        /\ \A b : Referenced(fat1, d, b) <=> Referenced(fat1, e, b) \/ b = new
    BY <2>1, <2>2, TidyStarted
  <2> QED BY <2>3 DEF e, d, H
<1> QED BY <1>1, <1>2, <1>3, <1>4, <1>5

-----------------------------------------------------------------------------
(* The files' clusters during a step. *)

\* What is referred to is in use and not held.
LEMMA ReferencedFacts ==
    ASSUME Typed, Orderly, VolumeTidy, NEW c, Referenced(fat1, View, c)
    PROVE  c \in Clusters /\ fat1[c] # FREE /\ c \notin Held
<1>1. CASE c = Root
  BY <1>1, Constants DEF VolumeTidy, Tidy, Sound
<1>2. ASSUME NEW n \in Started(View), View[n].start = c
      PROVE  c \in Clusters /\ fat1[c] # FREE
  BY <1>2, ViewTyped, EntryOf DEF VolumeTidy, Tidy, Sound, Started
<1>3. ASSUME NEW d \in Linked(fat1), fat1[d] = c
      PROVE  c \in Clusters /\ fat1[c] # FREE
  BY <1>3 DEF VolumeTidy, Tidy, Sound, Linked, IsCluster
<1> QED BY <1>1, <1>2, <1>3 DEF Referenced, VolumeTidy, Tidy

\* View and entry agree but for the file of the operation.
LEMMA ViewOf ==
    ASSUME Typed, Orderly, NEW n \in Names, Present(View, n)
    PROVE  /\ Present(entry, n)
           /\ View[n].start = IF Walking /\ n = op.name THEN start ELSE entry[n].start
           /\ Walking /\ n = op.name => start \in Clusters /\ entry[n].start \in {Empty, start}
<1>1. entry \in Directories
  BY DEF Typed
<1>2. CASE Detached
  <2>1. ~Walking
    BY <1>2 DEF Detached, Walking, For, Point, Orderly, Control
  <2> QED BY <1>1, <1>2, <2>1 DEF View, Without, Present, Directories
<1>3. CASE ~Detached /\ Walking
  <2>1. /\ op.name \in Names /\ Present(entry, op.name) /\ start \in Clusters
        /\ entry[op.name].start \in {Empty, start}
    BY <1>3 DEF Orderly, Named, Control
  <2>2. View = WithStart(entry, op.name, start)
    BY <1>3 DEF View
  <2>3. /\ View[op.name].start = start /\ \A m \in Names \ {op.name} : View[m] = entry[m]
    BY <1>1, <2>1, <2>2, EntryStarted
  <2> QED BY <1>3, <2>1, <2>3 DEF Present
<1>4. CASE ~Detached /\ ~Walking
  BY <1>4 DEF View
<1> QED BY <1>2, <1>3, <1>4

\* What a file keeps is referred to, in use, not held and not the root.
LEMMA KeepsFacts ==
    ASSUME Typed, Orderly, VolumeTidy, NEW n \in Names, Present(View, n), Apart(n)
    PROVE  /\ Keeps(n) \subseteq Clusters /\ owned[n] \subseteq Keeps(n)
           /\ View[n].start # Empty => View[n].start \in Keeps(n)
           /\ \A c \in Keeps(n) :
                 Referenced(fat1, View, c) /\ fat1[c] # FREE /\ c \notin Held /\ c # Root
<1>1. owned[n] \subseteq Clusters
  BY DEF Typed
<1>2. /\ Present(entry, n)
      /\ View[n].start = IF Walking /\ n = op.name THEN start ELSE entry[n].start
      /\ Walking /\ n = op.name => start \in Clusters /\ entry[n].start \in {Empty, start}
  BY ViewOf
<1>3. Keeps(n) \subseteq Clusters /\ owned[n] \subseteq Keeps(n)
  BY <1>1, <1>2 DEF Keeps
<1>4. View[n].start # Empty => View[n].start \in Keeps(n)
  BY <1>2 DEF Keeps, Apart
<1>5. ASSUME NEW c \in Keeps(n)
      PROVE  Referenced(fat1, View, c) /\ c # Root
  <2>1. c \in Clusters /\ c # Empty
    BY <1>3, Constants
  <2>2. c = View[n].start \/ \E d \in Clusters : fat1[d] = c
    BY <1>2, <2>1 DEF Keeps, Apart
  <2>3. CASE c = View[n].start
    BY <2>1, <2>3 DEF Referenced, Started, VolumeTidy, Tidy, Sound
  <2>4. ASSUME NEW d \in Clusters, fat1[d] = c
        PROVE  Referenced(fat1, View, c) /\ c # Root
    BY <2>1, <2>4 DEF Referenced, Linked, IsCluster, VolumeTidy, Tidy, Sound
  <2> QED BY <2>2, <2>3, <2>4
<1> QED BY <1>3, <1>4, <1>5, ReferencedFacts

-----------------------------------------------------------------------------
(* The steps of a volume whose transfers succeed. *)

Awake == pc \notin {"down", "mounted", "counted"}

StillStep ==
    \/ Persist \/ Barrier \/ Flush \/ ScanNext \/ WalkNext \/ Sync
    \/ MarkDeleted \/ SyncEntry
    \/ ZeroFirst /\ op.kind = "create"
    \/ \E n \in Names :
          \/ Create(n) \/ Truncate(n)
          \/ \E i \in 0 .. MaxIndex : Write(n, i)
          \/ \E m \in Names : Rename(n, m)

ShiftStep ==
    \/ \E c \in Clusters : AllocAt(c) /\ UNCHANGED erred
    \/ AllocNoSpace \/ FreeNext
    \/ WriteEntry /\ op.kind = "create"
    \/ WriteEntry /\ op.kind = "rename"
    \/ LinkDir \/ Link
    \/ \E n \in Names : Delete(n)
    \/ FreeOld \/ Replace
    \/ ZeroFirst /\ op.kind # "create"

\* Without faults, and once mounted, these are all the steps.
LEMMA FaultlessStep ==
    ASSUME Faults = {}, Orderly, Awake, Next
    PROVE  StillStep \/ ShiftStep
<1>1. ~IOError /\ ~Crash /\ ~Mount /\ ~Recount /\ ~Fsck /\ \A k : ~Mirror(k)
  BY DEF IOError, Crash, Mount, Recount, Recounted, Mirror, Fsck, Awake
<1>2. WriteEntry => op.kind = "create" \/ op.kind = "rename"
  BY DEF WriteEntry, Orderly, Called, Scanning, Point
<1>3. Alloc => \E c \in Clusters : AllocAt(c) /\ UNCHANGED erred
  BY DEF Alloc
<1> QED BY <1>1, <1>2, <1>3 DEF Next, StillStep, ShiftStep

\* The still steps are still.
LEMMA StillSteps ==
    ASSUME Typed, Orderly, Stored, StillStep
    PROVE  Still
BY WaitsAreStill, BeginningsAreStill, EndsAreStill, ZeroForCreateShape DEF StillStep

\* No step of a running volume takes it down.
LEMMA StepAwake ==
    ASSUME Orderly, Awake, StillStep \/ ShiftStep
    PROVE  Awake'
<1> USE DEF Awake, Orderly, Control, Call, Goto, locals
<1>1. CASE StillStep
  BY <1>1 DEF StillStep, Persist, Barrier, Flush, ScanNext, ScanOn, WalkNext, WalkOn, Sync,
      MarkDeleted, SyncEntry, ZeroFirst, Create, NewFile, Truncate, Write, Rename, NewName, Begin
<1>2. CASE ShiftStep
  BY <1>2 DEF ShiftStep, AllocAt, AllocNoSpace, FreeNext, FreeRound, WriteEntry, LinkDir,
      Link, Delete, FreeOld, Replace, ZeroFirst, Begin
<1> QED BY <1>1, <1>2

\* A step that keeps the failures of the past keeps what is known of them.
LEMMA StepErred ==
    ASSUME StillStep \/ ShiftStep
    PROVE  erred' = erred \/ (AllocNoSpace /\ erred' = TRUE)
<1>1. CASE StillStep
  BY <1>1 DEF StillStep, Persist, Barrier, Flush, ScanNext, WalkNext, Sync,
      MarkDeleted, SyncEntry, ZeroFirst, Create, NewFile, Truncate, Write, Rename, NewName, Begin
<1>2. CASE ShiftStep
  BY <1>2 DEF ShiftStep, AllocAt, AllocNoSpace, FreeNext, WriteEntry, LinkDir,
      Link, Delete, FreeOld, Replace, ZeroFirst, Begin
<1> QED BY <1>1, <1>2

\* Every step keeps the volume sound and, unless it runs out of space, whole.
LEMMA StepTidy ==
    ASSUME Typed, Orderly, VolumeTidy, VolumeWhole, Ends, Cursor, Stored, StillStep \/ ShiftStep
    PROVE  VolumeTidy' /\ VolumeWhole'
<1> SUFFICES VolumeTidy' /\ (AllocNoSpace \/ (Whole(fat1, View, Held) => Whole(fat1', View', Held')))
  BY StepErred, NoSpaceShape DEF VolumeWhole
<1>1. CASE StillStep
  BY <1>1, StillSteps DEF Still, VolumeTidy
<1>2. ASSUME NEW c \in Clusters, AllocAt(c)
      PROVE  VolumeTidy' /\ (Whole(fat1, View, Held) => Whole(fat1', View', Held'))
  BY <1>2, TakenShape DEF VolumeTidy
<1>3. CASE AllocNoSpace
  BY <1>3, NoSpaceShape DEF VolumeTidy
<1>4. CASE FreeNext
  BY <1>4, FreedShape DEF VolumeTidy
<1>5. CASE WriteEntry /\ op.kind = "create"
  BY <1>5, CreatedShape DEF VolumeTidy
<1>6. CASE WriteEntry /\ op.kind = "rename"
  BY <1>6, RenamedShape DEF VolumeTidy
<1>7. CASE LinkDir
  <2>1. fat1[cur] = EOC
    BY <1>7 DEF LinkDir, Cursor, For, Point
  <2> QED BY <1>7, <2>1, LinkDirShape DEF VolumeTidy
<1>8. CASE Link
  <2>1. fat1[cur] = EOC
    BY <1>8 DEF Link, Cursor, For, Point
  <2> QED BY <1>8, <2>1, LinkShape DEF VolumeTidy
<1>9. ASSUME NEW n \in Names, Delete(n)
      PROVE  VolumeTidy' /\ (Whole(fat1, View, Held) => Whole(fat1', View', Held'))
  BY <1>9, DeleteShape DEF VolumeTidy
<1>10. CASE FreeOld
  BY <1>10, FreeOldShape DEF VolumeTidy
<1>11. CASE Replace
  BY <1>11, ReplaceShape DEF VolumeTidy
<1>12. CASE ZeroFirst /\ op.kind # "create"
  BY <1>12, ZeroForWriteShape DEF VolumeTidy
<1> QED
  BY <1>1, <1>2, <1>3, <1>4, <1>5, <1>6, <1>7, <1>8, <1>9, <1>10, <1>11, <1>12 DEF ShiftStep

\* A step that is still takes no cluster and starts to free none.
LEMMA StillHolds ==
    ASSUME Orderly, StillStep
    PROVE  /\ Fresh' => Fresh /\ new' = new
           /\ Begun' => (Begun /\ start' = start) \/ (ZeroFirst /\ op.kind = "create")
           /\ Point' = "free" => Point = "free" /\ cur' = cur
<1> USE DEF Fresh, Begun, Scanning, For, Point, cached, device, content, counts, locals,
            Call, Goto, Orderly, Control
<1>1. CASE Persist \/ Barrier \/ Flush \/ ScanNext \/ WalkNext \/ Sync
  BY <1>1 DEF Persist, Barrier, Flush, ScanNext, ScanOn, WalkNext, WalkOn, Sync, Begin
<1>2. CASE MarkDeleted \/ SyncEntry
  BY <1>2 DEF MarkDeleted, SyncEntry
<1>3. CASE ZeroFirst /\ op.kind = "create"
  BY <1>3 DEF ZeroFirst
<1>4. ASSUME NEW n \in Names,
             Create(n) \/ Truncate(n)
             \/ (\E i \in 0 .. MaxIndex : Write(n, i)) \/ \E m \in Names : Rename(n, m)
      PROVE  ~Fresh' /\ ~Begun' /\ Point' # "free"
  BY <1>4 DEF Create, NewFile, Truncate, Write, Rename, NewName, Begin
<1> QED BY <1>1, <1>2, <1>3, <1>4 DEF StillStep

\* Every step keeps the clusters that are held last in their chains.
LEMMA StepEnds ==
    ASSUME Typed, Orderly, VolumeTidy, Ends, Cursor, Stored, StillStep \/ ShiftStep
    PROVE  Ends'
<1> USE Constants
<1>1. CASE StillStep
  <2>1. fat1' = fat1
    BY <1>1, StillSteps DEF Still
  <2>2. CASE ZeroFirst /\ op.kind = "create"
    <3>1. start' = new /\ fat1[new] = EOC /\ ~Fresh' /\ Point' # "free"
      BY <2>2 DEF ZeroFirst, Ends, Fresh, Point, For, Call
    <3> QED BY <2>1, <3>1 DEF Ends
  <2>3. CASE ~(ZeroFirst /\ op.kind = "create")
    BY <1>1, <2>1, <2>3, StillHolds DEF Ends
  <2> QED BY <2>2, <2>3
<1>2. ASSUME NEW c \in Clusters, AllocAt(c)
      PROVE  Ends'
  <2>1. /\ Begun' => Begun /\ start' = start
        /\ Point' # "free"
    BY <1>2 DEF AllocAt, Begun, Scanning, For, Point, Orderly, Control
  <2>2. \A d \in Clusters : fat1'[d] = IF d = c THEN EOC ELSE fat1[d]
    BY <1>2, TakenShape DEF Typed, Fats
  <2>3. new' = c /\ fat1[c] = FREE
    BY <1>2, TakenShape
  <2>4. Begun => start \in Clusters
    BY DEF Begun, Orderly, Named
  <2> QED BY <2>1, <2>2, <2>3, <2>4 DEF Ends
<1>3. CASE AllocNoSpace
  BY <1>3 DEF AllocNoSpace, Ends, Fresh, Begun, Scanning, For, Point
<1>4. CASE FreeNext
  <2>1. /\ pc = "free" /\ ret' = ret /\ new' = new /\ ret \in {"mark", "replace"}
        /\ Point' = "free" => IsCluster(fat1[cur]) /\ cur' = fat1[cur]
    BY <1>4 DEF FreeNext, FreeRound, Orderly, Control, Point
  <2>2. (Fresh' => Fresh) /\ ~Begun'
    BY <1>4, <2>1 DEF FreeNext, FreeRound, Fresh, Begun, Scanning, For, Point
  <2>3. Fresh => new # cur /\ fat1[new] = EOC /\ new \in Held
    BY <2>1 DEF Ends, Held, Point
  <2>4. \A d \in Clusters : fat1'[d] = IF d = cur THEN FREE ELSE fat1[d]
    BY <1>4, FreedShape DEF Typed, Fats
  <2>5. Fresh /\ IsCluster(fat1[cur]) => fat1[cur] # new
    <3>1. Fresh => ~Referenced(fat1, View, new)
      BY <2>3 DEF VolumeTidy, Tidy
    <3>2. cur \in Clusters
      BY DEF Typed
    <3> QED BY <3>1, <3>2 DEF Referenced, Linked
  <2>6. new \in Clusters
    BY DEF Typed
  <2> QED BY <2>1, <2>2, <2>3, <2>4, <2>5, <2>6 DEF Ends
<1>5. CASE WriteEntry
  BY <1>5 DEF WriteEntry, Ends, Fresh, Begun, Scanning, For, Point, Call
<1>6. CASE LinkDir
  <2>1. ~Fresh' /\ Point' # "free" /\ Scanning /\ start' = start /\ (Begun' => Begun)
    BY <1>6 DEF LinkDir, Fresh, Begun, Scanning, For, Point, Call
  <2>2. fat1' = [fat1 EXCEPT ![cur] = new] /\ Fresh
    BY <1>6 DEF LinkDir, WriteFat, Fresh, Point
  <2>3. Begun => start \in Held /\ start \in Clusters /\ ~Referenced(fat1, View, start)
    BY DEF Begun, Orderly, Named, Held, VolumeTidy, Tidy
  <2>4. Referenced(fat1, View, cur)
    BY <2>1 DEF Cursor
  <2>5. \A d \in Clusters : d # cur => fat1'[d] = fat1[d]
    BY <2>2 DEF Typed, Fats
  <2>6. Begun => start # cur /\ start \in Clusters /\ fat1[start] = EOC
    BY <2>3, <2>4 DEF Ends
  <2>7. Begun => fat1'[start] = EOC
    BY <2>5, <2>6
  <2> QED BY <2>1, <2>7 DEF Ends
<1>7. CASE Link
  BY <1>7 DEF Link, Ends, Fresh, Begun, Scanning, For, Point, Call, Orderly, Called, Walking
<1>8. ASSUME NEW n \in Names, Delete(n)
      PROVE  Ends'
  BY <1>8 DEF Delete, Begin, Ends, Fresh, Begun, Scanning, For, Point, Goto
<1>9. CASE FreeOld
  <2>1. fat1' = fat1 /\ Fresh /\ new' = new /\ ~Begun' /\ op.name \in Names
        /\ Present(entry, op.name) /\ entry[op.name].start = start
    BY <1>9 DEF FreeOld, Fresh, Begun, Scanning, For, Point, Call, Goto, cached, Orderly, Named
  <2>2. Point' = "free" => start # Empty /\ cur' = start
    BY <1>9 DEF FreeOld, Point, Goto
  <2>3. View = entry /\ new \in Held
    BY <1>9, <2>1, FreeOldShape
  <2>4. start # Empty => start # new
    BY <2>1, <2>3 DEF VolumeTidy, Tidy, Referenced, Started
  <2> QED BY <2>1, <2>2, <2>4 DEF Ends
<1>10. CASE Replace
  BY <1>10 DEF Replace, Ends, Fresh, Begun, Scanning, For, Point, Call
<1>11. CASE ZeroFirst /\ op.kind # "create"
  BY <1>11 DEF ZeroFirst, Ends, Fresh, Begun, Scanning, For, Point, Call
<1> QED
  BY <1>1, <1>2, <1>3, <1>4, <1>5, <1>6, <1>7, <1>8, <1>9, <1>10, <1>11 DEF ShiftStep

\* Every step refers to zeroed clusters only.
LEMMA StepStale ==
    ASSUME Typed, Orderly, VolumeTidy, Ends, Cursor, NoneStale, Stored,
           StillStep \/ ShiftStep
    PROVE  NoneStale'
<1>1. CASE StillStep
  <2>1. fat1' = fat1 /\ View' = View
    BY <1>1, StillSteps DEF Still
  <2>2. CASE ZeroFirst /\ op.kind = "create"
    BY <2>1, <2>2 DEF ZeroFirst, Zero, NoneStale
  <2>3. CASE ~(ZeroFirst /\ op.kind = "create")
    <3>1. stale' = stale
      BY <1>1, <2>3 DEF StillStep, Persist, Barrier, Flush, ScanNext, ScanOn, WalkNext, WalkOn,
         Sync, MarkDeleted, SyncEntry, Create, NewFile, Truncate, Write, Rename, NewName, Begin, content
    <3> QED BY <1>1, <2>1, <2>3, <3>1, StillHolds DEF NoneStale
  <2> QED BY <2>2, <2>3
<1>2. ASSUME NEW c \in Clusters, AllocAt(c)
      PROVE  NoneStale'
  <2>1. stale' = stale /\ (Begun' => Begun /\ start' = start)
    BY <1>2 DEF AllocAt, Begun, Scanning, For, Point, Orderly, Control, content
  <2> QED BY <1>2, <2>1, TakenShape DEF NoneStale
<1>3. CASE AllocNoSpace
  <2>1. stale' = stale /\ ~Begun'
    BY <1>3 DEF AllocNoSpace, Begun, Scanning, For, Point, content
  <2> QED BY <1>3, <2>1, NoSpaceShape DEF NoneStale
<1>4. CASE FreeNext
  <2>1. stale' = stale \cup {cur} /\ ~Begun'
    BY <1>4 DEF FreeNext, FreeRound, Begun, Scanning, For, Point, Orderly, Control
  <2>2. cur \in Held /\ \A b : Referenced(fat1', View', b) => Referenced(fat1, View, b)
    BY <1>4, FreedShape
  <2>3. ~Referenced(fat1, View, cur)
    BY <2>2 DEF VolumeTidy, Tidy
  <2> QED BY <2>1, <2>2, <2>3 DEF NoneStale
<1>5. CASE WriteEntry /\ op.kind = "create"
  <2>1. stale' = stale /\ ~Begun' /\ Begun
    BY <1>5 DEF WriteEntry, Begun, Scanning, For, Point, Call, content
  <2> QED BY <1>5, <2>1, CreatedShape DEF NoneStale
<1>6. CASE WriteEntry /\ op.kind = "rename"
  <2>1. stale' = stale /\ ~Begun'
    BY <1>6 DEF WriteEntry, Begun, Scanning, For, Point, Call, content
  <2> QED BY <1>6, <2>1, RenamedShape DEF NoneStale
<1>7. CASE LinkDir
  <2>1. stale' = stale \ {new} /\ (Begun' => Begun) /\ start' = start
    BY <1>7 DEF LinkDir, Zero, Begun, Scanning, For, Point, Call
  <2>2. fat1[cur] = EOC
    BY <1>7 DEF LinkDir, Cursor, For, Point
  <2>3. \A b \in Clusters : Referenced(fat1', View', b) <=> Referenced(fat1, View, b) \/ b = new
    BY <1>7, <2>2, LinkDirShape
  <2> QED BY <2>1, <2>3 DEF NoneStale
<1>8. CASE Link
  <2>1. stale' = stale \ {new} /\ ~Begun'
    BY <1>8 DEF Link, Zero, Begun, Scanning, For, Point, Call
  <2>2. fat1[cur] = EOC
    BY <1>8 DEF Link, Cursor, For, Point
  <2>3. \A b \in Clusters : Referenced(fat1', View', b) <=> Referenced(fat1, View, b) \/ b = new
    BY <1>8, <2>2, LinkShape
  <2> QED BY <2>1, <2>3 DEF NoneStale
<1>9. ASSUME NEW n \in Names, Delete(n)
      PROVE  NoneStale'
  <2>1. stale' = stale /\ ~Begun'
    BY <1>9 DEF Delete, Begin, Begun, Scanning, For, Point, Goto, content
  <2> QED BY <1>9, <2>1, DeleteShape DEF NoneStale
<1>10. CASE FreeOld
  <2>1. stale' = stale /\ ~Begun'
    BY <1>10 DEF FreeOld, Begun, Scanning, For, Point, Goto, Call, content
  <2> QED BY <1>10, <2>1, FreeOldShape DEF NoneStale
<1>11. CASE Replace
  <2>1. stale' = stale \ {new} /\ ~Begun'
    BY <1>11 DEF Replace, Zero, Begun, Scanning, For, Point, Call
  <2> QED BY <1>11, <2>1, ReplaceShape DEF NoneStale
<1>12. CASE ZeroFirst /\ op.kind # "create"
  <2>1. stale' = stale \ {new} /\ ~Begun'
    BY <1>12 DEF ZeroFirst, Zero, Begun, Scanning, For, Point, Call
  <2> QED BY <1>12, <2>1, ZeroForWriteShape DEF NoneStale
<1> QED
  BY <1>1, <1>2, <1>3, <1>4, <1>5, <1>6, <1>7, <1>8, <1>9, <1>10, <1>11, <1>12 DEF ShiftStep

\* What is known of the clusters of every file in the view.
LEMMA KeptFacts ==
    ASSUME Typed, Orderly, VolumeTidy, Kept, NEW n \in Names, Present(View, n)
    PROVE  /\ Apart(n) /\ Keeps(n) \subseteq Clusters /\ owned[n] \subseteq Keeps(n)
           /\ View[n].start # Empty => View[n].start \in Keeps(n)
           /\ \A c \in Keeps(n) :
                 Referenced(fat1, View, c) /\ fat1[c] # FREE /\ c \notin Held /\ c # Root
BY KeepsFacts DEF Kept

\* Neither the chain of the directory nor one that is being freed leads into
\* the clusters of a file.
LEMMA Outside ==
    ASSUME Typed, Orderly, VolumeTidy, Kept, NEW n \in Names, Present(View, n),
           NEW c \in Clusters, c \notin Keeps(n), Referenced(fat1, View, c) \/ c \in Held
    PROVE  fat1[c] \notin Keeps(n)
<1>1. ~Lost(c)
  BY DEF Lost
<1> QED BY <1>1, KeptFacts DEF Apart

\* The still steps keep the cursor on the chain it walks.
LEMMA StillCursor ==
    ASSUME Typed, Orderly, VolumeTidy, Ends, Kept, Cursor, Stored, StillStep
    PROVE  Cursor'
<1> USE DEF Scanning, Walking, For, Point, Call, Goto, cached, content, counts, locals
<1>1. fat1' = fat1 /\ View' = View
  BY StillSteps DEF Still
<1>2. CASE Persist
  <2>1. UNCHANGED <<op, pc, ret, cur, start, owned>>
    BY <1>2 DEF Persist
  <2>2. /\ \A n \in Names : Keeps(n)' = Keeps(n)
        /\ Keeps(op.name)' = Keeps(op.name)
    BY <2>1 DEF Keeps
  <2> QED BY <1>1, <2>1, <2>2 DEF Cursor
<1>3. CASE Barrier \/ Flush
  <2>1. Point' = Point /\ Point \in {"zero", "linkdir", "link", "freeold", "scan", "walk",
                                     "mark", "replace", "idle"}
    BY <1>3 DEF Barrier, Flush, Orderly, Control
  <2>2. UNCHANGED <<op, ret, cur, start, owned>>
    BY <1>3 DEF Barrier, Flush
  <2>3. Walking' = Walking /\ Scanning' = Scanning
    BY <2>1, <2>2
  <2>4. /\ \A n \in Names : Keeps(n)' = Keeps(n)
        /\ Keeps(op.name)' = Keeps(op.name)
    BY <2>2, <2>3 DEF Keeps
  <2> QED BY <1>1, <2>1, <2>2, <2>3, <2>4 DEF Cursor
<1>4. CASE MarkDeleted \/ SyncEntry \/ Sync
  BY <1>4 DEF MarkDeleted, SyncEntry, Sync, Begin, Cursor
<1>5. CASE ScanNext
  <2>1. /\ Scanning /\ ~Walking /\ Scanning' /\ ~Walking' /\ ~For("zero")' /\ ~For("link")'
        /\ Point' # "free"
    BY <1>5 DEF ScanNext, ScanOn
  <2>2. \A n \in Names : Keeps(n)' = Keeps(n)
    BY <1>5, <2>1 DEF ScanNext, ScanOn, Keeps
  <2>3. cur \in Clusters /\ fat1[cur] \in {FREE, EOC} \cup Clusters
    BY DEF Typed, Fats
  <2>4. Referenced(fat1, View, cur) /\ fat1[cur] # FREE
    BY <2>1, ReferencedFacts DEF Cursor
  <2>5. CASE IsCluster(fat1[cur])
    <3>1. cur' = fat1[cur] /\ pc' = "scan"
      BY <1>5, <2>5 DEF ScanNext, ScanOn
    <3>2. Referenced(fat1, View, fat1[cur])
      BY <2>3, <2>5 DEF Referenced, Linked
    <3>3. \A n \in Names : Present(View, n) => fat1[cur] \notin Keeps(n)
      BY <2>1, <2>3, <2>4, Outside DEF Cursor
    <3> QED BY <1>1, <2>1, <2>2, <3>1, <3>2, <3>3 DEF Cursor
  <2>6. CASE ~IsCluster(fat1[cur])
    <3>1. cur' = cur
      BY <1>5, <2>6 DEF ScanNext, ScanOn
    <3>2. fat1[cur] = EOC
      BY <2>3, <2>4, <2>6 DEF IsCluster
    <3> QED BY <1>1, <2>1, <2>2, <3>1, <3>2 DEF Cursor
  <2> QED BY <2>5, <2>6
<1>6. CASE WalkNext
  <2>1. /\ Walking /\ ~Scanning /\ Walking' /\ ~Scanning' /\ ~For("zero")' /\ ~For("linkdir")'
        /\ Point' # "free" /\ op.name \in Names
    BY <1>6 DEF WalkNext, WalkOn, Orderly, Named
  <2>2. \A n \in Names : Keeps(n)' = Keeps(n) /\ op' = op
    BY <1>6, <2>1 DEF WalkNext, WalkOn, Keeps
  <2>3. cur \in Clusters /\ fat1[cur] \in {FREE, EOC} \cup Clusters
    BY DEF Typed, Fats
  <2>4. Present(View, op.name) /\ Keeps(op.name)' = Keeps(op.name) /\ op' = op
    <3>1. Present(entry, op.name) /\ entry \in Directories /\ start \in {Empty} \cup Clusters
      BY <2>1 DEF Orderly, Named, Typed
    <3>2. View = WithStart(entry, op.name, start)
      BY <1>6 DEF WalkNext, WalkOn, View, Detached
    <3> QED BY <2>1, <2>2, <3>1, <3>2, EntryStarted
  <2>5. cur \in Keeps(op.name) /\ fat1[cur] # FREE
    BY <2>1, <2>4, KeptFacts DEF Cursor
  <2>6. CASE IsCluster(fat1[cur])
    <3>1. cur' = fat1[cur] /\ pc' = "walk"
      BY <1>6, <2>6 DEF WalkNext, WalkOn
    <3>2. fat1[cur] \in Keeps(op.name)
      BY <2>1, <2>4, <2>5, <2>6 DEF Kept, Apart
    <3>3. cur' \in Keeps(op.name)'
      BY <2>4, <3>1, <3>2
    <3> QED BY <2>1, <2>4, <3>1, <3>3 DEF Cursor
  <2>7. CASE ~IsCluster(fat1[cur])
    <3>1. cur' = cur
      BY <1>6, <2>7 DEF WalkNext, WalkOn
    <3>2. fat1[cur] = EOC
      BY <2>3, <2>5, <2>7 DEF IsCluster
    <3>3. cur' \in Keeps(op.name)'
      BY <2>4, <2>5, <3>1
    <3> QED BY <1>1, <2>1, <2>4, <3>1, <3>2, <3>3 DEF Cursor
  <2> QED BY <2>6, <2>7
<1>7. CASE ZeroFirst /\ op.kind = "create"
  <2>1. /\ cur' = cur /\ cur = Root /\ owned' = owned
        /\ ~Walking /\ ~Walking' /\ ~For("zero")' /\ ~For("linkdir")' /\ Point' # "free"
    BY <1>7 DEF ZeroFirst, Cursor
  <2>2. \A n \in Names : Keeps(n)' = Keeps(n)
    BY <2>1 DEF Keeps
  <2>3. Referenced(fat1, View, Root) /\ \A n \in Names : Present(View, n) => Root \notin Keeps(n)
    BY KeptFacts DEF Referenced
  <2> QED BY <1>1, <2>1, <2>2, <2>3 DEF Cursor
<1>8. ASSUME NEW n \in Names, Create(n) \/ Truncate(n)
      PROVE  Cursor'
  BY <1>8 DEF Create, NewFile, Truncate, Begin, Cursor
<1>9. ASSUME NEW n \in Names, NEW i \in 0 .. MaxIndex, Write(n, i)
      PROVE  Cursor'
  <2>1. op'.kind = "write" /\ op'.name = n
    BY <1>9 DEF Write, Begin
  <2>2. CASE start' = Empty
    BY <1>9, <2>1, <2>2 DEF Write, Begin, Cursor
  <2>3. CASE start' # Empty
    BY <1>9, <2>1, <2>3 DEF Write, Begin, Cursor, Keeps
  <2> QED BY <2>2, <2>3
<1>10. ASSUME NEW n \in Names, NEW m \in Names, Rename(n, m)
       PROVE  Cursor'
  <2>1. /\ cur' = Root /\ owned' = owned /\ pc' = "scan"
        /\ ~Walking /\ ~Walking' /\ ~For("zero")' /\ ~For("linkdir")' /\ Point' # "free"
    BY <1>10 DEF Rename, NewName, Begin
  <2>2. \A k \in Names : Keeps(k)' = Keeps(k)
    BY <2>1 DEF Keeps
  <2>3. Referenced(fat1, View, Root) /\ \A k \in Names : Present(View, k) => Root \notin Keeps(k)
    BY KeptFacts DEF Referenced
  <2> QED BY <1>1, <2>1, <2>2, <2>3 DEF Cursor
<1> QED
  BY <1>2, <1>3, <1>4, <1>5, <1>6, <1>7, <1>8, <1>9, <1>10 DEF StillStep

\* So do the others.
LEMMA ShiftCursor ==
    ASSUME Typed, Orderly, VolumeTidy, Ends, Kept, Cursor, ShiftStep
    PROVE  Cursor'
<1> USE DEF Scanning, Walking, For, Point, Call, Goto
<1>1. ASSUME NEW c \in Clusters, AllocAt(c)
      PROVE  Cursor'
  <2>1. /\ pc = "alloc" /\ pc' = "barrier" /\ ret \in {"zero", "linkdir", "link", "freeold"}
        /\ UNCHANGED <<op, ret, cur, start, owned>>
    BY <1>1 DEF AllocAt, Orderly, Control
  <2>2. Scanning' = Scanning /\ Walking' = Walking /\ Point' # "free"
        /\ For("zero")' = For("zero") /\ For("linkdir")' = For("linkdir")
        /\ For("link")' = For("link")
    BY <2>1
  <2>3. /\ \A n \in Names : Keeps(n)' = Keeps(n)
        /\ Keeps(op.name)' = Keeps(op.name)
    BY <2>1, <2>2 DEF Keeps
  <2>4. /\ View' = View /\ cur \in Clusters /\ fat1[c] = FREE
        /\ \A d \in Clusters : Referenced(fat1', View', d) <=> Referenced(fat1, View, d)
        /\ \A d \in Clusters : fat1'[d] = IF d = c THEN EOC ELSE fat1[d]
    BY <1>1, TakenShape DEF Typed, Fats
  <2>5. Scanning => Referenced(fat1', View', cur')
    BY <2>1, <2>4 DEF Cursor
  <2>6. For("linkdir") \/ For("link") => fat1'[cur'] = EOC
    BY <2>1, <2>4 DEF Cursor
  <2> HIDE DEF Scanning, Walking, For, Point
  <2>7. For("zero")' /\ op'.kind = "create" => cur' = Root
    BY <2>1, <2>2 DEF Cursor
  <2>8. Scanning' => \A n \in Names : Present(View', n) => cur' \notin Keeps(n)'
    BY <2>1, <2>2, <2>3, <2>4 DEF Cursor
  <2>9. Walking' => cur' \in Keeps(op.name)'
    BY <2>1, <2>2, <2>3 DEF Cursor
  <2> QED BY <2>2, <2>5, <2>6, <2>7, <2>8, <2>9 DEF Cursor
<1>2. CASE AllocNoSpace
  BY <1>2 DEF AllocNoSpace, Cursor
<1>3. CASE FreeNext
  <2>1. /\ pc = "free" /\ ret' = ret /\ ret \in {"mark", "replace"} /\ owned' = owned
        /\ pc' \in {"free", "barrier"} /\ (pc' = "free" => IsCluster(fat1[cur]) /\ cur' = fat1[cur])
    BY <1>3 DEF FreeNext, FreeRound, Orderly, Control
  <2>2. ~Walking /\ ~Walking' /\ ~Scanning' /\ ~For("zero")' /\ ~For("linkdir")' /\ ~For("link")'
        /\ Point = "free" /\ (Point' = "free" => pc' = "free")
    BY <2>1
  <2>3. View' = View /\ cur \in Held /\ cur \in Clusters
    BY <1>3, FreedShape DEF Typed
  <2>4. ASSUME NEW n \in Names, Present(View, n)
        PROVE  fat1[cur] \notin owned[n]
    <3>1. Keeps(n) = owned[n]
      BY <2>2 DEF Keeps
    <3>2. cur \notin Keeps(n)
      BY <2>2, <2>4, <3>1 DEF Cursor
    <3> QED BY <2>3, <2>4, <3>1, <3>2, Outside
  <2> QED BY <2>1, <2>2, <2>3, <2>4 DEF Cursor
<1>4. CASE WriteEntry
  BY <1>4 DEF WriteEntry, Cursor
<1>5. CASE LinkDir
  <2>1. fat1[cur] = EOC
    BY <1>5 DEF LinkDir, Cursor
  <2>2. /\ View' = View /\ new \in Held /\ new \in Clusters
        /\ \A b \in Clusters : Referenced(fat1', View', b) <=> Referenced(fat1, View, b) \/ b = new
    BY <1>5, <2>1, LinkDirShape DEF Typed
  <2>3. /\ ~Walking /\ ~Walking' /\ owned' = owned /\ cur' = new
        /\ ~For("zero")' /\ ~For("linkdir")' /\ ~For("link")' /\ Point' # "free"
    BY <1>5 DEF LinkDir
  <2>4. \A n \in Names : Keeps(n)' = Keeps(n)
    BY <2>3 DEF Keeps
  <2>5. \A n \in Names : Present(View, n) => new \notin Keeps(n)
    BY <2>2, KeptFacts
  <2> QED BY <2>2, <2>3, <2>4, <2>5 DEF Cursor
<1>6. CASE Link
  <2>1. /\ Walking' /\ ~Scanning' /\ cur' = new /\ new \in owned[op.name]'
        /\ ~For("zero")' /\ ~For("linkdir")' /\ ~For("link")' /\ Point' # "free"
    BY <1>6 DEF Link, Orderly, Named, Typed
  <2>2. cur' \in Keeps(op.name)'
    BY <2>1 DEF Keeps
  <2> QED BY <2>1, <2>2 DEF Cursor
<1>7. ASSUME NEW n \in Names, Delete(n)
      PROVE  Cursor'
  <2>1. CASE entry[n].start = Empty
    BY <1>7, <2>1 DEF Delete, Begin, Cursor
  <2>2. CASE entry[n].start # Empty
    <3>1. /\ pc = "idle" /\ pc' = "free" /\ ret' = "mark" /\ cur' = entry[n].start
          /\ owned' = owned
      BY <1>7, <2>2 DEF Delete, Begin
    <3>2. ~Walking' /\ ~Scanning' /\ ~Walking /\ ~For("zero")' /\ ~For("linkdir")' /\ ~For("link")'
      BY <3>1
    <3>3. View = entry /\ View' = Without(entry, n) /\ Present(entry, n) /\ entry \in Directories
      BY <1>7, DeleteShape DEF Typed
    <3>4. ASSUME NEW m \in Names, Present(View', m)
          PROVE  cur' \notin owned'[m]
      <4>1. m # n /\ Present(View, m)
        BY <3>3, <3>4 DEF Without, Directories, Present
      <4>2. cur' \in Keeps(n)
        BY <2>2, <3>1, <3>3, KeptFacts
      <4>3. Keeps(m) \cap Keeps(n) = {}
        BY <3>3, <4>1 DEF Kept, Apart
      <4>4. Keeps(m) = owned[m]
        BY <3>2 DEF Keeps
      <4> QED BY <3>1, <4>2, <4>3, <4>4
    <3> QED BY <3>2, <3>4 DEF Cursor
  <2> QED BY <2>1, <2>2
<1>8. CASE FreeOld
  <2>1. CASE start = Empty
    BY <1>8, <2>1 DEF FreeOld, Cursor
  <2>2. CASE start # Empty
    <3>1. /\ pc' = "free" /\ ret' = "replace" /\ cur' = start /\ owned' = owned
          /\ entry[op.name].start = start /\ ~Walking
      BY <1>8, <2>2 DEF FreeOld, Orderly, Named
    <3>2. ~Walking' /\ ~Scanning' /\ ~For("zero")' /\ ~For("linkdir")' /\ ~For("link")'
      BY <3>1
    <3>3. /\ View = entry /\ View' = Without(entry, op.name) /\ Present(entry, op.name)
          /\ op.name \in Names /\ entry \in Directories
      BY <1>8, FreeOldShape DEF Typed
    <3>4. ASSUME NEW m \in Names, Present(View', m)
          PROVE  cur' \notin owned'[m]
      <4>1. m # op.name /\ Present(View, m)
        BY <3>3, <3>4 DEF Without, Directories, Present
      <4>2. cur' \in Keeps(op.name)
        BY <2>2, <3>1, <3>3, KeptFacts
      <4>3. Keeps(m) \cap Keeps(op.name) = {}
        BY <3>3, <4>1 DEF Kept, Apart
      <4>4. Keeps(m) = owned[m]
        BY <3>1 DEF Keeps
      <4> QED BY <3>1, <4>2, <4>3, <4>4
    <3> QED BY <3>2, <3>4 DEF Cursor
  <2> QED BY <2>1, <2>2
<1>9. CASE Replace
  BY <1>9 DEF Replace, Cursor
<1>10. CASE ZeroFirst /\ op.kind # "create"
  <2>1. /\ Walking' /\ ~Scanning' /\ cur' = new /\ start' = new
        /\ ~For("zero")' /\ ~For("linkdir")' /\ ~For("link")' /\ Point' # "free"
    BY <1>10 DEF ZeroFirst
  <2>2. cur' \in Keeps(op.name)'
    BY <2>1 DEF Keeps
  <2> QED BY <2>1, <2>2 DEF Cursor
<1> QED
  BY <1>1, <1>2, <1>3, <1>4, <1>5, <1>6, <1>7, <1>8, <1>9, <1>10 DEF ShiftStep

\* The still steps keep every file its clusters.
LEMMA StillKept ==
    ASSUME Typed, Orderly, VolumeTidy, Kept, Stored, StillStep
    PROVE  Kept'
<1>1. fat1' = fat1 /\ View' = View /\ Held' = Held
  BY StillSteps DEF Still
<1>2. \A c : Lost(c)' = Lost(c)
  BY <1>1 DEF Lost
<1>3. ASSUME NEW n \in Names, Present(View, n)
      PROVE  /\ Keeps(n)' = Keeps(n)
             /\ \/ entry'[n] = entry[n] /\ owned'[n] = owned[n]
                \/ /\ Walking /\ n = op.name /\ owned'[n] = owned[n] \cup {start}
                   /\ entry'[n].start = start
  <2> USE DEF Keeps, Scanning, Walking, For, Point, Call, Goto, cached, content, counts, locals
  <2>1. CASE Persist
    BY <2>1 DEF Persist
  <2>2. CASE Barrier \/ Flush
    BY <2>2 DEF Barrier, Flush, Orderly, Control
  <2>3. CASE ScanNext \/ WalkNext \/ Sync
    BY <2>3 DEF ScanNext, ScanOn, WalkNext, WalkOn, Sync, Begin
  <2>4. CASE MarkDeleted
    <3>1. n # op.name
      <4>1. View = Without(entry, op.name)
        BY <2>4 DEF MarkDeleted, View, Detached
      <4> QED BY <1>3, <4>1 DEF Without, Present, Typed, Directories
    <3> QED BY <2>4, <3>1 DEF MarkDeleted, Typed, Directories
  <2>5. CASE SyncEntry
    <3>1. /\ op.name \in Names /\ Present(entry, op.name) /\ Walking /\ start \in Clusters
          /\ entry \in Directories /\ owned \in [Names -> SUBSET Clusters]
      BY <2>5 DEF SyncEntry, Orderly, Named, Control, Typed
    <3>2. entry' = WithStart(entry, op.name, start)
      BY <2>5, SyncShape
    <3>3. /\ entry'[op.name].start = start
          /\ \A m \in Names \ {op.name} : entry'[m] = entry[m]
      BY <3>1, <3>2, EntryStarted
    <3>4. owned' = [owned EXCEPT ![op.name] = @ \cup {start}] /\ ~Walking'
      BY <2>5, SyncShape DEF SyncEntry
    <3> QED BY <3>1, <3>3, <3>4
  <2>6. CASE ZeroFirst /\ op.kind = "create"
    BY <2>6 DEF ZeroFirst
  <2>7. ASSUME NEW k \in Names, Create(k) \/ Truncate(k) \/ \E m \in Names : Rename(k, m)
        PROVE  Keeps(n)' = Keeps(n) /\ entry' = entry /\ owned' = owned
    BY <2>7 DEF Create, NewFile, Truncate, Rename, NewName, Begin
  <2>8. ASSUME NEW k \in Names, NEW i \in 0 .. MaxIndex, Write(k, i)
        PROVE  Keeps(n)' = Keeps(n) /\ entry' = entry /\ owned' = owned
    <3>1. /\ entry' = entry /\ owned' = owned /\ start' = entry[k].start /\ op'.name = k
          /\ Keeps(n) = owned[n]
      BY <2>8 DEF Write, Begin
    <3>2. CASE start' = Empty
      BY <2>8, <3>1, <3>2 DEF Write
    <3>3. CASE start' # Empty
      <4>1. Keeps(n)' = IF n = k THEN owned[n] \cup {entry[k].start} ELSE owned[n]
        BY <2>8, <3>1, <3>3 DEF Write
      <4>2. entry[n].start # Empty => entry[n].start \in owned[n]
        BY <1>3 DEF Kept, Apart
      <4> QED BY <3>1, <3>3, <4>1, <4>2
    <3> QED BY <3>2, <3>3
  <2> QED BY <2>1, <2>2, <2>3, <2>4, <2>5, <2>6, <2>7, <2>8 DEF StillStep
<1>4. ASSUME NEW n \in Names, Present(View, n)
      PROVE  Apart(n)'
  <2>1. Apart(n) /\ owned[n] \subseteq Clusters
    BY <1>4 DEF Kept, Typed
  <2>2. /\ \A c \in owned'[n] : c = entry'[n].start \/ \E d \in Clusters : fat1'[d] = c
        /\ entry'[n].start # Empty => entry'[n].start \in owned'[n]
    <3>1. CASE entry'[n] = entry[n] /\ owned'[n] = owned[n]
      BY <1>1, <2>1, <3>1 DEF Apart
    <3>2. CASE /\ Walking /\ n = op.name /\ owned'[n] = owned[n] \cup {start}
               /\ entry'[n].start = start
      <4>1. entry[n].start \in {Empty, start} /\ Empty \notin Clusters
        BY <3>2, Constants DEF Orderly, Named
      <4> QED BY <1>1, <2>1, <3>2, <4>1 DEF Apart
    <3> QED BY <1>3, <1>4, <3>1, <3>2
  <2>3. \A c \in Clusters : fat1'[c] \in Keeps(n)' => c \in Keeps(n)' \/ Lost(c)'
    BY <1>1, <1>2, <1>3, <1>4, <2>1 DEF Apart
  <2>4. \A c \in Keeps(n)' : IsCluster(fat1'[c]) => fat1'[c] \in Keeps(n)'
    BY <1>1, <1>3, <1>4, <2>1 DEF Apart
  <2>5. \A m \in Names \ {n} : Present(View', m) => Keeps(m)' \cap Keeps(n)' = {}
    BY <1>1, <1>3, <1>4, <2>1 DEF Apart
  <2> QED BY <2>2, <2>3, <2>4, <2>5 DEF Apart
<1> QED BY <1>1, <1>4 DEF Kept

\* Allocation keeps every file its clusters.
LEMMA TakenKept ==
    ASSUME Typed, Orderly, VolumeTidy, Kept, NEW c \in Clusters, AllocAt(c)
    PROVE  Kept'
<1>1. /\ View' = View /\ Held' = Held \cup {c} /\ fat1[c] = FREE
      /\ \A d \in Clusters : Referenced(fat1', View', d) <=> Referenced(fat1, View, d)
      /\ \A d \in Clusters : fat1'[d] = IF d = c THEN EOC ELSE fat1[d]
  BY TakenShape DEF Typed, Fats
<1>2. entry' = entry /\ owned' = owned /\ \A n \in Names : Keeps(n)' = Keeps(n)
  BY DEF AllocAt, Keeps, Walking, For, Point, Orderly, Control
<1>3. ASSUME NEW d \in Clusters, Lost(d)
      PROVE  Lost(d)'
  BY <1>1, <1>3 DEF Lost
<1>4. ASSUME NEW n \in Names, Present(View, n)
      PROVE  Apart(n)'
  <2>1. /\ Apart(n) /\ Keeps(n) \subseteq Clusters /\ owned[n] \subseteq Clusters
        /\ \A d \in Keeps(n) : fat1[d] # FREE
    BY <1>4, KeptFacts
  <2>2. \A d \in Clusters : fat1[d] \in Clusters => fat1'[d] = fat1[d] /\ d # c
    BY <1>1, Constants
  <2>3. \A d \in owned'[n] : d = entry'[n].start \/ \E b \in Clusters : fat1'[b] = d
    BY <1>2, <2>1, <2>2 DEF Apart
  <2>4. \A d \in Clusters : fat1'[d] \in Keeps(n)' => d \in Keeps(n)' \/ Lost(d)'
    BY <1>1, <1>2, <1>3, <2>1, Constants DEF Apart
  <2>5. \A d \in Keeps(n)' : IsCluster(fat1'[d]) => fat1'[d] \in Keeps(n)'
    BY <1>1, <1>2, <2>1 DEF Apart
  <2> QED BY <1>1, <1>2, <2>1, <2>3, <2>4, <2>5 DEF Apart
<1> QED BY <1>1, <1>4 DEF Kept

\* Giving up loses the clusters held, never those of a file.
LEMMA NoSpaceKept ==
    ASSUME Typed, Orderly, VolumeTidy, Kept, AllocNoSpace
    PROVE  Kept'
<1>1. /\ View' = entry /\ entry' = entry /\ Held' = {} /\ fat1' = fat1
      /\ \A c : Referenced(fat1', View', c) => Referenced(fat1, View, c)
  BY NoSpaceShape
<1>2. owned' = owned /\ \A n \in Names : Keeps(n)' = owned[n]
  BY DEF AllocNoSpace, Keeps, Walking, For, Point
<1>3. ASSUME NEW c, Lost(c)
      PROVE  Lost(c)'
  BY <1>1, <1>3 DEF Lost
<1>4. ASSUME NEW n \in Names, Present(entry, n)
      PROVE  Present(View, n)
  <2>1. ~Detached
    BY DEF Detached, Point, AllocNoSpace
  <2>2. CASE Walking
    <3>1. op.name \in Names /\ Present(entry, op.name) /\ start \in Clusters
          /\ entry \in Directories /\ View = WithStart(entry, op.name, start)
      BY <2>1, <2>2 DEF Orderly, Named, Control, Typed, View
    <3> QED BY <1>4, <3>1, EntryStarted DEF Present
  <2>3. CASE ~Walking
    BY <1>4, <2>1, <2>3 DEF View
  <2> QED BY <2>2, <2>3
<1>5. ASSUME NEW n \in Names, Present(entry, n)
      PROVE  Apart(n)'
  <2>1. /\ Present(View, n) /\ Apart(n) /\ Keeps(n) \subseteq Clusters
        /\ owned[n] \subseteq Keeps(n)
        /\ \A d \in Keeps(n) : fat1[d] # FREE /\ d # Root
    BY <1>4, <1>5, KeptFacts
  <2>2. ASSUME NEW c \in Keeps(n), c \notin owned[n]
        PROVE  Lost(c)' /\ \A d \in Clusters : fat1[d] # c
    <3>1. Walking /\ n = op.name /\ c = start
      BY <2>2 DEF Keeps
    <3>2. entry[n].start = Empty /\ View[n].start = start /\ c \in Clusters
      BY <1>5, <2>1, <2>2, <3>1, ViewOf DEF Apart
    <3>3. n \in Started(View)
      BY <2>1, <3>1, <3>2, Constants DEF Started
    <3>4. ASSUME NEW m \in Started(entry)
          PROVE  entry[m].start # c
      <4>1. m # n /\ m \in Names /\ Present(entry, m) /\ entry[m].start # Empty
        BY <3>2, <3>4 DEF Started
      <4>2. Present(View, m) /\ View[m].start = entry[m].start
        BY <1>4, <3>1, <4>1, ViewOf
      <4>3. m \in Started(View)
        BY <4>1, <4>2 DEF Started
      <4> QED BY <3>1, <3>2, <3>3, <4>1, <4>2, <4>3 DEF VolumeTidy, Tidy, Sound
    <3>5. \A d \in Clusters : fat1[d] # c
      BY <3>1, <3>2, <3>3 DEF VolumeTidy, Tidy, Sound, Linked, IsCluster
    <3>6. ~Referenced(fat1, entry, c)
      BY <2>1, <3>4, <3>5 DEF Referenced, Linked
    <3> QED BY <1>1, <2>1, <3>5, <3>6 DEF Lost
  <2>3. \A c \in Clusters : fat1'[c] \in Keeps(n)' => c \in Keeps(n)' \/ Lost(c)'
    BY <1>1, <1>2, <1>3, <2>1, <2>2 DEF Apart
  <2>4. \A c \in Keeps(n)' : IsCluster(fat1'[c]) => fat1'[c] \in Keeps(n)'
    BY <1>1, <1>2, <2>1, <2>2 DEF Apart
  <2>5. ASSUME NEW m \in Names \ {n}, Present(View', m)
        PROVE  Keeps(m)' \cap Keeps(n)' = {}
    <3>1. Present(View, m)
      BY <1>1, <1>4, <2>5
    <3>2. owned[m] \subseteq Keeps(m)
      BY DEF Keeps
    <3> QED BY <1>2, <2>1, <3>1, <3>2 DEF Apart
  <2> QED BY <1>1, <1>2, <2>1, <2>3, <2>4, <2>5 DEF Apart
<1> QED BY <1>1, <1>5 DEF Kept

\* The freeing loop never reaches the clusters of a file in the view.
LEMMA FreedKept ==
    ASSUME Typed, Orderly, VolumeTidy, Ends, Kept, Cursor, FreeNext
    PROVE  Kept'
<1> DEFINE S == After(fat1, cur)
<1>1. /\ View' = View /\ Held' = (Held \ {cur}) \cup S /\ cur \in Held /\ cur \in Clusters
      /\ \A b : Referenced(fat1', View', b) => Referenced(fat1, View, b)
      /\ \A d \in Clusters : fat1'[d] = IF d = cur THEN FREE ELSE fat1[d]
  BY FreedShape DEF Typed, Fats
<1>2. /\ entry' = entry /\ owned' = owned /\ Point = "free"
      /\ \A n \in Names : Keeps(n)' = owned[n] /\ Keeps(n) = owned[n]
  BY DEF FreeNext, FreeRound, Keeps, Walking, For, Point, Orderly, Control
<1>3. ASSUME NEW d \in Clusters, d # cur, Lost(d)
      PROVE  Lost(d)'
  <2>1. d \notin S
    BY <1>1, <1>3 DEF Lost, After, Referenced, Linked
  <2> QED BY <1>1, <1>3, <2>1 DEF Lost
<1>4. ASSUME NEW n \in Names, Present(View, n)
      PROVE  Apart(n)'
  <2>1. /\ Apart(n) /\ owned[n] \subseteq Clusters /\ cur \notin owned[n]
    BY <1>2, <1>4 DEF Kept, Typed, Cursor
  <2>2. fat1[cur] \notin owned[n]
    BY <1>1, <1>2, <1>4, <2>1, Outside
  <2>3. \A d \in owned'[n] : d = entry'[n].start \/ \E b \in Clusters : fat1'[b] = d
    <3>1. ASSUME NEW d \in owned[n], NEW b \in Clusters, fat1[b] = d
          PROVE  fat1'[b] = d
      BY <1>1, <2>2, <3>1
    <3> QED BY <1>2, <2>1, <3>1 DEF Apart
  <2>4. \A d \in Clusters : fat1'[d] \in Keeps(n)' => d \in Keeps(n)' \/ Lost(d)'
    BY <1>1, <1>2, <1>3, <2>1, Constants DEF Apart
  <2>5. \A d \in Keeps(n)' : IsCluster(fat1'[d]) => fat1'[d] \in Keeps(n)'
    BY <1>1, <1>2, <2>1 DEF Apart
  <2> QED BY <1>1, <1>2, <2>1, <2>3, <2>4, <2>5 DEF Apart
<1> QED BY <1>1, <1>4 DEF Kept

\* A cluster is held until the file that gets it refers to it: the creation of
\* an entry, the replacement of a chain and the first write to an empty file.
LEMMA AcquiredKept ==
    ASSUME Typed, Orderly, VolumeTidy, Kept, NEW n \in Names,
           NEW s \in Held, fat1[s] = EOC,
           fat1' = fat1, Held' = Held \ {s},
           \A b : Referenced(fat1', View', b) <=> Referenced(fat1, View, b) \/ b = s,
           \A m \in Names \ {n} :
              /\ Present(View', m) <=> Present(View, m)
              /\ entry'[m] = entry[m] /\ owned'[m] = owned[m] /\ Keeps(m)' = Keeps(m),
           Keeps(n)' = {s}, owned'[n] \subseteq {s},
           s \in owned'[n] <=> entry'[n].start = s, entry'[n].start \in {Empty, s}
    PROVE  Kept'
<1>1. /\ s \in Clusters /\ ~Referenced(fat1, View, s) /\ s # Empty
      /\ \A d \in Clusters : fat1[d] # s
  BY Constants DEF VolumeTidy, Tidy, Referenced, Linked, IsCluster
<1>2. ASSUME NEW d \in Clusters, Lost(d)
      PROVE  Lost(d)'
  BY <1>2 DEF Lost
<1>3. ASSUME NEW m \in Names \ {n}, Present(View', m)
      PROVE  Apart(m)'
  <2>1. /\ Present(View, m) /\ Apart(m) /\ s \notin Keeps(m) /\ Keeps(m)' = Keeps(m)
        /\ owned'[m] = owned[m] /\ entry'[m] = entry[m]
    BY <1>3, KeptFacts
  <2>2. ASSUME NEW k \in Names \ {m}, Present(View', k)
        PROVE  Keeps(k)' \cap Keeps(m)' = {}
    BY <2>1, <2>2 DEF Apart
  <2>3. \A d \in Clusters : fat1'[d] \in Keeps(m)' => d \in Keeps(m)' \/ Lost(d)'
    BY <1>2, <2>1 DEF Apart
  <2> QED BY <2>1, <2>2, <2>3 DEF Apart
<1>4. ASSUME Present(View', n)
      PROVE  Apart(n)'
  <2>1. ASSUME NEW k \in Names \ {n}, Present(View', k)
        PROVE  Keeps(k)' \cap Keeps(n)' = {}
    <3>1. s \notin Keeps(k)
      BY <2>1, KeptFacts
    <3> QED BY <3>1
  <2>2. \A d \in Clusters : fat1'[d] \in Keeps(n)' => d \in Keeps(n)' \/ Lost(d)'
    BY <1>1
  <2>3. \A d \in Keeps(n)' : IsCluster(fat1'[d]) => fat1'[d] \in Keeps(n)'
    BY Constants DEF IsCluster
  <2> QED BY <1>1, <2>1, <2>2, <2>3 DEF Apart
<1> QED BY <1>3, <1>4 DEF Kept

\* A new entry keeps the other files their clusters.
LEMMA CreatedKept ==
    ASSUME Typed, Orderly, VolumeTidy, Ends, Kept, WriteEntry, op.kind = "create"
    PROVE  Kept'
<1>0. PICK n \in Names : n = op.name
  BY DEF WriteEntry, Orderly, Named, Scanning, Point
<1>1. /\ View = entry /\ View' = entry' /\ Held = {start} /\ Held' = Held \ {start}
      /\ fat1' = fat1 /\ entry'[n].start = start
      /\ \A m \in Names \ {n} : entry'[m] = entry[m]
      /\ \A b : Referenced(fat1', View', b) <=> Referenced(fat1, View, b) \/ b = start
  BY <1>0, CreatedShape
<1>2. /\ fat1[start] = EOC
      /\ owned' = [owned EXCEPT ![n] = {start}]
      /\ \A m \in Names : Keeps(m) = owned[m] /\ Keeps(m)' = owned'[m]
  BY <1>0 DEF WriteEntry, Ends, Begun, Scanning, Keeps, Walking, For, Point, Call
<1>3. owned'[n] = {start} /\ \A m \in Names \ {n} : owned'[m] = owned[m]
  BY <1>1, <1>2 DEF Typed
<1>4. /\ start \in Held /\ Keeps(n)' = {start}
      /\ \A m \in Names \ {n} :
            /\ Present(View', m) <=> Present(View, m)
            /\ Keeps(m)' = Keeps(m)
  BY <1>1, <1>2, <1>3 DEF Present
<1> QED BY <1>1, <1>2, <1>3, <1>4, AcquiredKept

\* The end of a truncation keeps the other files their clusters.
LEMMA ReplaceKept ==
    ASSUME Typed, Orderly, VolumeTidy, Ends, Kept, Replace
    PROVE  Kept'
<1>0. PICK n \in Names : n = op.name
  BY DEF Replace, Orderly, Named, Detached, Point
<1>1. /\ View' = entry' /\ Held = {new} /\ Held' = Held \ {new}
      /\ fat1' = fat1 /\ entry'[n].start = new
      /\ \A m \in Names \ {n} : entry'[m] = entry[m] /\ View[m] = entry[m]
      /\ \A b : Referenced(fat1', View', b) <=> Referenced(fat1, View, b) \/ b = new
  BY <1>0, ReplaceShape
<1>2. /\ fat1[new] = EOC
      /\ owned' = [owned EXCEPT ![n] = {new}]
      /\ \A m \in Names : Keeps(m) = owned[m] /\ Keeps(m)' = owned'[m]
  BY <1>0 DEF Replace, Ends, Fresh, Keeps, Walking, For, Point, Call
<1>3. owned'[n] = {new} /\ \A m \in Names \ {n} : owned'[m] = owned[m]
  BY <1>1, <1>2 DEF Typed
<1>4. /\ new \in Held /\ Keeps(n)' = {new}
      /\ \A m \in Names \ {n} :
            /\ Present(View', m) <=> Present(View, m)
            /\ Keeps(m)' = Keeps(m)
  BY <1>1, <1>2, <1>3 DEF Present
<1> QED BY <1>1, <1>2, <1>3, <1>4, AcquiredKept

\* A longer directory keeps every file its clusters.
LEMMA LinkDirKept ==
    ASSUME Typed, Orderly, VolumeTidy, Ends, Kept, Cursor, LinkDir
    PROVE  Kept'
<1>1. fat1[cur] = EOC /\ Referenced(fat1, View, cur) /\ cur \in Clusters
      /\ \A n \in Names : Present(View, n) => cur \notin Keeps(n)
  BY DEF LinkDir, Cursor, Scanning, For, Point, Typed
<1>2. /\ View' = View /\ Held' = Held \ {new} /\ new \in Held
      /\ \A d \in Clusters : fat1'[d] = IF d = cur THEN new ELSE fat1[d]
      /\ \A b \in Clusters : Referenced(fat1', View', b) <=> Referenced(fat1, View, b) \/ b = new
  BY <1>1, LinkDirShape DEF Typed, Fats
<1>3. entry' = entry /\ owned' = owned /\ \A n \in Names : Keeps(n)' = Keeps(n)
  BY DEF LinkDir, Keeps, Walking, For, Point, Call
<1>4. ASSUME NEW d \in Clusters, Lost(d)
      PROVE  Lost(d)'
  BY <1>1, <1>2, <1>4 DEF Lost
<1>5. ASSUME NEW n \in Names, Present(View, n)
      PROVE  Apart(n)'
  <2>1. /\ Apart(n) /\ Keeps(n) \subseteq Clusters /\ owned[n] \subseteq Clusters
        /\ new \notin Keeps(n) /\ cur \notin Keeps(n)
    BY <1>1, <1>2, <1>5, KeptFacts
  <2>2. \A d \in owned'[n] : d = entry'[n].start \/ \E b \in Clusters : fat1'[b] = d
    <3>1. ASSUME NEW d \in owned[n], NEW b \in Clusters, fat1[b] = d
          PROVE  fat1'[b] = d
      BY <1>1, <1>2, <2>1, <3>1, Constants
    <3> QED BY <1>3, <2>1, <3>1 DEF Apart
  <2>3. \A d \in Clusters : fat1'[d] \in Keeps(n)' => d \in Keeps(n)' \/ Lost(d)'
    BY <1>2, <1>3, <1>4, <2>1 DEF Apart
  <2>4. \A d \in Keeps(n)' : IsCluster(fat1'[d]) => fat1'[d] \in Keeps(n)'
    BY <1>2, <1>3, <2>1 DEF Apart
  <2> QED BY <1>2, <1>3, <2>1, <2>2, <2>3, <2>4 DEF Apart
<1> QED BY <1>2, <1>5 DEF Kept

\* A write that adds a cluster keeps the file the others.
LEMMA LinkKept ==
    ASSUME Typed, Orderly, VolumeTidy, Ends, Kept, Cursor, Link
    PROVE  Kept'
<1>0. PICK k \in Names : k = op.name
  BY DEF Link, Orderly, Named, Walking, For, Point
<1>1. /\ fat1[cur] = EOC /\ cur \in Clusters /\ cur \in Keeps(k)
      /\ fat1[new] = EOC /\ new \in Clusters
  BY <1>0 DEF Link, Cursor, Walking, For, Point, Typed, Orderly, Named, Ends, Fresh
<1>2. /\ View' = View /\ Held' = Held \ {new} /\ new \in Held
      /\ \A d \in Clusters : fat1'[d] = IF d = cur THEN new ELSE fat1[d]
      /\ \A b \in Clusters : Referenced(fat1', View', b) <=> Referenced(fat1, View, b) \/ b = new
  BY <1>1, LinkShape DEF Typed, Fats
<1>3. \A d \in Clusters : fat1[d] # new
  BY <1>1, <1>2 DEF VolumeTidy, Tidy, Referenced, Linked, IsCluster
<1>4. /\ entry' = entry
      /\ owned'[k] = owned[k] \cup {new}
      /\ \A n \in Names \ {k} : owned'[n] = owned[n]
  BY <1>0 DEF Link, Typed
<1>5. /\ Keeps(k)' = Keeps(k) \cup {new}
      /\ \A n \in Names \ {k} : Keeps(n)' = Keeps(n)
  BY <1>0, <1>4 DEF Link, Keeps, Walking, For, Point, Call
<1>6. Present(View, k)
  <2>1. Present(entry, k) /\ entry \in Directories /\ start \in {Empty} \cup Clusters
        /\ View = WithStart(entry, k, start)
    BY <1>0 DEF Link, Orderly, Named, Walking, For, Point, Typed, View, Detached
  <2> QED BY <2>1, EntryStarted
<1>7. cur # new /\ \A n \in Names : Present(View, n) => new \notin Keeps(n)
  BY <1>1, <1>2, <1>6, KeptFacts
<1>8. ASSUME NEW d \in Clusters, Lost(d)
      PROVE  Lost(d)'
  <2>1. d # cur
    BY <1>1, <1>6, <1>8, KeptFacts DEF Lost
  <2> QED BY <1>2, <1>8, <2>1 DEF Lost
<1>9. ASSUME NEW n \in Names \ {k}, Present(View, n)
      PROVE  Apart(n)'
  <2>1. /\ Apart(n) /\ Keeps(n) \subseteq Clusters /\ owned[n] \subseteq Clusters
        /\ new \notin Keeps(n)
    BY <1>7, <1>9, KeptFacts
  <2>2. cur \notin Keeps(n)
    BY <1>1, <1>6, <2>1 DEF Apart
  <2>3. \A d \in owned'[n] : d = entry'[n].start \/ \E b \in Clusters : fat1'[b] = d
    <3>1. ASSUME NEW d \in owned[n], NEW b \in Clusters, fat1[b] = d
          PROVE  fat1'[b] = d
      BY <1>1, <1>2, <2>1, <3>1, Constants
    <3> QED BY <1>4, <2>1, <3>1 DEF Apart
  <2>4. \A d \in Clusters : fat1'[d] \in Keeps(n)' => d \in Keeps(n)' \/ Lost(d)'
    BY <1>2, <1>5, <1>8, <2>1 DEF Apart
  <2>5. \A d \in Keeps(n)' : IsCluster(fat1'[d]) => fat1'[d] \in Keeps(n)'
    BY <1>2, <1>5, <2>1, <2>2 DEF Apart
  <2>6. ASSUME NEW m \in Names \ {n}, Present(View', m)
        PROVE  Keeps(m)' \cap Keeps(n)' = {}
    <3>1. Keeps(m) \cap Keeps(n) = {}
      BY <1>2, <2>1, <2>6 DEF Apart
    <3> QED BY <1>5, <2>1, <3>1
  <2> QED BY <1>4, <2>1, <2>3, <2>4, <2>5, <2>6 DEF Apart
<1>10. Apart(k)'
  <2>1. /\ Apart(k) /\ Keeps(k) \subseteq Clusters /\ owned[k] \subseteq Clusters
    BY <1>1, <1>6, KeptFacts
  <2>2. \A d \in owned'[k] : d = entry'[k].start \/ \E b \in Clusters : fat1'[b] = d
    <3>1. ASSUME NEW d \in owned[k], NEW b \in Clusters, fat1[b] = d
          PROVE  fat1'[b] = d
      BY <1>1, <1>2, <2>1, <3>1, Constants
    <3>2. fat1'[cur] = new
      BY <1>1, <1>2
    <3> QED BY <1>1, <1>4, <2>1, <3>1, <3>2 DEF Apart
  <2>3. \A d \in Clusters : fat1'[d] \in Keeps(k)' => d \in Keeps(k)' \/ Lost(d)'
    <3>1. ASSUME NEW d \in Clusters, d # cur, fat1'[d] \in Keeps(k)'
          PROVE  d \in Keeps(k) \/ Lost(d)'
      BY <1>2, <1>3, <1>5, <1>8, <2>1, <3>1 DEF Apart
    <3> QED BY <1>1, <1>5, <3>1
  <2>4. \A d \in Keeps(k)' : IsCluster(fat1'[d]) => fat1'[d] \in Keeps(k)'
    <3>1. ASSUME NEW d \in Keeps(k), d # cur, IsCluster(fat1'[d])
          PROVE  fat1'[d] \in Keeps(k)
      BY <1>2, <2>1, <3>1 DEF Apart
    <3>2. fat1'[cur] = new /\ fat1'[new] = EOC /\ ~IsCluster(EOC)
      BY <1>1, <1>2, <1>7, Constants DEF IsCluster
    <3> QED BY <1>5, <3>1, <3>2
  <2>5. ASSUME NEW m \in Names \ {k}, Present(View', m)
        PROVE  Keeps(m)' \cap Keeps(k)' = {}
    <3>1. Keeps(m) \cap Keeps(k) = {} /\ new \notin Keeps(m)
      BY <1>2, <1>7, <2>1, <2>5 DEF Apart
    <3> QED BY <1>5, <3>1
  <2>6. entry'[k].start # Empty => entry'[k].start \in owned'[k]
    BY <1>4, <2>1 DEF Apart
  <2> QED BY <2>2, <2>3, <2>4, <2>5, <2>6 DEF Apart
<1> QED BY <1>1, <1>2, <1>9, <1>10 DEF Kept

\* A first cluster keeps the other files theirs.
LEMMA ZeroForWriteKept ==
    ASSUME Typed, Orderly, VolumeTidy, Ends, Kept, ZeroFirst, op.kind # "create"
    PROVE  Kept'
<1>0. PICK k \in Names : k = op.name
  BY DEF ZeroFirst, Orderly, Named, For, Point
<1>1. /\ View = entry /\ Held = {new} /\ Held' = {}
      /\ fat1' = fat1 /\ Present(entry, k) /\ entry[k].start = Empty
      /\ Present(View', k)
      /\ \A m \in Names \ {k} : View'[m] = entry[m]
      /\ \A b : Referenced(fat1', View', b) <=> Referenced(fat1, View, b) \/ b = new
  BY <1>0, ZeroForWriteShape
<1>2. /\ fat1[new] = EOC /\ new \in Clusters /\ entry' = entry /\ owned' = owned
      /\ \A m \in Names : Keeps(m) = owned[m]
      /\ Keeps(k)' = owned[k] \cup {new}
      /\ \A m \in Names \ {k} : Keeps(m)' = owned[m]
  BY <1>0 DEF ZeroFirst, Ends, Fresh, Keeps, Walking, For, Point, Call, cached, Typed
<1>3. \A d \in Clusters : fat1[d] # new
  BY <1>1, <1>2 DEF VolumeTidy, Tidy, Referenced, Linked, IsCluster
<1>4. ASSUME NEW d \in Clusters, Lost(d)
      PROVE  Lost(d)'
  BY <1>1, <1>4 DEF Lost
<1>5. \A m \in Names : Present(View', m) => Present(View, m)
  BY <1>1 DEF Present
<1>6. ASSUME NEW m \in Names, Present(View', m)
      PROVE  Apart(m)'
  <2>1. /\ Apart(m) /\ new \notin Keeps(m)
    BY <1>1, <1>5, <1>6, KeptFacts
  <2>2. \A d \in Clusters : fat1'[d] \in Keeps(m)' => d \in Keeps(m)' \/ Lost(d)'
    BY <1>1, <1>2, <1>3, <1>4, <2>1 DEF Apart
  <2>3. \A d \in Keeps(m)' : IsCluster(fat1'[d]) => fat1'[d] \in Keeps(m)'
    BY <1>1, <1>2, <2>1, Constants DEF Apart, IsCluster
  <2>4. ASSUME NEW j \in Names \ {m}, Present(View', j)
        PROVE  Keeps(j)' \cap Keeps(m)' = {}
    <3>1. Keeps(j) \cap Keeps(m) = {} /\ new \notin Keeps(j)
      BY <1>1, <1>5, <2>1, <2>4, KeptFacts DEF Apart
    <3> QED BY <1>2, <2>1, <3>1
  <2> QED BY <1>1, <1>2, <2>1, <2>2, <2>3, <2>4 DEF Apart
<1> QED BY <1>6 DEF Kept

\* The clusters of a renamed file go with it.
LEMMA RenamedKept ==
    ASSUME Typed, Orderly, VolumeTidy, Kept, WriteEntry, op.kind = "rename"
    PROVE  Kept'
<1>0. PICK k \in Names, t \in Names : k = op.name /\ t = op.to
  BY RenamedShape
<1>1. /\ View = entry /\ Held' = Held /\ fat1' = fat1 /\ t # k
      /\ Present(entry, k) /\ entry[k].start = start
      /\ ~Present(View', k) /\ entry'[t].start = start
      /\ \A m \in Names \ {k, t} : View'[m] = entry[m] /\ entry'[m] = entry[m]
      /\ \A b : Referenced(fat1', View', b) <=> Referenced(fat1, View, b)
  BY <1>0, RenamedShape
<1>2. /\ \A m \in Names : Keeps(m) = owned[m] /\ Keeps(m)' = owned'[m]
      /\ owned' = [owned EXCEPT ![t] = owned[k]]
  BY <1>0 DEF WriteEntry, Scanning, Keeps, Walking, For, Point, Call
<1>3. owned'[t] = owned[k] /\ \A m \in Names \ {t} : owned'[m] = owned[m]
  BY <1>2 DEF Typed
<1>4. \A d : Lost(d)' = Lost(d)
  BY <1>1 DEF Lost
<1>5. \A m \in Names \ {t} : Present(View', m) => m # k /\ Present(View, m)
  BY <1>1 DEF Present
<1>6. ASSUME NEW m \in Names \ {t}, Present(View', m)
      PROVE  Apart(m)'
  <2>1. /\ Apart(m) /\ m # k /\ entry'[m] = entry[m]
    BY <1>1, <1>5, <1>6, KeptFacts
  <2>2. \A j \in Names \ {m} : Present(View', j) => Keeps(j)' \cap Keeps(m)' = {}
    BY <1>1, <1>2, <1>3, <1>5, <2>1 DEF Apart
  <2>3. Keeps(m)' = Keeps(m) /\ owned'[m] = owned[m]
    BY <1>2, <1>3
  <2> QED BY <1>1, <1>4, <2>1, <2>2, <2>3 DEF Apart
<1>7. Apart(t)'
  <2>1. Apart(k)
    BY <1>1 DEF Kept
  <2>2. \A j \in Names \ {t} : Present(View', j) => Keeps(j)' \cap Keeps(t)' = {}
    BY <1>2, <1>3, <1>5, <2>1 DEF Apart
  <2>3. Keeps(t)' = Keeps(k)
    BY <1>2, <1>3
  <2> QED BY <1>1, <1>3, <1>4, <2>1, <2>2, <2>3 DEF Apart
<1> QED BY <1>6, <1>7 DEF Kept

\* A file that is deleted or truncated leaves the view, with its first cluster
\* held.
LEMMA DetachedKept ==
    ASSUME Typed, Orderly, VolumeTidy, Kept, NEW n \in Names,
           fat1' = fat1, entry' = entry, owned' = owned, View = entry,
           View' = Without(entry, n), Held' = Held \cup StartOf(entry, n),
           \A b : Referenced(fat1', View', b) => Referenced(fat1, View, b),
           \A m \in Names : Keeps(m)' = Keeps(m)
    PROVE  Kept'
<1>1. \A m \in Names : Present(View', m) => Present(View, m)
  BY DEF Without, Present, Typed, Directories
<1>2. ASSUME NEW d, Lost(d)
      PROVE  Lost(d)'
  <2>1. d \notin StartOf(entry, n)
    BY <1>2 DEF Lost, StartOf, Referenced
  <2> QED BY <1>2, <2>1 DEF Lost
<1>3. ASSUME NEW m \in Names, Present(View', m)
      PROVE  Apart(m)'
  <2>1. Apart(m)
    BY <1>1, <1>3 DEF Kept
  <2>2. \A j \in Names \ {m} : Present(View', j) => Keeps(j)' \cap Keeps(m)' = {}
    BY <1>1, <2>1 DEF Apart
  <2>3. \A d \in Clusters : fat1'[d] \in Keeps(m)' => d \in Keeps(m)' \/ Lost(d)'
    BY <1>2, <2>1 DEF Apart
  <2> QED BY <2>1, <2>2, <2>3 DEF Apart
<1> QED BY <1>3 DEF Kept

\* A deletion takes only the clusters of the file it deletes.
LEMMA DeleteKept ==
    ASSUME Typed, Orderly, VolumeTidy, Kept, NEW n \in Names, Delete(n)
    PROVE  Kept'
<1>1. /\ fat1' = fat1 /\ View = entry /\ View' = Without(entry, n)
      /\ Held' = Held \cup StartOf(entry, n)
      /\ \A b : Referenced(fat1', View', b) => Referenced(fat1, View, b)
  BY DeleteShape
<1>2. entry' = entry /\ owned' = owned
  BY DEF Delete, Begin, cached
<1>3. \A m \in Names : Keeps(m)' = Keeps(m)
  BY DEF Delete, Begin, Keeps, Walking, For, Point, Goto
<1> QED BY <1>1, <1>2, <1>3, DetachedKept

\* A truncation takes only the clusters of the file it truncates.
LEMMA FreeOldKept ==
    ASSUME Typed, Orderly, VolumeTidy, Kept, FreeOld
    PROVE  Kept'
<1>0. PICK n \in Names : n = op.name
  BY FreeOldShape
<1>1. /\ fat1' = fat1 /\ View = entry /\ View' = Without(entry, n)
      /\ Held' = Held \cup StartOf(entry, n)
      /\ \A b : Referenced(fat1', View', b) => Referenced(fat1, View, b)
  BY <1>0, FreeOldShape
<1>2. entry' = entry /\ owned' = owned
  BY DEF FreeOld, cached
<1>3. \A m \in Names : Keeps(m)' = Keeps(m)
  BY DEF FreeOld, Keeps, Walking, For, Point, Goto, Call
<1> QED BY <1>1, <1>2, <1>3, DetachedKept

\* Every other step keeps every file its clusters.
LEMMA ShiftKept ==
    ASSUME Typed, Orderly, VolumeTidy, Ends, Kept, Cursor, ShiftStep
    PROVE  Kept'
BY TakenKept, NoSpaceKept, FreedKept, CreatedKept, RenamedKept, LinkDirKept, LinkKept,
   DeleteKept, FreeOldKept, ReplaceKept, ZeroForWriteKept
DEF ShiftStep

-----------------------------------------------------------------------------
(* The free count and the device. *)

\* The cluster about to be freed is in use: it has not been counted.
LEMMA EnoughSpare ==
    ASSUME Typed, VolumeTidy, Counted
    PROVE  Spare
<1> SUFFICES ASSUME pc = "free" PROVE freeCount + freed < NClusters
  BY DEF Spare
<1>1. cur \in Held
  BY DEF Held, Point
<1>2. cur \in Clusters /\ fat1[cur] # FREE /\ fat1 \in Fats
  BY <1>1 DEF VolumeTidy, Tidy, Typed
<1>3. Cardinality(FreeIn(fat1)) < NClusters
  BY <1>2, FreeGiven
<1> QED BY <1>3 DEF Counted, FreeCountExact

\* Every step counts what it takes and what it frees.
LEMMA StepCounted ==
    ASSUME Typed, Orderly, VolumeTidy, Ends, Cursor, Counted, Stored,
           StillStep \/ ShiftStep
    PROVE  Counted'
<1> USE DEF Counted, FreeCountExact
<1>1. CASE StillStep
  <2>1. fat1' = fat1
    BY <1>1, StillSteps DEF Still
  <2>2. freeCount' = freeCount /\ freed' = freed /\ (pc' = "free" => pc = "free")
    BY <1>1 DEF StillStep, Persist, Barrier, Flush, ScanNext, ScanOn, WalkNext, WalkOn,
       Sync, MarkDeleted, SyncEntry, ZeroFirst, Create, NewFile, Truncate, Write, Rename, NewName, Begin,
       Call, Goto, counts, locals, Orderly, Control
  <2>3. pc = "free" => pc' = "free"
    BY <1>1 DEF StillStep, Persist, Barrier, Flush, ScanNext, ScanOn, WalkNext, WalkOn,
       Sync, MarkDeleted, SyncEntry, ZeroFirst, Create, NewFile, Truncate, Write, Rename, NewName, Begin
  <2> QED BY <2>1, <2>2, <2>3
<1>2. ASSUME NEW c \in Clusters, AllocAt(c)
      PROVE  Counted'
  <2>1. /\ pc = "alloc" /\ pc' = "barrier" /\ freed' = freed /\ fat1 \in Fats
        /\ freeCount' = IF freeCount # 0 THEN freeCount - 1 ELSE 0
        /\ fat1[c] = FREE /\ fat1' = [fat1 EXCEPT ![c] = EOC]
    BY <1>2, TakenShape DEF AllocAt, Take, Typed
  <2>2. /\ Cardinality(FreeIn(fat1)) > 0
        /\ Cardinality(FreeIn(fat1')) = Cardinality(FreeIn(fat1)) - 1
    BY <2>1, FreeTaken
  <2> QED BY <2>1, <2>2 DEF Typed
<1>3. CASE AllocNoSpace
  BY <1>3 DEF AllocNoSpace, cached, counts, locals
<1>4. CASE FreeNext
  <2>1. fat1' = [fat1 EXCEPT ![cur] = FREE] /\ fat1[cur] # FREE /\ fat1 \in Fats /\ cur \in Clusters
    BY <1>4, FreedShape DEF Typed
  <2>2. Cardinality(FreeIn(fat1')) = Cardinality(FreeIn(fat1)) + 1
    BY <2>1, FreeGiven
  <2>3. \/ freeCount' = freeCount /\ freed' = freed + 1 /\ pc' = "free"
        \/ freeCount' = freeCount + freed + 1 /\ freed' = 0
    BY <1>4 DEF FreeNext, FreeRound, counts
  <2> QED BY <2>2, <2>3 DEF Typed
<1>5. CASE LinkDir \/ Link
  <2>1. fat1' = [fat1 EXCEPT ![cur] = new] /\ fat1[cur] = EOC /\ fat1 \in Fats
        /\ cur \in Clusters /\ new \in Clusters
    BY <1>5 DEF LinkDir, Link, WriteFat, Cursor, For, Point, Typed
  <2>2. FreeIn(fat1') = FreeIn(fat1)
    BY <2>1, FreeSame, Constants
  <2>3. freeCount' = freeCount /\ freed' = freed /\ pc # "free" /\ pc' # "free"
    BY <1>5 DEF LinkDir, Link, Call, counts
  <2> QED BY <2>2, <2>3
<1>6. CASE WriteEntry \/ Replace \/ ZeroFirst
  BY <1>6 DEF WriteEntry, Replace, ZeroFirst, Call, counts, locals, cached
<1>7. CASE FreeOld \/ \E n \in Names : Delete(n)
  BY <1>7 DEF FreeOld, Delete, Begin, Call, Goto, counts, cached
<1> QED BY <1>1, <1>2, <1>3, <1>4, <1>5, <1>6, <1>7 DEF ShiftStep

\* Every operation waits for the device before it ends.
LEMMA StepStored ==
    ASSUME Typed, Orderly, Stored, StillStep \/ ShiftStep
    PROVE  Stored'
<1> USE DEF Stored, Clean, cached, device, content, counts, locals, Call, Goto
<1>1. CASE Persist
  <2>1. ~Clean
    BY <1>1 DEF Persist, PersistFat1, PersistFat2, PersistEntry, PersistZero
  <2>2. fat1' = fat1 /\ fat2' = fat2 /\ info' = info /\ pc' = pc /\ freeCount' = freeCount
        /\ nextFree' = nextFree
    BY <1>1 DEF Persist
  <2> QED BY <2>1, <2>2
<1>2. CASE Barrier
  BY <1>2 DEF Barrier
<1>3. CASE Flush
  BY <1>3 DEF Flush
<1>4. CASE ScanNext \/ WalkNext \/ Sync \/ AllocNoSpace
  BY <1>4 DEF ScanNext, ScanOn, WalkNext, WalkOn, Sync, Begin, AllocNoSpace
<1>5. CASE MarkDeleted \/ SyncEntry \/ WriteEntry \/ Replace \/ ZeroFirst \/ FreeOld
  BY <1>5 DEF MarkDeleted, SyncEntry, WriteEntry, Replace, ZeroFirst, FreeOld
<1>6. CASE LinkDir \/ Link
  BY <1>6 DEF LinkDir, Link, WriteFat
<1>7. ASSUME NEW c \in Clusters, AllocAt(c)
      PROVE  Stored'
  BY <1>7 DEF AllocAt, Take, WriteFat
<1>8. CASE FreeNext
  BY <1>8 DEF FreeNext, FreeRound, WriteFat
<1>9. ASSUME NEW n \in Names,
             Create(n) \/ Truncate(n) \/ Delete(n)
             \/ (\E i \in 0 .. MaxIndex : Write(n, i)) \/ \E m \in Names : Rename(n, m)
      PROVE  Stored'
  BY <1>9 DEF Create, NewFile, Truncate, Delete, Write, Rename, NewName, Begin
<1> QED BY <1>1, <1>2, <1>3, <1>4, <1>5, <1>6, <1>7, <1>8, <1>9 DEF StillStep, ShiftStep

-----------------------------------------------------------------------------
(* The volume while no transfer fails. *)

Faultless ==
    /\ Typed /\ Orderly /\ Awake
    /\ VolumeTidy /\ VolumeWhole /\ Ends /\ Kept /\ Cursor /\ NoneStale
    /\ Counted /\ Stored

\* A formatted volume is in order.
LEMMA InitFaultless == Init => Faultless
<1> SUFFICES ASSUME Init PROVE Faultless
  OBVIOUS
<1>1. Typed /\ Orderly
  BY InitTyped
<1>2. View = entry /\ Held = {} /\ ~Begun /\ ~Fresh /\ Point = "idle" /\ ~Walking /\ ~Scanning
      /\ ~For("zero") /\ ~For("linkdir") /\ ~For("link")
  BY DEF Init, View, Held, Fresh, Begun, Scanning, Walking, Detached, For, Point
<1>3. /\ Linked(fat1) = {} /\ Started(entry) = {} /\ fat1[Root] = EOC
      /\ \A c \in Clusters : fat1[c] # FREE => c = Root
  BY Constants DEF Init, Linked, Started, IsCluster, Present
<1>4. Sound(fat1, entry)
  BY <1>3, Constants DEF Sound
<1>5. VolumeTidy /\ VolumeWhole
  BY <1>2, <1>3, <1>4 DEF VolumeTidy, VolumeWhole, Tidy, Whole, Referenced
<1>6. Ends /\ Cursor
  BY <1>2 DEF Ends, Cursor
<1>7. \A n \in Names : Keeps(n) = {} /\ owned[n] = {}
  BY <1>2 DEF Init, Keeps
<1>8. \A n \in Names : Present(entry, n) => entry[n].start = Empty
  BY DEF Init, Present
<1>9. Kept
  BY <1>2, <1>7, <1>8 DEF Kept, Apart
<1>10. NoneStale
  BY <1>2, <1>3 DEF NoneStale, Referenced, Init
<1>11. FreeIn(fat1) \in SUBSET Clusters
  BY DEF FreeIn
<1>12. Counted /\ Stored
  BY <1>11, ClustersFinite DEF Init, Counted, Stored, FreeCountExact, Clean
<1> QED BY <1>1, <1>5, <1>6, <1>9, <1>10, <1>12 DEF Init, Faultless, Awake

\* A step without faults keeps the volume in order.
LEMMA StepFaultless ==
    ASSUME Faults = {}, Faultless, Next
    PROVE  Faultless'
<1>1. StillStep \/ ShiftStep
  BY FaultlessStep DEF Faultless
<1>2. Typed'
  BY EnoughSpare, StepTyped DEF Faultless
<1>3. Orderly' /\ Awake'
  BY <1>1, StepOrderly, StepAwake DEF Faultless
<1>4. VolumeTidy' /\ VolumeWhole' /\ Ends' /\ NoneStale'
  BY <1>1, StepTidy, StepEnds, StepStale DEF Faultless
<1>5. Kept' /\ Cursor'
  BY <1>1, StillKept, ShiftKept, StillCursor, ShiftCursor DEF Faultless
<1>6. Counted' /\ Stored'
  BY <1>1, StepCounted, StepStored DEF Faultless
<1> QED BY <1>2, <1>3, <1>4, <1>5, <1>6 DEF Faultless

\* A step of anything else leaves it so.
LEMMA StutterFaultless ==
    ASSUME Faultless, UNCHANGED vars
    PROVE  Faultless'
<1> USE DEF vars, cached, device, content, counts, locals
<1>1. Typed' /\ Orderly' /\ Awake'
  BY DEF Faultless, Typed, Orderly, Control, Called, Named, Awake, Scanning, Walking,
         Detached, For, Point
<1>2. View' = View /\ Held' = Held /\ Fresh' = Fresh /\ Begun' = Begun /\ Point' = Point
      /\ Scanning' = Scanning /\ Walking' = Walking /\ For("zero")' = For("zero")
      /\ For("linkdir")' = For("linkdir") /\ For("link")' = For("link")
  BY DEF View, Held, Fresh, Begun, Scanning, Walking, Detached, For, Point
<1>3. VolumeTidy' /\ VolumeWhole' /\ Ends' /\ NoneStale'
  BY <1>2 DEF Faultless, VolumeTidy, VolumeWhole, Ends, NoneStale
<1>4. \A n \in Names : Keeps(n)' = Keeps(n)
  BY <1>2 DEF Keeps
<1>5. \A c : Lost(c)' = Lost(c)
  BY <1>2 DEF Lost
<1>6. \A n \in Names : Apart(n) /\ Present(View, n) => Apart(n)'
  BY <1>2, <1>4, <1>5 DEF Apart
<1>7. Kept'
  BY <1>2, <1>6 DEF Faultless, Kept
<1>8. Keeps(op.name)' = Keeps(op.name)
  BY <1>2 DEF Keeps
<1>9. Cursor'
  BY <1>2, <1>4, <1>8 DEF Faultless, Cursor
<1>10. Counted' /\ Stored'
  BY DEF Faultless, Counted, FreeCountExact, Stored, Clean
<1> QED BY <1>1, <1>3, <1>7, <1>9, <1>10 DEF Faultless

\* Between operations, the view is the directory and nothing is held.
LEMMA AtRest ==
    ASSUME Faultless
    PROVE  /\ TypeOK /\ FreeCountExact /\ Consistent /\ DurableAtRest /\ NoStaleContent
           /\ WritesKeepData
<1>1. TypeOK /\ FreeCountExact
  BY Types DEF Faultless, Counted
<1>2. pc = "idle" => View = entry /\ Held = {}
  BY DEF View, Held, Fresh, Begun, Scanning, Walking, Detached, For, Point
<1>3. Consistent
  BY <1>2 DEF Faultless, VolumeTidy, VolumeWhole, Tidy, Whole, Consistent, FreeIn
<1>4. DurableAtRest
  BY DEF Faultless, Stored, DurableAtRest
<1>5. NoStaleContent
  <2> SUFFICES ASSUME pc = "idle" PROVE NoStaleContent
    BY DEF NoStaleContent
  <2>1. \A c \in Clusters : Referenced(fat1, entry, c) => c \notin stale
    BY <1>2 DEF Faultless, NoneStale
  <2>2. entry \in Directories /\ stale \subseteq Clusters
    BY DEF Faultless, Typed
  <2>3. \A n \in Started(entry) : entry[n].start \notin stale
    BY <2>1, <2>2 DEF Referenced
  <2>4. \A c \in Linked(fat1) : fat1[c] \notin stale
    BY <2>1, <2>2 DEF Referenced
  <2> QED BY <2>1, <2>3, <2>4, Constants DEF Referenced, NoStaleContent
<1>6. WritesKeepData
  BY <1>2 DEF Faultless, Kept, Apart, WritesKeepData
<1> QED BY <1>1, <1>3, <1>4, <1>5, <1>6

\* While no transfer fails and the power stays on, the volume is in order at
\* every step of every operation of the VFS.
THEOREM FaultlessVolume ==
    ASSUME Faults = {}
    PROVE  Spec => []Faultless
<1>1. Init => Faultless
  BY InitFaultless
<1>2. Faultless /\ [Next]_vars => Faultless'
  BY StepFaultless, StutterFaultless
<1> QED BY <1>1, <1>2, PTL DEF Spec

\* The counts stay within the volume, and the FAT, the entries and the cursor of
\* every operation within its clusters.
THEOREM VolumeTypes ==
    ASSUME Faults = {}
    PROVE  Spec => []TypeOK
BY FaultlessVolume, AtRest, PTL

\* Between operations no two files or links share a cluster, none leads to a
\* free one, and unless the volume filled up every cluster in use is reachable
\* (fat32_alloc_cluster, fat32_free_chain and fat32_dir_create_entry).
THEOREM VolumeConsistent ==
    ASSUME Faults = {}
    PROVE  Spec => []Consistent
BY FaultlessVolume, AtRest, PTL

\* vol->free_clusters counts the free clusters at every step, the round of
\* fat32_free_chain under way apart.
THEOREM VolumeCounted ==
    ASSUME Faults = {}
    PROVE  Spec => []FreeCountExact
BY FaultlessVolume, AtRest, PTL

\* Every operation of the VFS returns with its effect on the device, the two
\* copies of the FAT equal and FSInfo current.
THEOREM VolumeDurable ==
    ASSUME Faults = {}
    PROVE  Spec => []DurableAtRest
BY FaultlessVolume, AtRest, PTL

\* No file or directory shows what its clusters held for an earlier owner:
\* each cluster is zeroed between its allocation and the first reference to it.
THEOREM VolumeZeroed ==
    ASSUME Faults = {}
    PROVE  Spec => []NoStaleContent
BY FaultlessVolume, AtRest, PTL

\* A write never cuts the chain of a file (fat32_write_chain, fat32.c:574).
THEOREM VolumeKeepsData ==
    ASSUME Faults = {}
    PROVE  Spec => []WritesKeepData
BY FaultlessVolume, AtRest, PTL

-----------------------------------------------------------------------------
(* A volume that power failures and refused transfers interrupt. *)

Tolerant ==
    /\ Typed /\ Orderly /\ BothSound /\ Pending /\ Growing /\ ZeroedFirst /\ Rebooted
    /\ Restored /\ InPlace

\* Write-back, loss of the cached view and the waits add no reference.
LEMMA ReferencesKept ==
    ASSUME BothSound,
           fat1'[Root] # FREE, fat1d'[Root] # FREE,
           \A c, t \in Clusters : PointsTo(c, t)' => PointsTo(c, t),
           \A n \in Names, t \in Clusters : Starts(n, t)' => Starts(n, t),
           \A t \in Clusters : fat1[t] # FREE /\ fat1d[t] # FREE
                                  => fat1'[t] # FREE /\ fat1d'[t] # FREE
    PROVE  BothSound'
<1>1. \A c, t \in Clusters : PointsTo(c, t)' => fat1'[t] # FREE /\ fat1d'[t] # FREE /\ t # Root
  BY DEF BothSound
<1>2. \A n \in Names, t \in Clusters :
          Starts(n, t)' => fat1'[t] # FREE /\ fat1d'[t] # FREE /\ t # Root
  BY DEF BothSound
<1>3. \A c, d, t \in Clusters : PointsTo(c, t)' /\ PointsTo(d, t)' => c = d
  BY DEF BothSound
<1>4. \A m, n \in Names, t \in Clusters : Starts(m, t)' /\ Starts(n, t)' => m = n
  BY DEF BothSound
<1>5. \A c, t \in Clusters, n \in Names : ~(PointsTo(c, t)' /\ Starts(n, t)')
  BY DEF BothSound
<1> QED BY <1>1, <1>2, <1>3, <1>4, <1>5 DEF BothSound

\* A cluster nothing leads to, in use on both sides, may be linked.
LEMMA ReferenceLinked ==
    ASSUME BothSound, NEW a \in Clusters, NEW s \in Clusters,
           Loose(s), fat1d[s] # FREE, \A n \in Names : ~Starts(n, s),
           fat1'[Root] # FREE, fat1d'[Root] # FREE,
           \A c, t \in Clusters : PointsTo(c, t)' => PointsTo(c, t) \/ (c = a /\ t = s),
           \A n \in Names, t \in Clusters : Starts(n, t)' => Starts(n, t),
           \A t \in Clusters : fat1[t] # FREE /\ fat1d[t] # FREE
                                  => fat1'[t] # FREE /\ fat1d'[t] # FREE
    PROVE  BothSound'
<1>0. s # Root /\ fat1[s] # FREE /\ fat1d[s] # FREE /\ \A c \in Clusters : ~PointsTo(c, s)
  BY DEF Loose
<1>1. \A c, t \in Clusters : PointsTo(c, t)' => fat1'[t] # FREE /\ fat1d'[t] # FREE /\ t # Root
  BY <1>0 DEF BothSound
<1>2. \A n \in Names, t \in Clusters :
          Starts(n, t)' => fat1'[t] # FREE /\ fat1d'[t] # FREE /\ t # Root
  BY DEF BothSound
<1>3. \A c, d, t \in Clusters : PointsTo(c, t)' /\ PointsTo(d, t)' => c = d
  BY <1>0 DEF BothSound
<1>4. \A m, n \in Names, t \in Clusters : Starts(m, t)' /\ Starts(n, t)' => m = n
  BY DEF BothSound
<1>5. \A c, t \in Clusters, n \in Names : ~(PointsTo(c, t)' /\ Starts(n, t)')
  BY <1>0 DEF BothSound
<1> QED BY <1>1, <1>2, <1>3, <1>4, <1>5 DEF BothSound

\* So may it start a file.
LEMMA ReferenceStarted ==
    ASSUME BothSound, NEW k \in Names, NEW s \in Clusters,
           Loose(s), fat1d[s] # FREE, \A n \in Names \ {k} : ~Starts(n, s),
           fat1' = fat1, fat1d' = fat1d,
           \A n \in Names, t \in Clusters : Starts(n, t)' => Starts(n, t) \/ (n = k /\ t = s)
    PROVE  BothSound'
<1>0. s # Root /\ fat1[s] # FREE /\ fat1d[s] # FREE /\ \A c \in Clusters : ~PointsTo(c, s)
  BY DEF Loose
<1>6. \A c, t \in Clusters : PointsTo(c, t)' <=> PointsTo(c, t)
  BY DEF PointsTo
<1>1. \A c, t \in Clusters : PointsTo(c, t)' => fat1'[t] # FREE /\ fat1d'[t] # FREE /\ t # Root
  BY <1>6 DEF BothSound
<1>2. \A n \in Names, t \in Clusters :
          Starts(n, t)' => fat1'[t] # FREE /\ fat1d'[t] # FREE /\ t # Root
  BY <1>0 DEF BothSound
<1>3. \A c, d, t \in Clusters : PointsTo(c, t)' /\ PointsTo(d, t)' => c = d
  BY <1>6 DEF BothSound
<1>4. \A m, n \in Names, t \in Clusters : Starts(m, t)' /\ Starts(n, t)' => m = n
  BY <1>0 DEF BothSound
<1>5. \A c, t \in Clusters, n \in Names : ~(PointsTo(c, t)' /\ Starts(n, t)')
  BY <1>0, <1>6 DEF BothSound
<1>7. fat1'[Root] # FREE /\ fat1d'[Root] # FREE
  BY DEF BothSound
<1> QED BY <1>1, <1>2, <1>3, <1>4, <1>5, <1>7 DEF BothSound

Grown == BothSound /\ Pending /\ Growing /\ ZeroedFirst /\ Rebooted /\ Restored

\* Write-back in any order keeps both sides of the volume sound.
LEMMA PersistTolerant ==
    ASSUME Tolerant, Persist
    PROVE  Grown'
<1> USE DEF Tolerant
<1>1. /\ fat1' = fat1 /\ entry' = entry /\ stale' = stale /\ zeroing' \subseteq zeroing
      /\ \A c \in Clusters : fat1d'[c] = fat1d[c] \/ fat1d'[c] = fat1[c]
      /\ \A n \in Names : entryd'[n] = entryd[n] \/ entryd'[n] = entry[n]
      /\ UNCHANGED <<counts, pc, ret, op, locals, erred, fat2>>
      /\ ~Clean
  <2>1. ASSUME NEW k \in 0 .. Last, PersistFat1(k) \/ PersistFat2(k)
        PROVE  /\ \A c \in Clusters : fat1d'[c] = fat1d[c] \/ fat1d'[c] = fat1[c]
               /\ entryd' = entryd /\ zeroing' = zeroing /\ ~Clean
    BY <2>1 DEF PersistFat1, PersistFat2, Fats, Typed, Clean
  <2>2. ASSUME NEW n \in Names, PersistEntry(n)
        PROVE  /\ fat1d' = fat1d /\ zeroing' = zeroing /\ ~Clean
               /\ \A m \in Names : entryd'[m] = entryd[m] \/ entryd'[m] = entry[m]
    BY <2>2 DEF PersistEntry, Directories, Typed, Clean
  <2>3. ASSUME NEW c \in Clusters, PersistZero(c)
        PROVE  fat1d' = fat1d /\ entryd' = entryd /\ zeroing' \subseteq zeroing /\ ~Clean
    BY <2>3 DEF PersistZero, Clean
  <2> QED BY <2>1, <2>2, <2>3 DEF Persist, cached
<1>2. /\ \A c, t \in Clusters : PointsTo(c, t)' => PointsTo(c, t)
      /\ \A n \in Names, t \in Clusters : Starts(n, t)' => Starts(n, t)
  BY <1>1 DEF PointsTo, Starts, Present
<1>3. BothSound'
  <2>1. /\ fat1'[Root] # FREE /\ fat1d'[Root] # FREE
        /\ \A t \in Clusters : fat1[t] # FREE /\ fat1d[t] # FREE
                                  => fat1'[t] # FREE /\ fat1d'[t] # FREE
    BY <1>1, Constants DEF BothSound
  <2> QED BY <1>2, <2>1, ReferencesKept
<1>4. /\ Fresh' = Fresh /\ Begun' = Begun /\ Walking' = Walking /\ Scanning' = Scanning
      /\ For("zero")' = For("zero")
  BY <1>1 DEF Fresh, Begun, Walking, Scanning, For, Point
<1>5. \A t \in Clusters : Loose(t) => Loose(t)'
  BY <1>1, <1>2 DEF Loose
<1>6. new \in Clusters /\ (Begun \/ Walking => start \in Clusters)
  BY DEF Typed, Begun, Orderly, Named, Control
<1>7. Pending'
  BY <1>1, <1>2, <1>4, <1>5, <1>6 DEF Pending, locals, Loose
<1>8. Growing' /\ Rebooted' /\ Restored'
  BY <1>1 DEF Growing, Rebooted, Restored, locals, counts
<1>9. ZeroedFirst'
  BY <1>1, <1>2, <1>4 DEF ZeroedFirst, locals
<1> QED BY <1>3, <1>7, <1>8, <1>9 DEF Grown

\* Neither side of the FAT or of the directory changes.
LEMMA SteadyReferences ==
    ASSUME fat1' = fat1, fat1d' = fat1d, entry' = entry, entryd' = entryd
    PROVE  /\ \A c, t \in Clusters : PointsTo(c, t)' <=> PointsTo(c, t)
           /\ \A n \in Names, t \in Clusters : Starts(n, t)' <=> Starts(n, t)
           /\ \A t \in Clusters : Loose(t)' <=> Loose(t)
           /\ BothSound => BothSound'
<1>1. /\ \A c, t \in Clusters : PointsTo(c, t)' <=> PointsTo(c, t)
      /\ \A n \in Names, t \in Clusters : Starts(n, t)' <=> Starts(n, t)
  BY DEF PointsTo, Starts
<1>2. \A t \in Clusters : Loose(t)' <=> Loose(t)
  BY <1>1 DEF Loose
<1>3. BothSound => BothSound'
  BY <1>1, ReferencesKept DEF BothSound
<1> QED BY <1>1, <1>2, <1>3

\* A flush or a barrier puts the cluster allocated on the device before the
\* step that links it.
LEMMA WaitsTolerant ==
    ASSUME Tolerant, Barrier \/ Flush \/ Sync
    PROVE  Grown'
<1> USE DEF Tolerant
<1>1. /\ UNCHANGED <<fat1, fat1d, entry, entryd, fat2, stale, zeroing, new, start, cur, freed,
                     freeCount, erred>>
      /\ fat2d' = fat2d
      /\ pc \notin {"down", "mounted", "counted"} /\ pc' \notin {"down", "mounted", "counted"}
  BY DEF Barrier, Flush, Sync, Begin, cached, device, content, counts, locals, Orderly, Control,
         Call
<1>2. /\ \A n \in Names, t \in Clusters : Starts(n, t)' <=> Starts(n, t)
      /\ \A t \in Clusters : Loose(t)' <=> Loose(t)
      /\ BothSound'
  BY <1>1, SteadyReferences
<1>3. /\ Fresh' => Fresh /\ Clean
      /\ Begun' => Begun
      /\ Walking' => Walking /\ op' = op
      /\ Scanning' => Scanning
      /\ For("zero")' /\ op'.kind = "create" => For("zero") /\ op.kind = "create"
  BY DEF Fresh, Begun, Walking, Scanning, For, Point, Barrier, Flush, Sync, Begin, Orderly,
         Control, Call
<1>4. new \in Clusters /\ (Begun \/ Walking => start \in Clusters)
  BY DEF Typed, Begun, Orderly, Named, Control
<1>5. Fresh' => fat1d[new] # FREE
  BY <1>3, <1>4 DEF Pending, Clean, Loose
<1>6. Pending'
  <2>1. Fresh' => Loose(new)' /\ \A n \in Names : ~Starts(n, new)'
    BY <1>1, <1>2, <1>3, <1>4 DEF Pending, Loose, PointsTo, Starts
  <2>2. Begun' \/ Walking' => Loose(start)' /\ fat1d'[start'] # FREE /\ (Fresh' => start' # new')
    BY <1>1, <1>2, <1>3, <1>4 DEF Pending, Loose, PointsTo, Starts
  <2>3. Begun' => \A n \in Names : ~Starts(n, start)'
    BY <1>1, <1>2, <1>3, <1>4 DEF Pending, Starts
  <2>4. Walking' => \A n \in Names \ {op'.name} : ~Starts(n, start)'
    BY <1>1, <1>2, <1>3, <1>4 DEF Pending, Starts
  <2> QED BY <1>1, <1>3, <1>5, <2>1, <2>2, <2>3, <2>4 DEF Pending
<1>7. Growing' /\ Rebooted'
  BY <1>1 DEF Growing, Rebooted, Barrier, Flush, Sync, Begin, Call
<1>8. Restored'
  BY <1>1 DEF Restored, Barrier, Flush, Sync, Begin, Call, Clean
<1>9. ZeroedFirst'
  <2>1. (Begun' \/ Walking') /\ pc' # "flush" => start \notin zeroing
    BY <1>3 DEF ZeroedFirst, Barrier, Flush, Sync, Begin, Clean, Call
  <2> QED BY <1>1, <1>2, <1>3, <2>1 DEF ZeroedFirst
<1> QED BY <1>2, <1>6, <1>7, <1>8, <1>9 DEF Grown

\* Allocation, from whichever free cluster the search settles on.
LEMMA TakeTolerant ==
    ASSUME Tolerant, NEW c \in Clusters, AllocAt(c), erred' \in {erred, TRUE}
    PROVE  Grown'
<1> USE DEF Tolerant
<1>1. /\ fat1[c] = FREE /\ fat1' = [fat1 EXCEPT ![c] = EOC] /\ fat2' = [fat2 EXCEPT ![c] = EOC]
      /\ pc = "alloc" /\ pc' = "barrier" /\ new' = c
      /\ freeCount' = IF freeCount # 0 THEN freeCount - 1 ELSE 0
      /\ UNCHANGED <<fat1d, entry, entryd, fat2d, stale, zeroing, start, cur, freed, op, ret>>
  BY DEF AllocAt, Take, WriteFat, FreeIn, device, content
<1>2. \A d \in Clusters : fat1'[d] = IF d = c THEN EOC ELSE fat1[d]
  BY <1>1 DEF Typed, Fats
<1>3. /\ \A d, t \in Clusters : PointsTo(d, t)' => PointsTo(d, t)
      /\ \A n \in Names, t \in Clusters : Starts(n, t)' <=> Starts(n, t)
  BY <1>1, <1>2, Constants DEF PointsTo, Starts
<1>4. /\ fat1'[Root] # FREE /\ fat1d'[Root] # FREE
      /\ \A t \in Clusters : fat1[t] # FREE /\ fat1d[t] # FREE
                                => fat1'[t] # FREE /\ fat1d'[t] # FREE
  BY <1>1, <1>2, Constants DEF BothSound
<1>5. BothSound'
  BY <1>3, <1>4, ReferencesKept
<1>6. Loose(c)' /\ \A n \in Names : ~Starts(n, c)'
  BY <1>1, <1>2, <1>3, Constants DEF BothSound, Loose
<1>7. \A t \in Clusters : Loose(t) => Loose(t)' /\ t # c
  BY <1>1, <1>2, <1>3, Constants DEF Loose
<1>8. /\ Begun' = Begun /\ Walking' = Walking /\ Scanning' = Scanning
      /\ For("zero")' = For("zero")
  BY <1>1 DEF Begun, Walking, Scanning, For, Point, Orderly, Control
<1>9. (Begun \/ Walking => start \in Clusters) /\ cur \in Clusters /\ start' = start /\ new' = c
  BY <1>1 DEF Begun, Orderly, Named, Control, Typed
<1>10. Pending'
  <2>1. Fresh' => Loose(new)' /\ \A n \in Names : ~Starts(n, new)'
    BY <1>6, <1>9 DEF Loose, PointsTo, Starts
  <2>2. Begun' \/ Walking' => Loose(start)' /\ fat1d'[start'] # FREE /\ (Fresh' => start' # new')
    BY <1>1, <1>7, <1>8, <1>9 DEF Pending, Loose, PointsTo
  <2>3. Begun' => \A n \in Names : ~Starts(n, start)'
    BY <1>3, <1>8, <1>9 DEF Pending, Starts
  <2>4. Walking' => \A n \in Names \ {op'.name} : ~Starts(n, start)'
    BY <1>1, <1>3, <1>8, <1>9 DEF Pending, Starts
  <2> QED BY <1>1, <1>2, <1>8, <1>9, <2>1, <2>2, <2>3, <2>4, Constants DEF Pending
<1>11. Growing' /\ Rebooted'
  BY <1>1 DEF Growing, Rebooted
<1>12. Restored'
  <2>1. Cardinality(FreeIn(fat1)) > 0 /\ Cardinality(FreeIn(fat1')) = Cardinality(FreeIn(fat1)) - 1
    BY <1>1, FreeTaken DEF Typed
  <2>2. ~erred' => ~erred
    BY DEF Typed
  <2>3. ~erred => freeCount = Cardinality(FreeIn(fat1)) /\ fat1 = fat2
    BY <1>1 DEF Restored
  <2>4. ~erred => fat1' = fat2' /\ freeCount' = Cardinality(FreeIn(fat1'))
    BY <1>1, <2>1, <2>3 DEF Typed
  <2> QED BY <1>1, <2>2, <2>4 DEF Restored
<1>13. ZeroedFirst'
  BY <1>1, <1>3, <1>8 DEF ZeroedFirst
<1> QED BY <1>5, <1>10, <1>11, <1>12, <1>13 DEF Grown

\* An operation gives up; the check at boot does; the counts are read at boot.
LEMMA StopTolerant ==
    ASSUME Tolerant, AllocNoSpace \/ (Abort /\ UNCHANGED device /\ erred' = TRUE) \/ Mount
    PROVE  Grown'
<1> USE DEF Tolerant
<1>1. /\ UNCHANGED <<fat1, fat1d, entry, entryd, fat2, fat2d, stale, zeroing, op, ret>>
      /\ pc' \in {"idle", "mounted"} /\ freed' = 0
      /\ ~Fresh' /\ ~Begun' /\ ~Walking' /\ ~Scanning' /\ ~For("zero")'
  BY DEF AllocNoSpace, Abort, Mount, cached, device, content, locals, Growing,
         Fresh, Begun, Walking, Scanning, For, Point
<1>2. /\ \A n \in Names, t \in Clusters : Starts(n, t)' <=> Starts(n, t)
      /\ BothSound'
  BY <1>1, SteadyReferences
<1>3. Pending' /\ Growing'
  BY <1>1 DEF Pending, Growing
<1>4. Rebooted' /\ Restored'
  BY <1>1 DEF AllocNoSpace, Abort, Mount, Rebooted, Restored, Clean
<1>5. ZeroedFirst'
  BY <1>1, <1>2 DEF ZeroedFirst
<1> QED BY <1>2, <1>3, <1>4, <1>5 DEF Grown

\* The check at boot: its count, a copied sector, its end.
LEMMA FsckTolerant ==
    ASSUME Tolerant,
           Recount \/ (Miscount /\ erred' = TRUE) \/ (\E k : Mirror(k)) \/ Fsck
    PROVE  Grown'
<1> USE DEF Tolerant
<1>1. /\ UNCHANGED <<fat1, fat1d, entry, entryd, stale, zeroing, op, ret, freed>>
      /\ pc \in {"mounted", "counted"} /\ pc' \in {"counted", "idle"}
      /\ ~Fresh' /\ ~Begun' /\ ~Walking' /\ ~Scanning' /\ ~For("zero")'
  BY DEF Recount, Miscount, Recounted, Mirror, Fsck, cached, device, content, locals,
         Fresh, Begun, Walking, Scanning, For, Point, Growing
<1>2. /\ \A n \in Names, t \in Clusters : Starts(n, t)' <=> Starts(n, t)
      /\ BothSound'
  BY <1>1, SteadyReferences
<1>3. Pending' /\ Growing'
  BY <1>1 DEF Pending, Growing
<1>4. Rebooted' /\ Restored'
  <2>1. CASE Recount
    BY <2>1 DEF Recount, Recounted, Rebooted, Restored, Clean, cached, device, content
  <2>2. CASE Miscount /\ erred' = TRUE
    BY <2>2 DEF Miscount, Recounted, Rebooted, Restored, Clean, cached, device, content
  <2>3. ASSUME NEW k, Mirror(k)
        PROVE  Rebooted' /\ Restored'
    BY <2>3 DEF Mirror, Rebooted, Restored, Clean, content, counts
  <2>4. CASE Fsck
    BY <2>4 DEF Fsck, Rebooted, Restored, Clean, cached, content, counts
  <2> QED BY <2>1, <2>2, <2>3, <2>4
<1>5. ZeroedFirst'
  BY <1>1, <1>2 DEF ZeroedFirst
<1> QED BY <1>2, <1>3, <1>4, <1>5 DEF Grown

\* A power failure leaves what the device holds.
LEMMA CrashIsTolerated ==
    ASSUME Tolerant, Crash
    PROVE  Grown'
<1> USE DEF Tolerant
<1>1. /\ fat1' = fat1d /\ entry' = entryd /\ fat1d' = fat1d /\ entryd' = entryd
      /\ fat2' = fat2d /\ fat2d' = fat2d
      /\ stale' = stale \cup zeroing /\ zeroing' = {}
      /\ pc' = "down" /\ ret' = "idle" /\ op' = NoOp /\ freed' = 0
      /\ ~Fresh' /\ ~Begun' /\ ~Walking' /\ ~Scanning' /\ ~For("zero")'
  BY DEF Crash, device, Fresh, Begun, Walking, Scanning, For, Point
<1>2. /\ \A c, t \in Clusters : PointsTo(c, t)' => PointsTo(c, t)
      /\ \A n \in Names, t \in Clusters : Starts(n, t)' => Starts(n, t)
  BY <1>1 DEF PointsTo, Starts
<1>3. BothSound'
  BY <1>1, <1>2, ReferencesKept DEF BothSound
<1>4. Pending' /\ Growing'
  BY <1>1 DEF Pending, Growing, NoOp
<1>5. Rebooted' /\ Restored'
  BY <1>1 DEF Rebooted, Restored, Clean
<1>6. ZeroedFirst'
  BY <1>1, <1>2 DEF ZeroedFirst
<1> QED BY <1>3, <1>4, <1>5, <1>6 DEF Grown

\* Walking a chain and scanning the directory's.
LEMMA WalkTolerant ==
    ASSUME Tolerant, NEW v \in {fat1[cur], EOC}, ScanOn(v) \/ WalkOn(v), erred' \in {erred, TRUE}
    PROVE  Grown'
<1> USE DEF Tolerant
<1>1. /\ UNCHANGED <<fat1, fat1d, entry, entryd, fat2, fat2d, stale, zeroing, op, freed,
                     freeCount, start>>
      /\ pc \in {"scan", "walk"} /\ pc' \in {pc, "alloc"}
      /\ (pc' = "alloc" => ret' \in {"link", "linkdir"})
      /\ (pc' # "alloc" => ret' = ret)
      /\ cur' = cur \/ (cur' = v /\ IsCluster(v))
  BY DEF ScanOn, WalkOn, cached, device, content, counts, Call, Goto
<1>2. /\ \A n \in Names, t \in Clusters : Starts(n, t)' <=> Starts(n, t)
      /\ \A t \in Clusters : Loose(t)' <=> Loose(t)
      /\ BothSound'
  BY <1>1, SteadyReferences
<1>3. ~Fresh' /\ Begun' = Begun /\ Walking' = Walking /\ Scanning' = Scanning
      /\ ~For("zero")' /\ (Scanning \/ Walking)
  BY DEF ScanOn, WalkOn, Call, Goto, Fresh, Begun, Walking, Scanning, For, Point
<1>4. fat1[cur] # FREE /\ cur \in Clusters /\ (Begun \/ Walking => start \in Clusters)
  BY <1>3 DEF Pending, Typed, Begun, Orderly, Named, Control
<1>5. fat1[cur'] # FREE
  <2>1. IsCluster(v) => v = fat1[cur] /\ PointsTo(cur, v)
    BY Constants DEF IsCluster, PointsTo
  <2> QED BY <1>1, <1>4, <2>1 DEF BothSound, IsCluster
<1>6. Pending'
  <2>2. Begun' \/ Walking' => Loose(start)' /\ fat1d'[start'] # FREE
    BY <1>1, <1>2, <1>3, <1>4 DEF Pending, Loose, PointsTo
  <2>3. Begun' => \A n \in Names : ~Starts(n, start)'
    BY <1>1, <1>2, <1>3, <1>4 DEF Pending, Starts
  <2>4. Walking' => \A n \in Names \ {op'.name} : ~Starts(n, start)'
    BY <1>1, <1>2, <1>3, <1>4 DEF Pending, Starts
  <2> QED BY <1>1, <1>3, <1>5, <2>2, <2>3, <2>4 DEF Pending
<1>7. Growing' /\ Rebooted'
  BY <1>1 DEF Growing, Rebooted
<1>8. Restored'
  <2>1. ~erred' => ~erred
    BY DEF Typed
  <2> QED BY <1>1, <2>1 DEF Restored, Clean
<1>9. ZeroedFirst'
  BY <1>1, <1>2, <1>3 DEF ZeroedFirst
<1> QED BY <1>2, <1>6, <1>7, <1>8, <1>9 DEF Grown

\* A creation or a write begins.
LEMMA BeginTolerant ==
    ASSUME Tolerant, NEW n \in Names, erred' \in {erred, TRUE},
           NewFile(n) \/ \E i \in 0 .. MaxIndex : Write(n, i)
    PROVE  Grown'
<1> USE DEF Tolerant
<1>1. /\ UNCHANGED <<fat1, fat1d, entry, entryd, fat2, fat2d, stale, zeroing, freed,
                     freeCount>>
      /\ pc = "idle" /\ op'.kind \in {"create", "write"}
      /\ pc' \in {"alloc", "walk"} /\ ret' \in {ret, "zero"}
  BY DEF NewFile, Write, Begin, cached, device, content, counts, Call, Goto
<1>2. /\ \A m \in Names, t \in Clusters : Starts(m, t)' <=> Starts(m, t)
      /\ \A t \in Clusters : Loose(t)' <=> Loose(t)
      /\ BothSound'
  BY <1>1, SteadyReferences
<1>3. ~Fresh' /\ ~Begun' /\ ~Scanning'
  BY <1>1 DEF NewFile, Write, Begin, Call, Goto, Fresh, Begun, Scanning, For, Point
<1>4. Walking' => /\ Starts(n, start') /\ start' \in Clusters /\ op'.name = n /\ cur' = start'
                  /\ ~For("zero")'
  <2> SUFFICES ASSUME Walking' PROVE /\ Starts(n, start') /\ start' \in Clusters
                                     /\ op'.name = n /\ cur' = start' /\ ~For("zero")'
    OBVIOUS
  <2>1. CASE NewFile(n)
    BY <2>1 DEF NewFile, Call, Walking, For, Point
  <2>2. ASSUME NEW i \in 0 .. MaxIndex, Write(n, i)
        PROVE  /\ Starts(n, start') /\ start' \in Clusters
               /\ op'.name = n /\ cur' = start' /\ ~For("zero")'
    <3>1. start' # Empty
      BY <2>2 DEF Write, Call, Walking, For, Point
    <3>2. start' = entry[n].start /\ Present(entry, n)
      BY <2>2 DEF Write
    <3>3. start' \in Clusters
      BY <3>1, <3>2, EntryOf DEF Typed
    <3> QED BY <2>2, <3>1, <3>2, <3>3 DEF Write, Begin, Goto, Starts, For, Point
  <2> QED BY <2>1, <2>2
<1>5. For("zero")' /\ op'.kind = "create" => cur' = Root
  BY DEF NewFile, Write, Begin
<1>6. Pending'
  <2> DEFINE s == start'
  <2>1. Walking' => /\ s # Root /\ fat1[s] # FREE /\ fat1d[s] # FREE
                    /\ \A c \in Clusters : ~PointsTo(c, s)
                    /\ \A m \in Names \ {n} : ~Starts(m, s)
    BY <1>4 DEF BothSound
  <2>2. Walking' => Loose(start)' /\ fat1d'[start'] # FREE
    BY <1>1, <2>1 DEF Loose, PointsTo
  <2>3. Walking' => \A m \in Names \ {op'.name} : ~Starts(m, start)'
    BY <1>1, <1>4, <2>1 DEF Starts
  <2> QED BY <1>1, <1>3, <1>4, <1>5, <2>1, <2>2, <2>3 DEF Pending
<1>7. Growing' /\ Rebooted'
  BY <1>1 DEF Growing, Rebooted
<1>8. Restored'
  <2>1. ~erred' => ~erred
    BY DEF Typed
  <2> QED BY <1>1, <2>1 DEF Restored, Clean
<1>9. ZeroedFirst'
  <2>1. Walking' => start' \notin stale \cup zeroing
    BY <1>4 DEF ZeroedFirst
  <2> QED BY <1>1, <1>2, <1>3, <2>1 DEF ZeroedFirst
<1> QED BY <1>2, <1>6, <1>7, <1>8, <1>9 DEF Grown

\* The first cluster of a file is zeroed in the cache.
LEMMA ZeroFirstTolerant ==
    ASSUME Tolerant, ZeroFirst
    PROVE  Grown'
<1> USE DEF Tolerant
<1>1. /\ UNCHANGED <<fat1, fat1d, entry, entryd, fat2, fat2d, freed, freeCount, erred, op, new>>
      /\ pc = "zero" /\ pc' = "flush" /\ ret' = (IF op.kind = "create" THEN "scan" ELSE "walk")
      /\ cur' = (IF op.kind = "create" THEN cur ELSE new) /\ start' = new
      /\ stale' = stale \ {new} /\ zeroing' = zeroing \cup {new}
  BY DEF ZeroFirst, Zero, cached, device, counts, Call
<1>2. /\ \A m \in Names, t \in Clusters : Starts(m, t)' <=> Starts(m, t)
      /\ \A t \in Clusters : Loose(t)' <=> Loose(t)
      /\ BothSound'
  BY <1>1, SteadyReferences
<1>3. /\ ~Fresh' /\ ~For("zero")'
      /\ Fresh /\ For("zero")
  BY <1>1 DEF Fresh, For, Point
<1>4. /\ Loose(new) /\ fat1d[new] # FREE /\ new \in Clusters /\ fat1[new] # FREE
      /\ \A m \in Names : ~Starts(m, new)
  BY <1>1, <1>3 DEF Pending, Typed, Loose
<1>5. cur' = Root \/ cur' = new
  BY <1>1, <1>3 DEF Pending
<1>6. Pending'
  <2>1. Loose(start)' /\ fat1d'[start'] # FREE
    BY <1>1, <1>4 DEF Loose, PointsTo
  <2>2. \A m \in Names : ~Starts(m, start)'
    BY <1>1, <1>4 DEF Starts
  <2>3. fat1'[cur'] # FREE
    BY <1>1, <1>4, <1>5 DEF BothSound
  <2> QED BY <1>3, <2>1, <2>2, <2>3 DEF Pending
<1>7. Growing' /\ Rebooted' /\ Restored'
  BY <1>1 DEF Growing, Rebooted, Restored
<1>8. ZeroedFirst'
  <2>1. \A m \in Names, t \in Clusters : Starts(m, t)' => t \notin stale' \cup zeroing'
    BY <1>1, <1>2, <1>4 DEF ZeroedFirst
  <2> QED BY <1>1, <2>1 DEF ZeroedFirst
<1> QED BY <1>2, <1>6, <1>7, <1>8 DEF Grown

\* Linking the new cluster to the chain of the directory or of the file, in
\* FAT1 at least.
LEMMA LinkedTolerant ==
    ASSUME Tolerant, pc \in {"link", "linkdir"},
           fat1' = [fat1 EXCEPT ![cur] = new],
           UNCHANGED <<fat1d, entry, entryd, fat2d, freeCount, op, start, new>>,
           stale' = stale \ {new}, zeroing' = zeroing \cup {new}, freed' = 0,
           ret' \notin {"free", "freeold", "mark", "replace"},
           \/ /\ pc' = "barrier" /\ ret' = (IF pc = "link" THEN "walk" ELSE "scan")
              /\ cur' = new /\ fat2' = [fat2 EXCEPT ![cur] = new] /\ erred' = erred
           \/ pc' = "idle" /\ erred' = TRUE
    PROVE  Grown'
<1> USE DEF Tolerant
<1>1. /\ Fresh /\ (Scanning \/ Walking) /\ ~Fresh' /\ ~For("zero")'
      /\ (Begun' => Begun) /\ (Walking' => Walking) /\ (Scanning' => pc' = "barrier")
      /\ (Walking' => pc' = "barrier")
  BY DEF Fresh, Scanning, Walking, Begun, For, Point
<1>2. /\ Loose(new) /\ fat1d[new] # FREE /\ new \in Clusters /\ fat1[new] # FREE
      /\ \A m \in Names : ~Starts(m, new)
      /\ fat1[cur] # FREE /\ cur \in Clusters
      /\ \A c \in Clusters : ~PointsTo(c, new)
  BY <1>1 DEF Pending, Typed, Loose
<1>3. \A d \in Clusters : fat1'[d] = IF d = cur THEN new ELSE fat1[d]
  BY DEF Typed, Fats
<1>4. /\ \A d, t \in Clusters : PointsTo(d, t)' => PointsTo(d, t) \/ (d = cur /\ t = new)
      /\ \A m \in Names, t \in Clusters : Starts(m, t)' <=> Starts(m, t)
  BY <1>3 DEF PointsTo, Starts
<1>5. \A t \in Clusters : fat1[t] # FREE <=> fat1'[t] # FREE
  BY <1>2, <1>3, Constants
<1>6. BothSound'
  <2>1. fat1'[Root] # FREE /\ fat1d'[Root] # FREE
    BY <1>5, Constants DEF BothSound
  <2> QED BY <1>2, <1>4, <1>5, <2>1, ReferenceLinked
<1>7. Begun \/ Walking => /\ start \in Clusters /\ start # new /\ Loose(start)
                          /\ fat1d[start] # FREE
  BY <1>1 DEF Pending, Begun, Orderly, Named, Control
<1>8. Pending'
  <2>1. Begun' \/ Walking' => Loose(start)' /\ fat1d'[start'] # FREE
    <3>1. Begun \/ Walking => \A c \in Clusters : ~PointsTo(c, start)'
      BY <1>4, <1>7 DEF Loose, PointsTo
    <3>2. Begun \/ Walking => start # Root /\ fat1'[start] # FREE
      BY <1>5, <1>7 DEF Loose
    <3> QED BY <1>1, <1>7, <3>1, <3>2 DEF Loose
  <2>2. Begun' => \A m \in Names : ~Starts(m, start)'
    BY <1>1 DEF Pending, Starts
  <2>3. Walking' => \A m \in Names \ {op'.name} : ~Starts(m, start)'
    BY <1>1 DEF Pending, Starts
  <2>4. Scanning' \/ Walking' => fat1'[cur'] # FREE
    BY <1>1, <1>2, <1>5
  <2> QED BY <1>1, <2>1, <2>2, <2>3, <2>4 DEF Pending
<1>9. Growing' /\ Rebooted'
  BY DEF Growing, Rebooted
<1>10. Restored'
  <2>1. CASE pc' = "idle" /\ erred' = TRUE
    BY <2>1 DEF Restored
  <2>2. CASE pc' = "barrier" /\ fat2' = [fat2 EXCEPT ![cur] = new] /\ erred' = erred
    <3>1. FreeIn(fat1') = FreeIn(fat1)
      BY <1>5 DEF FreeIn
    <3> QED BY <2>2, <3>1 DEF Restored
  <2> QED BY <2>1, <2>2
<1>11. ZeroedFirst'
  <2>1. \A m \in Names, t \in Clusters : Starts(m, t)' => t \notin stale' \cup zeroing'
    BY <1>2, <1>4 DEF ZeroedFirst
  <2>2. Begun' \/ Walking' => start' \notin stale' \cup zeroing'
    BY <1>1, <1>7 DEF ZeroedFirst
  <2> QED BY <2>1, <2>2 DEF ZeroedFirst
<1> QED BY <1>6, <1>8, <1>9, <1>10, <1>11 DEF Grown

\* The cluster that a directory or a file grows by.
LEMMA LinksTolerant ==
    ASSUME Tolerant, LinkDir \/ Link
    PROVE  Grown'
<1>1. /\ pc \in {"link", "linkdir"} /\ fat1' = [fat1 EXCEPT ![cur] = new]
      /\ UNCHANGED <<fat1d, entry, entryd, fat2d, freeCount, op, start, new>>
      /\ stale' = stale \ {new} /\ zeroing' = zeroing \cup {new} /\ freed' = freed
      /\ pc' = "barrier" /\ ret' = (IF pc = "link" THEN "walk" ELSE "scan")
      /\ cur' = new /\ fat2' = [fat2 EXCEPT ![cur] = new] /\ erred' = erred
  BY DEF LinkDir, Link, WriteFat, Zero, Call, device, counts
<1>2. freed' = 0
  BY <1>1 DEF Tolerant, Growing
<1> QED BY <1>1, <1>2, LinkedTolerant

\* Only FAT1 is written.
LEMMA HalfWriteTolerant ==
    ASSUME Tolerant, HalfWrite, UNCHANGED device, erred' = TRUE
    PROVE  Grown'
<1> USE DEF Tolerant
<1>1. CASE pc \in {"link", "linkdir"}
  <2>1. /\ fat1' = [fat1 EXCEPT ![cur] = new]
        /\ UNCHANGED <<fat1d, entry, entryd, fat2d, freeCount, op, start, new, ret>>
        /\ stale' = stale \ {new} /\ zeroing' = zeroing \cup {new} /\ freed' = 0
        /\ pc' = "idle"
    BY <1>1 DEF HalfWrite, Zero, device, counts
  <2>2. ret' \notin {"free", "freeold", "mark", "replace"}
    BY <2>1 DEF Growing
  <2> QED BY <1>1, <2>1, <2>2, LinkedTolerant
<1>2. CASE pc \notin {"link", "linkdir"}
  <2>1. /\ pc = "alloc" /\ pc' = "idle" /\ freed' = 0
        /\ UNCHANGED <<fat1d, entry, entryd, fat2d, stale, zeroing, op, ret>>
    BY <1>2 DEF HalfWrite, device, content, Growing
  <2>2. PICK c \in Clusters : Found(c) /\ fat1' = [fat1 EXCEPT ![c] = EOC]
    BY <2>1 DEF HalfWrite
  <2>3. \A d \in Clusters : fat1'[d] = IF d = c THEN EOC ELSE fat1[d]
    BY <2>2 DEF Typed, Fats
  <2>4. /\ \A d, t \in Clusters : PointsTo(d, t)' => PointsTo(d, t)
        /\ \A n \in Names, t \in Clusters : Starts(n, t)' => Starts(n, t)
    BY <2>1, <2>3, Constants DEF PointsTo, Starts
  <2>5. /\ fat1'[Root] # FREE /\ fat1d'[Root] # FREE
        /\ \A t \in Clusters : fat1[t] # FREE /\ fat1d[t] # FREE
                                  => fat1'[t] # FREE /\ fat1d'[t] # FREE
    BY <2>1, <2>3, Constants DEF BothSound
  <2>6. BothSound'
    BY <2>4, <2>5, ReferencesKept
  <2>7. ~Fresh' /\ ~Begun' /\ ~Walking' /\ ~Scanning' /\ ~For("zero")'
    BY <2>1 DEF Fresh, Begun, Walking, Scanning, For, Point
  <2>8. Pending' /\ Growing' /\ Rebooted' /\ Restored'
    BY <2>1, <2>7 DEF Pending, Growing, Rebooted, Restored
  <2>9. ZeroedFirst'
    BY <2>1, <2>4, <2>7 DEF ZeroedFirst
  <2> QED BY <2>6, <2>8, <2>9 DEF Grown
<1> QED BY <1>1, <1>2

\* Writing the entry of a new file, or the first cluster of one that had none.
LEMMA EntryTolerant ==
    ASSUME Tolerant, WriteEntry \/ SyncEntry
    PROVE  Grown'
<1> USE DEF Tolerant
<1>0. PICK k \in Names : k = op.name
  BY DEF WriteEntry, SyncEntry, Orderly, Named, Scanning, Walking, For, Point
<1>1. /\ UNCHANGED <<fat1, fat1d, entryd, fat2, fat2d, stale, zeroing, freed, freeCount, erred,
                     op, new, start, cur>>
      /\ pc \in {"scan", "walk"} /\ pc' = "flush" /\ (Begun \/ Walking)
      /\ ~Begun' /\ ~Walking' /\ ~Scanning' /\ ~Fresh' /\ ~For("zero")'
      /\ ret' = "idle"
  BY DEF WriteEntry, SyncEntry, Begun, Walking, Scanning, Fresh, For, Point, Call, device,
         content, counts, locals, Growing, Orderly, Called
<1>2. /\ start \in Clusters
      /\ \A n \in Names : Present(entry', n) =>
            IF n = k THEN entry'[n].start = start ELSE entry'[n] = entry[n]
  <2>1. CASE WriteEntry
    <3>1. entry' = [entry EXCEPT ![k] = [home |-> cur, start |-> start]] /\ Begun
      BY <1>0, <2>1 DEF WriteEntry, Begun, Scanning, Point, Growing, Orderly, Called
    <3>2. start \in Clusters
      BY <3>1 DEF Begun, Orderly, Named
    <3> QED BY <3>1, <3>2 DEF Typed, Directories
  <2>2. CASE SyncEntry
    <3>1. start \in Clusters
      BY <2>2 DEF SyncEntry, Walking, Point, Orderly, Control
    <3>2. PICK m \in {k, NoEntry} :
              entry' = [n \in Names |->
                          IF n = m THEN [home |-> entry[k].home, start |-> start]
                          ELSE IF n = k THEN NoEntry ELSE entry[n]]
      BY <1>0, <2>2 DEF SyncEntry, InPlaceOf, InPlace
    <3> QED BY <3>1, <3>2, NoEntryAssumption DEF Present
  <2> QED BY <2>1, <2>2
<1>3. \A n \in Names, t \in Clusters : Starts(n, t)' => Starts(n, t) \/ (n = k /\ t = start)
  BY <1>1, <1>2 DEF Starts, Present
<1>4. /\ Loose(start) /\ fat1d[start] # FREE
      /\ \A n \in Names \ {k} : ~Starts(n, start)
      /\ start \notin stale \cup zeroing
  BY <1>0, <1>1 DEF Pending, ZeroedFirst
<1>5. BothSound'
  BY <1>1, <1>2, <1>3, <1>4, ReferenceStarted
<1>6. Pending' /\ Growing' /\ Rebooted'
  BY <1>1 DEF Pending, Growing, Rebooted
<1>7. Restored'
  BY <1>1 DEF Restored
<1>8. ZeroedFirst'
  BY <1>1, <1>3, <1>4 DEF ZeroedFirst
<1> QED BY <1>5, <1>6, <1>7, <1>8 DEF Grown

\* A formatted volume is sound on both sides.
LEMMA InitTolerant == Init => Tolerant
<1> SUFFICES ASSUME Init PROVE Tolerant
  OBVIOUS
<1>1. Typed /\ Orderly
  BY InitTyped
<1>2. /\ \A c \in Clusters : fat1[c] \notin Clusters /\ fat1d[c] \notin Clusters
      /\ fat1[Root] = EOC /\ fat1d[Root] = EOC
  BY Constants DEF Init
<1>3. \A c, t \in Clusters : ~PointsTo(c, t)
  BY <1>2 DEF PointsTo
<1>4. \A n \in Names, t \in Clusters : ~Starts(n, t)
  BY Constants DEF Init, Starts, Present
<1>5. BothSound
  BY <1>2, <1>3, <1>4, Constants DEF BothSound
<1>6. Pending /\ Growing /\ Rebooted /\ Restored
  BY DEF Init, Pending, Growing, Rebooted, Restored, Fresh, Begun, Scanning, Walking, For,
         Point, NoOp, Clean
<1>7. ZeroedFirst
  BY <1>4 DEF Init, ZeroedFirst, Begun, Scanning, Walking, For, Point
<1>8. InPlace
  BY DEF Init, InPlace, Present
<1> QED BY <1>1, <1>5, <1>6, <1>7, <1>8 DEF Tolerant

\* A file that has an entry on the device keeps its entry: files are not deleted,
\* and a write finds the entry there.
LEMMA InPlaceKept ==
    ASSUME Ops \subseteq {"create", "write", "sync"}, Tolerant, Next
    PROVE  InPlace'
<1> USE DEF Tolerant, InPlace, Present, Growing
<1>1. CASE Persist
  <2>1. /\ entry' = entry
        /\ \A n \in Names : entryd'[n] = entryd[n] \/ entryd'[n] = entry[n]
    <3>1. ASSUME NEW n \in Names, PersistEntry(n)
          PROVE  \A m \in Names : entryd'[m] = entryd[m] \/ entryd'[m] = entry[m]
      BY <3>1 DEF PersistEntry, Directories, Typed
    <3> QED BY <1>1, <3>1 DEF Persist, cached, PersistFat1, PersistFat2, PersistZero
  <2> QED BY <2>1
<1>2. CASE WriteEntry
  <2>1. /\ op.kind = "create" /\ op.name \in Names /\ ~Present(entry, op.name)
        /\ entryd' = entryd
    BY <1>2 DEF WriteEntry, device, Orderly, Called, Named, Scanning, Point
  <2>2. \A n \in Names \ {op.name} : entry'[n] = entry[n]
    BY <1>2, <2>1 DEF WriteEntry, Typed, Directories
  <2> QED BY <2>1, <2>2
<1>3. CASE SyncEntry
  <2>1. op.name \in Names /\ entryd' = entryd /\ start \in Clusters /\ Present(entry, op.name)
    BY <1>3 DEF SyncEntry, device, Orderly, Named, Control, Walking, Point
  <2>2. PICK m \in InPlaceOf(op.name) :
            entry' = [n \in Names |->
                        IF n = m THEN [home |-> entry[op.name].home, start |-> start]
                        ELSE IF n = op.name THEN NoEntry ELSE entry[n]]
    BY <1>3 DEF SyncEntry
  <2>3. CASE m = op.name
    <3>1. entry[op.name].home \in Clusters
      BY <2>1, EntryOf DEF Typed
    <3>2. /\ entry'[op.name] # NoEntry /\ entry'[op.name].home = entry[op.name].home
          /\ \A n \in Names \ {op.name} : entry'[n] = entry[n]
      BY <2>1, <2>2, <2>3, <3>1, EntryIsPresent
    <3> QED BY <2>1, <3>2
  <2>4. CASE m # op.name
    <3>1. m = NoEntry /\ ~Present(entryd, op.name)
      BY <2>1, <2>4 DEF InPlaceOf
    <3>2. \A n \in Names \ {op.name} : entry'[n] = entry[n]
      BY <2>2, <3>1, NoEntryAssumption
    <3> QED BY <2>1, <3>1, <3>2
  <2> QED BY <2>3, <2>4
<1>4. CASE Crash
  BY <1>4 DEF Crash, device
<1>5. CASE ~Persist /\ ~WriteEntry /\ ~SyncEntry /\ ~Crash
  <2>1. ~MarkDeleted /\ ~Replace
    BY DEF MarkDeleted, Replace
  <2>2. entry' = entry /\ entryd' = entryd
    <3> USE DEF cached, device, Begin
    <3>1. CASE IOError
      BY <3>1 DEF IOError, Abort, HalfWrite, BadRead, Overlooked, Miscount, WalkOn, ScanOn,
          FreeRound, AllocAt, NewFile, NewName, Recounted
    <3>2. CASE \E n \in Names :
                 \/ Create(n) \/ Delete(n) \/ Truncate(n)
                 \/ \E i \in 0 .. MaxIndex : Write(n, i)
                 \/ \E m \in Names : Rename(n, m)
      BY <3>2 DEF Create, NewFile, Delete, Truncate, Write, Rename, NewName
    <3>3. CASE \/ Barrier \/ Flush \/ Alloc \/ AllocNoSpace \/ FreeNext \/ ScanNext
               \/ LinkDir \/ ZeroFirst \/ WalkNext \/ Link \/ FreeOld \/ Sync
      BY <3>3 DEF Barrier, Flush, Alloc, AllocAt, AllocNoSpace, FreeNext, FreeRound, ScanNext,
          ScanOn, LinkDir, ZeroFirst, WalkNext, WalkOn, Link, FreeOld, Sync
    <3>4. CASE Mount \/ Recount \/ (\E k \in 0 .. Last : Mirror(k)) \/ Fsck
      BY <3>4 DEF Mount, Recount, Recounted, Mirror, Fsck
    <3> QED BY <1>5, <2>1, <3>1, <3>2, <3>3, <3>4 DEF Next
  <2> QED BY <2>2
<1> QED BY <1>1, <1>2, <1>3, <1>4, <1>5

\* Every step, of the volume or of its misfortunes, keeps both sides sound.
LEMMA StepTolerant ==
    ASSUME Ops \subseteq {"create", "write", "sync"}, Tolerant, Next
    PROVE  Tolerant'
<1>1. Typed' /\ Orderly' /\ InPlace'
  BY StepTyped, StepOrderly, InPlaceKept DEF Tolerant, Spare, Growing
<1>2. ~FreeNext /\ ~MarkDeleted /\ ~FreeOld /\ ~Replace /\ (\A v : ~FreeRound(v))
      /\ \A n \in Names : ~Delete(n) /\ ~Truncate(n) /\ \A m \in Names : ~NewName(n, m)
  BY DEF FreeNext, FreeRound, MarkDeleted, FreeOld, Replace, Delete, Truncate, NewName, Begin,
         Tolerant, Growing
<1>3. CASE IOError
  <2>1. erred' = TRUE
    BY <1>3 DEF IOError
  <2>2. CASE Abort /\ UNCHANGED device
    BY <1>1, <2>1, <2>2, StopTolerant DEF Tolerant, Grown
  <2>3. CASE HalfWrite /\ UNCHANGED device
    BY <1>1, <2>1, <2>3, HalfWriteTolerant DEF Tolerant, Grown
  <2>4. CASE WalkOn(EOC) \/ ScanOn(EOC)
    <3>1. EOC \in {fat1[cur], EOC} /\ erred' \in {erred, TRUE}
      BY <2>1
    <3> QED BY <1>1, <2>4, <3>1, WalkTolerant DEF Tolerant, Grown
  <2>5. ASSUME NEW c \in Clusters, AllocAt(c)
        PROVE  Tolerant'
    BY <1>1, <2>1, <2>5, TakeTolerant DEF Tolerant, Grown
  <2>6. ASSUME NEW n \in Names, NewFile(n)
        PROVE  Tolerant'
    BY <1>1, <2>1, <2>6, BeginTolerant DEF Tolerant, Grown
  <2>7. CASE Miscount
    BY <1>1, <2>1, <2>7, FsckTolerant DEF Tolerant, Grown
  <2> QED BY <1>2, <1>3, <2>2, <2>3, <2>4, <2>5, <2>6, <2>7 DEF IOError, BadRead, Overlooked
<1>4. Alloc => Grown'
  BY TakeTolerant DEF Alloc
<1>5. WalkNext \/ ScanNext => Grown'
  BY WalkTolerant DEF WalkNext, ScanNext
<1>6. ASSUME NEW n \in Names, Create(n) \/ \E i \in 0 .. MaxIndex : Write(n, i)
      PROVE  Grown'
  <2>1. erred' = erred /\ (NewFile(n) \/ \E i \in 0 .. MaxIndex : Write(n, i))
    BY <1>6 DEF Create, Write
  <2> QED BY <2>1, BeginTolerant
<1>7. Mount \/ Recount \/ (\E k \in 0 .. Last : Mirror(k)) \/ Fsck => Grown'
  BY StopTolerant, FsckTolerant
<1> QED
  BY <1>1, <1>2, <1>3, <1>4, <1>5, <1>6, <1>7, PersistTolerant, WaitsTolerant, StopTolerant,
     CrashIsTolerated, ZeroFirstTolerant, LinksTolerant, EntryTolerant
  DEF Next, Rename, Tolerant, Grown

\* A step of anything else changes neither side.
LEMMA StutterTolerant ==
    ASSUME Tolerant, UNCHANGED vars
    PROVE  Tolerant'
<1> USE DEF vars, cached, device, content, counts, locals
<1>1. Typed' /\ Orderly'
  BY DEF Tolerant, Typed, Orderly, Control, Called, Named, Scanning, Walking, Detached, For, Point
<1>2. BothSound'
  BY SteadyReferences DEF Tolerant
<1>3. /\ \A n \in Names, t \in Clusters : Starts(n, t)' <=> Starts(n, t)
  BY SteadyReferences
<1>4. Fresh' = Fresh /\ Begun' = Begun /\ Scanning' = Scanning /\ Walking' = Walking
      /\ For("zero")' = For("zero")
  BY DEF Fresh, Begun, Scanning, Walking, For, Point
<1>5. Pending'
  BY <1>4 DEF Tolerant, Pending, Loose, PointsTo, Starts
<1>6. Growing' /\ Rebooted' /\ Restored' /\ InPlace'
  BY DEF Tolerant, Growing, Rebooted, Restored, Clean, InPlace
<1>7. ZeroedFirst'
  BY <1>3, <1>4 DEF Tolerant, ZeroedFirst
<1> QED BY <1>1, <1>2, <1>5, <1>6, <1>7 DEF Tolerant

\* What this says of the device.
LEMMA ToleratedFacts ==
    ASSUME Tolerant
    PROVE  CrashTolerant /\ CreatedZeroed /\ Recovered /\ TypeOK
<1>1. \A n \in Started(entryd) : n \in Names /\ entryd[n].start \in Clusters
                                 /\ Starts(n, entryd[n].start)
  BY EntryOf DEF Tolerant, Typed, Started, Starts
<1>2. \A c \in Linked(fat1d) : c \in Clusters /\ fat1d[c] \in Clusters /\ PointsTo(c, fat1d[c])
  BY DEF Linked, IsCluster, PointsTo
<1>3. CrashTolerant
  <2>1. fat1d[Root] # FREE
    BY DEF Tolerant, BothSound
  <2>2. \A n \in Started(entryd) : fat1d[entryd[n].start] # FREE /\ entryd[n].start # Root
    BY <1>1 DEF Tolerant, BothSound
  <2>3. \A c \in Linked(fat1d) : fat1d[fat1d[c]] # FREE /\ fat1d[c] # Root
    BY <1>2 DEF Tolerant, BothSound
  <2>4. \A m, n \in Started(entryd) : entryd[m].start = entryd[n].start => m = n
    BY <1>1 DEF Tolerant, BothSound
  <2>5. \A c, d \in Linked(fat1d) : fat1d[c] = fat1d[d] => c = d
    BY <1>2 DEF Tolerant, BothSound
  <2>6. \A n \in Started(entryd), c \in Linked(fat1d) : entryd[n].start # fat1d[c]
    BY <1>1, <1>2 DEF Tolerant, BothSound
  <2> QED BY <2>1, <2>2, <2>3, <2>4, <2>5, <2>6 DEF CrashTolerant, Sound
<1>4. CreatedZeroed
  BY <1>1 DEF CreatedZeroed, Tolerant, ZeroedFirst
<1>5. Recovered
  BY DEF Recovered, Tolerant, Restored
<1> QED BY <1>3, <1>4, <1>5, Types DEF Tolerant

\* With creations, writes and syncs, whatever fails, a reference on one side
\* of the cache agrees with every reference on the other.
THEOREM TolerantVolume ==
    ASSUME Ops \subseteq {"create", "write", "sync"}
    PROVE  Spec => []Tolerant
<1>1. Init => Tolerant
  BY InitTolerant
<1>2. Tolerant /\ [Next]_vars => Tolerant'
  BY StepTolerant, StutterTolerant
<1> QED BY <1>1, <1>2, PTL DEF Spec

\* With creations, writes and periodic syncs only, the device holds a sound
\* volume at every moment, whatever transfers fail (fat32.c:357).
THEOREM DeviceSound ==
    ASSUME Ops \subseteq {"create", "write", "sync"}
    PROVE  Spec => []CrashTolerant
BY TolerantVolume, ToleratedFacts, PTL

\* Nor does an entry on the device lead to a cluster not zeroed there.
THEOREM DeviceZeroed ==
    ASSUME Ops \subseteq {"create", "write", "sync"}
    PROVE  Spec => []CreatedZeroed
BY TolerantVolume, ToleratedFacts, PTL

\* After a check at boot that was refused no transfer, the free count is exact and
\* the copies of the FAT agree, and so at the end of every operation until a transfer
\* is refused or space runs out (fat32_fsck; a read refused in its count is the one
\* failure that it does not report).
THEOREM DeviceRecovers ==
    ASSUME Ops \subseteq {"create", "write", "sync"}
    PROVE  Spec => []Recovered
BY TolerantVolume, ToleratedFacts, PTL
=============================================================================
