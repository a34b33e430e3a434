---------------------------- MODULE KernelProofs ----------------------------
(***************************************************************************)
(* For each part of KernelParts an inductive invariant: it holds at the    *)
(* start, every step of the part keeps it, and it implies what is asked of *)
(* the part.  PartsProofs draws the conclusions.                           *)
(***************************************************************************)
EXTENDS KernelParts, Integers, FiniteSets, FiniteSetTheorems, WellFoundedInduction, TLAPS

-----------------------------------------------------------------------------
(* What the parts have in common. *)

\* A set of indices that is not empty has a least member.
LEMMA LeastIndex ==
    ASSUME NEW S \in SUBSET Nat, S # {}
    PROVE  \E i \in S : \A j \in S : i <= j
<1>1. PICK i \in S : \A j \in S : ~ (<<j, i>> \in OpToRel(<, Nat))
  BY NatLessThanWellFounded, WFMin
<1>2. \A j \in S : ~ (j < i)
  BY <1>1 DEF OpToRel
<1> QED BY <1>2

-----------------------------------------------------------------------------
(* Address spaces: the frames that directories, tables and entries refer to.  *)

InUseAsTable == Space!Tables \cup Space!ScratchTables
Rooted(f) == {d \in Space!Directories : root[d] = f}
Used(f) == {u \in Space!Tables \X Space!Pages : pte[u[1]][u[2]].frame = f}
Tabled(f) == IF f \in InUseAsTable THEN 1 ELSE 0
Entries == Space!Entry \cup {Space!NoEntry}

SpaceTypes ==
    /\ refs \in [Space!Frames -> Int] /\ data \in [Space!Frames -> Space!Values]
    /\ root \in [Space!Directories -> Space!Frames \cup {Kernel, None}] /\ root[Kernel] = Kernel
    /\ heapTable \in [Space!Directories -> Space!Frames \cup {None}]
    /\ scratch \in [Space!Directories -> Space!Frames \cup {None}]
    /\ pte \in [Space!Frames -> [Space!Pages -> Entries]]
    /\ state \in [Space!Pages -> {"free", "lazy", "reserved"}]
    /\ cur \in Space!Made
    /\ written \in [Space!Pages -> Space!Values]

RefsCounted ==
    \A f \in Space!Frames : refs[f] = Cardinality(Rooted(f)) + Tabled(f) + Cardinality(Used(f))

\* A table is nothing else.
TablesApart == \A f \in InUseAsTable : Rooted(f) = {} /\ Used(f) = {}

\* What the one table shows of page p.
Shown(p) == Space!Look(Kernel, p)
PagesKept ==
    Space!OneTable => \A p \in Space!Pages :
        /\ state[p] = "free" => Shown(p) = Space!NoEntry
        /\ Shown(p) # Space!NoEntry => data[Shown(p).frame] = written[p]
        /\ state[p] = "lazy" /\ Shown(p) = Space!NoEntry => written[p] = 0
        /\ Shown(p).writable => \A q \in Space!Pages : q # p => Shown(q).frame # Shown(p).frame

SpaceInv == SpaceTypes /\ RefsCounted /\ TablesApart /\ PagesKept

\* AddressSpace's cardinality is the library's.
LEMMA SpaceCardinality == \A S : Space!Cardinality(S) = Cardinality(S)
BY DEF Space!Cardinality, Cardinality

\* The constants, as the proofs use them.
LEMMA SpaceConstants ==
    /\ Space!Frames = 1 .. SpaceFrames /\ SpaceFrames \in Nat
    /\ Space!Pages = 1 .. HeapPages /\ HeapPages \in Nat
    /\ None \notin Space!Frames /\ Kernel \notin Space!Frames /\ None # Kernel
    /\ IsFiniteSet(Space!Directories) /\ IsFiniteSet(Space!Frames) /\ IsFiniteSet(Space!Pages)
    /\ Kernel \in Space!Directories
    /\ Space!NoEntry.frame = None /\ Space!NoEntry.writable = FALSE /\ Space!NoEntry.cow = FALSE
    /\ \A e \in Space!Entry : e.frame \in Space!Frames /\ e # Space!NoEntry
                              /\ e.writable \in BOOLEAN /\ e.cow \in BOOLEAN
<1>1. /\ Space!Frames = 1 .. SpaceFrames /\ SpaceFrames \in Nat
      /\ Space!Pages = 1 .. HeapPages /\ HeapPages \in Nat
      /\ None \notin Space!Frames /\ Kernel \notin Space!Frames /\ None # Kernel
  BY SpaceAssumption DEF Space!Frames, Space!Pages
<1>2. IsFiniteSet(UserDirs) /\ IsFiniteSet({Kernel})
  BY SpaceAssumption, FS_Singleton
<1>3. IsFiniteSet(Space!Directories) /\ Kernel \in Space!Directories
  BY <1>2, FS_Union DEF Space!Directories
<1>4. IsFiniteSet(Space!Frames) /\ IsFiniteSet(Space!Pages)
  BY <1>1, FS_Interval
<1>5. Space!NoEntry.frame = None /\ Space!NoEntry.writable = FALSE /\ Space!NoEntry.cow = FALSE
  BY DEF Space!NoEntry
<1>6. \A e \in Space!Entry : e.frame \in Space!Frames /\ e.writable \in BOOLEAN /\ e.cow \in BOOLEAN
  BY DEF Space!Entry
<1>7. \A e \in Space!Entry : e # Space!NoEntry
  BY <1>1, <1>5, <1>6
<1> QED BY <1>1, <1>3, <1>4, <1>5, <1>6, <1>7

\* The counts are counts of finite sets.
LEMMA CountsFinite ==
    ASSUME SpaceTypes
    PROVE  /\ Space!Tables \subseteq Space!Frames /\ InUseAsTable \subseteq Space!Frames
           /\ IsFiniteSet(Space!Tables \X Space!Pages)
           /\ \A f : /\ IsFiniteSet(Rooted(f)) /\ Cardinality(Rooted(f)) \in Nat
                     /\ IsFiniteSet(Used(f)) /\ Cardinality(Used(f)) \in Nat
                     /\ Cardinality(Rooted(f)) = 0 <=> Rooted(f) = {}
                     /\ Cardinality(Used(f)) = 0 <=> Used(f) = {}
                     /\ Tabled(f) \in Nat
<1>1. Space!Tables \subseteq Space!Frames /\ InUseAsTable \subseteq Space!Frames
  BY DEF SpaceTypes, Space!Tables, Space!ScratchTables, InUseAsTable, Space!Made
<1>2. IsFiniteSet(Space!Tables)
  BY <1>1, SpaceConstants, FS_Subset
<1>3. IsFiniteSet(Space!Tables \X Space!Pages)
  BY <1>2, SpaceConstants, FS_Product
<1>4. ASSUME NEW f
      PROVE  /\ IsFiniteSet(Rooted(f)) /\ Cardinality(Rooted(f)) \in Nat
             /\ IsFiniteSet(Used(f)) /\ Cardinality(Used(f)) \in Nat
             /\ Cardinality(Rooted(f)) = 0 <=> Rooted(f) = {}
             /\ Cardinality(Used(f)) = 0 <=> Used(f) = {}
             /\ Tabled(f) \in Nat
  <2>1. Rooted(f) \subseteq Space!Directories /\ Used(f) \subseteq Space!Tables \X Space!Pages
    BY DEF Rooted, Used
  <2>2. IsFiniteSet(Rooted(f)) /\ IsFiniteSet(Used(f))
    BY <1>3, <2>1, SpaceConstants, FS_Subset
  <2> QED BY <2>2, FS_CardinalityType, FS_EmptySet DEF Tabled
<1> QED BY <1>1, <1>3, <1>4

\* A frame without references is not in use.
LEMMA FreeUnused ==
    ASSUME SpaceTypes, RefsCounted, NEW f \in Space!FreeFrames
    PROVE  f \in Space!Frames /\ f \notin InUseAsTable /\ Rooted(f) = {} /\ Used(f) = {}
<1>1. f \in Space!Frames /\ refs[f] = 0
  BY DEF Space!FreeFrames
<1>2. 0 = Cardinality(Rooted(f)) + Tabled(f) + Cardinality(Used(f))
  BY <1>1 DEF RefsCounted
<1>3. Cardinality(Rooted(f)) = 0 /\ Tabled(f) = 0 /\ Cardinality(Used(f)) = 0
  BY <1>2, CountsFinite
<1> QED BY <1>1, <1>3, CountsFinite DEF Tabled

\* The frames that are handed out are free, and not the same.
LEMMA FirstIsFree ==
    /\ Space!FreeFrames # {} => Space!First \in Space!FreeFrames
    /\ Cardinality(Space!FreeFrames) >= 2 => /\ Space!First \in Space!FreeFrames
                                             /\ Space!Second \in Space!FreeFrames
                                             /\ Space!Second # Space!First
    /\ Cardinality(Space!FreeFrames) \in Nat /\ (Cardinality(Space!FreeFrames) >= 1 => Space!FreeFrames # {})
<1> DEFINE F == Space!FreeFrames
<1>1. F \subseteq Space!Frames /\ F \subseteq Nat
  BY SpaceConstants DEF Space!FreeFrames
<1>2. IsFiniteSet(F) /\ Cardinality(F) \in Nat
  BY <1>1, SpaceConstants, FS_Subset, FS_CardinalityType
<1> HIDE DEF F
<1>3. \A S \in SUBSET Nat : S # {} => Space!Min(S) \in S
  BY LeastIndex DEF Space!Min
<1>4. F # {} => Space!Min(F) \in F
  BY <1>1, <1>3
<1>5. Cardinality(F) >= 1 => F # {}
  BY FS_EmptySet
<1>6. ASSUME Cardinality(F) >= 2 PROVE Space!Min(F \ {Space!Min(F)}) \in F \ {Space!Min(F)}
  <2>1. Space!Min(F) \in F
    BY <1>2, <1>4, <1>5, <1>6
  <2>2. Cardinality(F \ {Space!Min(F)}) = Cardinality(F) - 1
    BY <1>2, <2>1, FS_RemoveElement
  <2>3. F \ {Space!Min(F)} # {}
    BY <1>2, <1>6, <2>2, FS_EmptySet
  <2> QED BY <1>1, <1>3, <2>3
<1> QED BY <1>2, <1>4, <1>5, <1>6 DEF F, Space!First, Space!Second

\* The frame that an entry leads to is in use, and is no table.
LEMMA MappedIsUsed ==
    ASSUME SpaceTypes, RefsCounted, TablesApart, NEW d \in Space!Made, NEW p \in Space!Pages
    PROVE  /\ Space!Look(d, p) \in Entries
           /\ heapTable[d] # None => /\ heapTable[d] \in Space!Tables /\ heapTable[d] \in Space!Frames
                                     /\ Space!Look(d, p) = pte[heapTable[d]][p]
           /\ heapTable[d] = None => Space!Look(d, p) = Space!NoEntry
           /\ Space!Look(d, p) # Space!NoEntry =>
                 /\ heapTable[d] # None
                 /\ Space!Look(d, p) \in Space!Entry /\ Space!Look(d, p).frame \in Space!Frames
                 /\ <<heapTable[d], p>> \in Used(Space!Look(d, p).frame)
                 /\ Space!Look(d, p).frame \notin InUseAsTable
                 /\ Space!Look(d, p).frame \notin Space!FreeFrames
           /\ Space!Look(d, p) = Space!NoEntry => Space!Look(d, p).frame = None /\ ~Space!Look(d, p).writable
<1>1. d \in Space!Directories
  BY DEF Space!Made
<1>2. CASE heapTable[d] = None
  BY <1>2, SpaceConstants DEF Space!Look, Entries
<1>3. CASE heapTable[d] # None
  <2>1. heapTable[d] \in Space!Tables /\ heapTable[d] \in Space!Frames /\ Space!Look(d, p) = pte[heapTable[d]][p]
    BY <1>1, <1>3 DEF Space!Tables, Space!Look, SpaceTypes
  <2>2. Space!Look(d, p) \in Entries
    BY <2>1 DEF SpaceTypes
  <2>3. ASSUME Space!Look(d, p) # Space!NoEntry
        PROVE  /\ Space!Look(d, p) \in Space!Entry /\ Space!Look(d, p).frame \in Space!Frames
               /\ <<heapTable[d], p>> \in Used(Space!Look(d, p).frame)
               /\ Space!Look(d, p).frame \notin InUseAsTable
               /\ Space!Look(d, p).frame \notin Space!FreeFrames
    <3>1. Space!Look(d, p) \in Space!Entry
      BY <2>2, <2>3 DEF Entries
    <3>2. Space!Look(d, p).frame \in Space!Frames
      BY <3>1, SpaceConstants
    <3>3. <<heapTable[d], p>> \in Used(Space!Look(d, p).frame)
      BY <2>1 DEF Used
    <3>4. Space!Look(d, p).frame \notin InUseAsTable
      BY <3>3 DEF TablesApart
    <3>5. Space!Look(d, p).frame \notin Space!FreeFrames
      BY <3>3, FreeUnused
    <3> QED BY <3>1, <3>2, <3>3, <3>4, <3>5
  <2> QED BY <1>3, <2>1, <2>2, <2>3, SpaceConstants
<1> QED BY <1>2, <1>3

\* At first no frame is in use, and nothing is mapped.
LEMMA SpaceStart == ASSUME Space!Init PROVE SpaceInv
<1>1. /\ refs = [f \in Space!Frames |-> 0] /\ data = [f \in Space!Frames |-> 1]
      /\ root = [d \in Space!Directories |-> IF d = Kernel THEN Kernel ELSE None]
      /\ heapTable = [d \in Space!Directories |-> None]
      /\ scratch = [d \in Space!Directories |-> None]
      /\ pte = [f \in Space!Frames |-> Space!Empty]
      /\ state = [p \in Space!Pages |-> "free"]
      /\ cur = Kernel
      /\ written = [p \in Space!Pages |-> 0]
  BY DEF Space!Init
<1>2. SpaceTypes
  <2>1. Space!Empty \in [Space!Pages -> Entries]
    BY DEF Space!Empty, Entries
  <2>2. 0 \in Space!Values /\ 1 \in Space!Values
    BY DEF Space!Values
  <2>3. cur \in Space!Made
    BY <1>1, SpaceConstants DEF Space!Made
  <2> QED BY <1>1, <2>1, <2>2, <2>3, SpaceConstants DEF SpaceTypes
<1>3. Space!Tables = {} /\ Space!ScratchTables = {} /\ InUseAsTable = {}
  BY <1>1 DEF Space!Tables, Space!ScratchTables, InUseAsTable, Space!Made
<1>4. ASSUME NEW f \in Space!Frames PROVE Rooted(f) = {} /\ Used(f) = {} /\ Tabled(f) = 0
  BY <1>1, <1>3, SpaceConstants DEF Rooted, Used, Tabled
<1>5. RefsCounted
  BY <1>1, <1>4, FS_EmptySet DEF RefsCounted
<1>6. TablesApart
  BY <1>3 DEF TablesApart
<1>7. \A p \in Space!Pages : Shown(p) = Space!NoEntry
  BY <1>1, SpaceConstants DEF Shown, Space!Look
<1>8. PagesKept
  BY <1>1, <1>7, SpaceConstants DEF PagesKept
<1> QED BY <1>2, <1>5, <1>6, <1>8 DEF SpaceInv

\* The references to f are those that its uses hold.
Counted(f) == refs[f] = Cardinality(Rooted(f)) + Tabled(f) + Cardinality(Used(f))

\* What the current directory shows is what the one table shows.
LEMMA OneTableShows ==
    ASSUME SpaceTypes, Space!OneTable, NEW d \in Space!Made, NEW p \in Space!Pages
    PROVE  Space!Look(d, p) = Shown(p) /\ heapTable[d] = heapTable[Kernel]
<1>1. heapTable[d] = heapTable[Kernel]
  BY DEF Space!OneTable
<1> QED BY <1>1 DEF Shown, Space!Look

\* Entries of the current directory's table change, to what new says.
LEMMA UsesAfter ==
    ASSUME SpaceTypes, cur \in Space!Made, heapTable[cur] # None,
           UNCHANGED <<root, heapTable>>,
           NEW new \in [Space!Pages -> Entries],
           pte' = [pte EXCEPT ![heapTable[cur]] = new],
           NEW f \in Space!Frames
    PROVE  /\ pte' \in [Space!Frames -> [Space!Pages -> Entries]]
           /\ UNCHANGED Space!Tables /\ UNCHANGED Rooted(f) /\ UNCHANGED Space!Made
           /\ heapTable[cur] \in Space!Tables
           /\ \A u : u \in Used(f)' <=>
                 \/ u \in Used(f) /\ u[1] # heapTable[cur]
                 \/ \E p \in Space!Pages : u = <<heapTable[cur], p>> /\ new[p].frame = f
<1>1. cur \in Space!Directories /\ heapTable[cur] \in Space!Frames
  BY DEF Space!Made, SpaceTypes
<1>2. heapTable[cur] \in Space!Tables
  BY DEF Space!Tables
<1>3. UNCHANGED Space!Tables /\ UNCHANGED Rooted(f) /\ UNCHANGED Space!Made
  BY DEF Space!Tables, Rooted, Space!Made
<1>4. pte' \in [Space!Frames -> [Space!Pages -> Entries]]
  BY <1>1 DEF SpaceTypes
<1>5. \A t \in Space!Frames : pte'[t] = IF t = heapTable[cur] THEN new ELSE pte[t]
  BY <1>1 DEF SpaceTypes
<1>6. Used(f) = {u \in Space!Tables \X Space!Pages : pte[u[1]][u[2]].frame = f}
  BY DEF Used
<1>7. Used(f)' = {u \in Space!Tables \X Space!Pages : pte'[u[1]][u[2]].frame = f}
  BY <1>3 DEF Used
<1>8. Space!Tables \subseteq Space!Frames
  BY CountsFinite
<1>9. ASSUME NEW u
      PROVE  u \in Used(f)' <=>
                 \/ u \in Used(f) /\ u[1] # heapTable[cur]
                 \/ \E p \in Space!Pages : u = <<heapTable[cur], p>> /\ new[p].frame = f
  <2>1. ASSUME u \in Used(f)'
        PROVE  \/ u \in Used(f) /\ u[1] # heapTable[cur]
               \/ \E p \in Space!Pages : u = <<heapTable[cur], p>> /\ new[p].frame = f
    <3>1. PICK t \in Space!Tables, p \in Space!Pages : u = <<t, p>> /\ pte'[t][p].frame = f
      BY <1>7, <2>1
    <3> QED BY <1>5, <1>6, <1>8, <3>1
  <2>2. ASSUME u \in Used(f), u[1] # heapTable[cur] PROVE u \in Used(f)'
    BY <1>5, <1>6, <1>7, <1>8, <2>2
  <2>3. ASSUME NEW p \in Space!Pages, u = <<heapTable[cur], p>>, new[p].frame = f
        PROVE  u \in Used(f)'
    BY <1>2, <1>5, <1>7, <1>8, <2>3
  <2> QED BY <2>1, <2>2, <2>3
<1> QED BY <1>2, <1>3, <1>4, <1>9

\* The frame that one page of the current directory is mapped to changes.
LEMMA UsesCounted ==
    ASSUME SpaceTypes, cur \in Space!Made, heapTable[cur] # None,
           UNCHANGED <<root, heapTable>>,
           NEW new \in [Space!Pages -> Entries],
           pte' = [pte EXCEPT ![heapTable[cur]] = new],
           NEW p \in Space!Pages,
           \A q \in Space!Pages : q # p => new[q].frame = pte[heapTable[cur]][q].frame,
           NEW f \in Space!Frames
    PROVE  /\ f = new[p].frame /\ f # pte[heapTable[cur]][p].frame =>
                 Used(f)' = Used(f) \cup {<<heapTable[cur], p>>}
                 /\ Cardinality(Used(f)') = Cardinality(Used(f)) + 1
           /\ f # new[p].frame /\ f = pte[heapTable[cur]][p].frame =>
                 Used(f)' \subseteq Used(f)
                 /\ Cardinality(Used(f)') = Cardinality(Used(f)) - 1
           /\ (f = new[p].frame <=> f = pte[heapTable[cur]][p].frame) => Used(f)' = Used(f)
<1> DEFINE T == heapTable[cur]
           u0 == <<T, p>>
           now == \E q \in Space!Pages : q = p /\ new[q].frame = f
           before == pte[T][p].frame = f
<1>1. \A u : u \in Used(f)' <=>
                 \/ u \in Used(f) /\ u[1] # T
                 \/ \E q \in Space!Pages : u = <<T, q>> /\ new[q].frame = f
  BY UsesAfter
<1>2. T \in Space!Tables
  BY UsesAfter
<1>3. Used(f) = {u \in Space!Tables \X Space!Pages : pte[u[1]][u[2]].frame = f}
  BY DEF Used
<1>4. \A q \in Space!Pages : <<T, q>> \in Used(f) <=> pte[T][q].frame = f
  BY <1>2, <1>3
<1>5. \A u \in Used(f) : u[1] = T => \E q \in Space!Pages : u = <<T, q>>
  BY <1>3
<1>6. u0 \in Used(f)' <=> new[p].frame = f
  BY <1>1
<1>7. u0 \in Used(f) <=> pte[T][p].frame = f
  BY <1>4
<1>8. \A u : u # u0 => (u \in Used(f)' <=> u \in Used(f))
  <2>1. ASSUME NEW u, u # u0, u \in Used(f)' PROVE u \in Used(f)
    BY <1>1, <1>4, <2>1
  <2>2. ASSUME NEW u, u # u0, u \in Used(f) PROVE u \in Used(f)'
    BY <1>1, <1>4, <1>5, <2>2
  <2> QED BY <2>1, <2>2
<1>9. IsFiniteSet(Used(f)) /\ Cardinality(Used(f)) \in Nat
  BY CountsFinite
<1> HIDE DEF u0
<1>10. ASSUME f = new[p].frame, f # pte[T][p].frame
       PROVE  Used(f)' = Used(f) \cup {u0} /\ Cardinality(Used(f)') = Cardinality(Used(f)) + 1
  <2>1. Used(f)' = Used(f) \cup {u0}
    BY <1>6, <1>8, <1>10
  <2>2. u0 \notin Used(f)
    BY <1>7, <1>10
  <2> QED BY <1>9, <2>1, <2>2, FS_AddElement
<1>11. ASSUME f # new[p].frame, f = pte[T][p].frame
       PROVE  Used(f)' \subseteq Used(f) /\ Cardinality(Used(f)') = Cardinality(Used(f)) - 1
  <2>1. Used(f)' = Used(f) \ {u0}
    BY <1>6, <1>8, <1>11
  <2>2. u0 \in Used(f)
    BY <1>7, <1>11
  <2> QED BY <1>9, <2>1, <2>2, FS_RemoveElement
<1>12. ASSUME f = new[p].frame <=> f = pte[T][p].frame
       PROVE  Used(f)' = Used(f)
  BY <1>6, <1>7, <1>8, <1>12
<1> QED BY <1>10, <1>11, <1>12 DEF u0

\* A function stays of its type when some of its values change.
LEMMA ExceptTyped ==
    ASSUME NEW S, NEW V, NEW g \in [S -> V], NEW a, NEW v \in V, NEW b, NEW w \in V
    PROVE  [g EXCEPT ![a] = v] \in [S -> V] /\ [g EXCEPT ![a] = v, ![b] = w] \in [S -> V]
OBVIOUS

\* What the one table shows leads to no free frame.
LEMMA ShownInUse ==
    ASSUME SpaceTypes, RefsCounted, TablesApart, NEW q \in Space!Pages
    PROVE  /\ Shown(q) \in Entries
           /\ Shown(q) # Space!NoEntry => Shown(q).frame \in Space!Frames
           /\ Shown(q) = Space!NoEntry => Shown(q).frame = None /\ Shown(q).writable = FALSE
           /\ \A f \in Space!FreeFrames : Shown(q).frame # f
<1>1. Kernel \in Space!Made
  BY SpaceConstants DEF SpaceTypes, Space!Made
<1>2. CASE Shown(q) = Space!NoEntry
  <2>1. \A f \in Space!FreeFrames : f # None
    BY SpaceConstants DEF Space!FreeFrames
  <2> QED BY <1>2, <2>1, SpaceConstants DEF Entries
<1>3. CASE Shown(q) # Space!NoEntry
  <2>1. /\ Space!Look(Kernel, q) \in Entries /\ Space!Look(Kernel, q).frame \in Space!Frames
        /\ Space!Look(Kernel, q).frame \notin Space!FreeFrames
    BY <1>1, <1>3, MappedIsUsed DEF Shown
  <2> QED BY <1>3, <2>1 DEF Shown
<1> QED BY <1>2, <1>3

\* A frame that is in use nowhere else is counted once for its table.
LEMMA TablesCounted ==
    ASSUME SpaceTypes, RefsCounted, TablesApart, NEW t \in InUseAsTable
    PROVE  t \in Space!Frames /\ refs[t] = 1 /\ t \notin Space!FreeFrames
<1>1. t \in Space!Frames
  BY CountsFinite
<1>2. Rooted(t) = {} /\ Used(t) = {} /\ Tabled(t) = 1
  BY DEF TablesApart, Tabled
<1>3. refs[t] = 0 + 1 + 0
  BY <1>1, <1>2, FS_EmptySet DEF RefsCounted
<1> QED BY <1>1, <1>3 DEF Space!FreeFrames

\* What no step but the ones below can disturb.
LEMMA CountsUnchanged ==
    ASSUME UNCHANGED <<root, heapTable, scratch, pte>>
    PROVE  /\ UNCHANGED Space!Made /\ UNCHANGED Space!Tables /\ UNCHANGED InUseAsTable
           /\ \A f : Rooted(f)' = Rooted(f) /\ Used(f)' = Used(f) /\ Tabled(f)' = Tabled(f)
           /\ TablesApart => TablesApart'
           /\ RefsCounted /\ refs' = refs => RefsCounted'
           /\ \A p : Shown(p)' = Shown(p)
           /\ Space!OneTable' = Space!OneTable
<1>1. UNCHANGED Space!Made
  BY DEF Space!Made
<1>2. UNCHANGED Space!Tables /\ UNCHANGED Space!ScratchTables
  BY <1>1 DEF Space!Tables, Space!ScratchTables
<1>3. UNCHANGED InUseAsTable
  BY <1>2 DEF InUseAsTable
<1>4. \A f : Rooted(f)' = Rooted(f) /\ Used(f)' = Used(f) /\ Tabled(f)' = Tabled(f)
  BY <1>2, <1>3 DEF Rooted, Used, Tabled
<1>5. TablesApart => TablesApart'
  BY <1>3, <1>4 DEF TablesApart
<1>6. RefsCounted /\ refs' = refs => RefsCounted'
  BY <1>4 DEF RefsCounted
<1>7. \A p : Shown(p)' = Shown(p)
  BY DEF Shown, Space!Look
<1>8. Space!OneTable' = Space!OneTable
  BY <1>1 DEF Space!OneTable
<1> QED BY <1>1, <1>2, <1>3, <1>4, <1>5, <1>6, <1>7, <1>8

\* A step that leaves the memory alone keeps SpaceInv.
LEMMA SpaceUnchanged ==
    ASSUME SpaceInv, UNCHANGED <<refs, data, root, heapTable, scratch, pte, state, cur, written>>
    PROVE  SpaceInv'
<1>1. UNCHANGED <<refs, data, root, heapTable, scratch, pte, state, cur, written>>
  OBVIOUS
<1>2. SpaceTypes'
  BY <1>1, CountsUnchanged DEF SpaceInv, SpaceTypes
<1>3. RefsCounted' /\ TablesApart'
  BY <1>1, CountsUnchanged DEF SpaceInv
<1>4. PagesKept'
  BY <1>1 DEF SpaceInv, PagesKept, Shown, Space!Look, Space!OneTable, Space!Made
<1> QED BY <1>2, <1>3, <1>4 DEF SpaceInv

\* paging_create_user_directory_phys takes a free frame, and shares tables.
LEMMA CreateDirectoryKept ==
    ASSUME SpaceInv, NEW d \in UserDirs, Space!CreateDirectory(d)
    PROVE  SpaceInv'
<1>0. SpaceTypes /\ RefsCounted /\ TablesApart /\ PagesKept
  BY DEF SpaceInv
<1>a. Space!FreeFrames # {}
  BY DEF Space!CreateDirectory
<1>b. PICK n \in Space!FreeFrames : n = Space!First
  BY <1>a, FirstIsFree
<1>1. /\ cur = Kernel /\ root[d] = None /\ Space!FreeFrames # {}
      /\ refs' = [refs EXCEPT ![n] = 1]
      /\ root' = [root EXCEPT ![d] = n]
      /\ heapTable' = [heapTable EXCEPT ![d] = heapTable[Kernel]]
      /\ scratch' = [scratch EXCEPT ![d] = scratch[Kernel]]
      /\ UNCHANGED <<data, pte, state, cur, written>>
  BY <1>b DEF Space!CreateDirectory, Space!Copied
<1>3. n \in Space!Frames /\ n \notin InUseAsTable /\ Rooted(n) = {} /\ Used(n) = {}
  BY <1>0, FreeUnused
<1>4. d \in Space!Directories /\ d # Kernel /\ n # None
  BY <1>0, <1>1, <1>3, SpaceConstants DEF Space!Directories, SpaceTypes
<1>5. Space!Made' = Space!Made \cup {d} /\ d \notin Space!Made /\ Kernel \in Space!Made
  BY <1>0, <1>1, <1>4, SpaceConstants DEF SpaceTypes, Space!Made
<1>6. /\ \A c \in Space!Made : heapTable'[c] = heapTable[c] /\ scratch'[c] = scratch[c]
      /\ heapTable'[d] = heapTable[Kernel] /\ scratch'[d] = scratch[Kernel]
  BY <1>0, <1>1, <1>4, <1>5 DEF SpaceTypes, Space!Made
<1>7. UNCHANGED Space!Tables /\ UNCHANGED Space!ScratchTables
  BY <1>5, <1>6 DEF Space!Tables, Space!ScratchTables
<1>8. UNCHANGED InUseAsTable
  BY <1>7 DEF InUseAsTable
<1>9. \A f : Used(f)' = Used(f) /\ Tabled(f)' = Tabled(f)
  BY <1>1, <1>7, <1>8 DEF Used, Tabled
<1>10. \A c \in Space!Directories : root'[c] = IF c = d THEN n ELSE root[c]
  BY <1>0, <1>1 DEF SpaceTypes
<1>11. \A f \in Space!Frames : f # n => Rooted(f)' = Rooted(f)
  BY <1>1, <1>4, <1>10, SpaceConstants DEF Rooted
<1>12. Rooted(n)' = {d}
  BY <1>3, <1>4, <1>10 DEF Rooted
<1>13. Cardinality({d}) = 1 /\ Cardinality({}) = 0
  BY FS_Singleton, FS_EmptySet
<1>14. RefsCounted'
  <2> SUFFICES ASSUME NEW f \in Space!Frames
               PROVE  refs'[f] = Cardinality(Rooted(f)') + Tabled(f)' + Cardinality(Used(f)')
    BY DEF RefsCounted
  <2>1. CASE f = n
    <3>1. refs'[f] = 1 /\ Cardinality(Rooted(f)') = 1 /\ Tabled(f)' = 0 /\ Cardinality(Used(f)') = 0
      BY <1>0, <1>1, <1>3, <1>9, <1>12, <1>13, <2>1 DEF SpaceTypes, Tabled
    <3> QED BY <3>1
  <2>2. CASE f # n
    <3>1. refs'[f] = refs[f]
      BY <1>0, <1>1, <2>2 DEF SpaceTypes
    <3> QED BY <1>0, <1>9, <1>11, <2>2, <3>1 DEF RefsCounted
  <2> QED BY <2>1, <2>2
<1>15. TablesApart'
  <2>1. \A f \in InUseAsTable : f \in Space!Frames /\ f # n
    BY <1>0, <1>3, CountsFinite
  <2> QED BY <1>0, <1>8, <1>9, <1>11, <2>1 DEF TablesApart
<1>16. SpaceTypes'
  BY <1>0, <1>1, <1>3, <1>4, <1>5, SpaceConstants DEF SpaceTypes
<1>17. PagesKept'
  <2>1. Space!OneTable' => Space!OneTable
    BY <1>1, <1>4, <1>5, <1>6 DEF Space!OneTable
  <2>2. heapTable'[Kernel] = heapTable[Kernel]
    BY <1>5, <1>6
  <2> QED BY <1>0, <1>1, <2>1, <2>2 DEF PagesKept, Shown, Space!Look
<1> QED BY <1>14, <1>15, <1>16, <1>17 DEF SpaceInv

\* paging_switch_directory
LEMMA SwitchKept ==
    ASSUME SpaceInv, NEW d \in Space!Directories, Space!Switch(d)
    PROVE  SpaceInv'
<1>1. /\ UNCHANGED <<refs, data, root, heapTable, scratch, pte, state, written>>
      /\ cur' = d /\ root[d] # None
  BY DEF Space!Switch
<1>2. RefsCounted' /\ TablesApart' /\ UNCHANGED Space!Made
  BY <1>1, CountsUnchanged DEF SpaceInv
<1>3. SpaceTypes'
  BY <1>1, <1>2 DEF SpaceInv, SpaceTypes, Space!Made
<1>4. PagesKept'
  BY <1>1 DEF SpaceInv, PagesKept, Shown, Space!Look, Space!OneTable, Space!Made
<1> QED BY <1>2, <1>3, <1>4 DEF SpaceInv

\* allocate_virtual_pages hands out pages that are not mapped.
LEMMA AllocateKept ==
    ASSUME SpaceInv, NEW number \in Space!Pages, Space!Allocate(number)
    PROVE  SpaceInv'
<1>0. SpaceTypes /\ RefsCounted /\ TablesApart /\ PagesKept
  BY DEF SpaceInv
<1>1. PICK first \in Space!Pages :
          /\ Space!Run(first, number) \subseteq {p \in Space!Pages : state[p] = "free"}
          /\ state' = [p \in Space!Pages |-> IF p \in Space!Run(first, number) THEN "lazy" ELSE state[p]]
          /\ written' = [p \in Space!Pages |-> IF p \in Space!Run(first, number) THEN 0 ELSE written[p]]
          /\ UNCHANGED <<refs, data, root, heapTable, scratch, pte, cur>>
  BY DEF Space!Allocate
<1> DEFINE R == Space!Run(first, number)
<1> HIDE DEF R
<1>2. /\ \A p \in R : p \in Space!Pages /\ state[p] = "free"
      /\ \A p \in Space!Pages : /\ state'[p] = IF p \in R THEN "lazy" ELSE state[p]
                                /\ written'[p] = IF p \in R THEN 0 ELSE written[p]
      /\ state' \in [Space!Pages -> {"free", "lazy", "reserved"}]
      /\ written' \in [Space!Pages -> Space!Values]
  BY <1>0, <1>1 DEF R, SpaceTypes, Space!Values
<1>3. RefsCounted' /\ TablesApart' /\ UNCHANGED Space!Made
  BY <1>0, <1>1, CountsUnchanged
<1>4. SpaceTypes'
  BY <1>0, <1>1, <1>2, <1>3 DEF SpaceTypes
<1>5. PagesKept'
  <2>1. Space!OneTable' = Space!OneTable /\ \A p : Shown(p)' = Shown(p)
    BY <1>1, CountsUnchanged
  <2> SUFFICES ASSUME Space!OneTable, NEW p \in Space!Pages
      PROVE /\ state'[p] = "free" => Shown(p) = Space!NoEntry
            /\ Shown(p) # Space!NoEntry => data[Shown(p).frame] = written'[p]
            /\ state'[p] = "lazy" /\ Shown(p) = Space!NoEntry => written'[p] = 0
            /\ Shown(p).writable => \A q \in Space!Pages : q # p => Shown(q).frame # Shown(p).frame
    BY <1>1, <2>1 DEF PagesKept
  <2> QED BY <1>0, <1>2 DEF PagesKept
<1> QED BY <1>3, <1>4, <1>5 DEF SpaceInv

\* A write changes what one page shows.
LEMMA WriteKept ==
    ASSUME SpaceInv, NEW p \in Space!Pages, NEW v \in Space!Values, Space!Write(p, v)
    PROVE  SpaceInv'
<1>0. SpaceTypes /\ RefsCounted /\ TablesApart /\ PagesKept
  BY DEF SpaceInv
<1>1. /\ state[p] # "free" /\ Space!Look(cur, p).writable
      /\ data' = [data EXCEPT ![Space!Look(cur, p).frame] = v]
      /\ written' = [written EXCEPT ![p] = v]
      /\ UNCHANGED <<refs, root, heapTable, scratch, pte, state, cur>>
  BY DEF Space!Write
<1>2. RefsCounted' /\ TablesApart' /\ UNCHANGED Space!Made
  BY <1>0, <1>1, CountsUnchanged
<1>3. SpaceTypes'
  BY <1>0, <1>1, <1>2 DEF SpaceTypes
<1>4. PagesKept'
  <2>1. Space!OneTable' = Space!OneTable /\ \A q : Shown(q)' = Shown(q)
    BY <1>1, CountsUnchanged
  <2> SUFFICES ASSUME Space!OneTable, NEW q \in Space!Pages
      PROVE /\ state[q] = "free" => Shown(q) = Space!NoEntry
            /\ Shown(q) # Space!NoEntry => data'[Shown(q).frame] = written'[q]
            /\ state[q] = "lazy" /\ Shown(q) = Space!NoEntry => written'[q] = 0
            /\ Shown(q).writable => \A r \in Space!Pages : r # q => Shown(r).frame # Shown(q).frame
    BY <1>1, <2>1 DEF PagesKept
  <2>2. Space!Look(cur, p) = Shown(p)
    BY <1>0, OneTableShows DEF SpaceTypes
  <2>3. cur \in Space!Made /\ Kernel \in Space!Made
    BY <1>0, SpaceConstants DEF SpaceTypes, Space!Made
  <2>4. Shown(p) # Space!NoEntry /\ Shown(p).frame \in Space!Frames
    BY <1>0, <1>1, <2>2, <2>3, MappedIsUsed
  <2>5. CASE q = p
    BY <1>0, <1>1, <2>2, <2>4, <2>5 DEF PagesKept, SpaceTypes
  <2>6. CASE q # p
    <3>1. Shown(q).frame # Shown(p).frame
      BY <1>0, <1>1, <2>2, <2>6 DEF PagesKept
    <3>2. Shown(q) # Space!NoEntry => Shown(q).frame \in Space!Frames
      BY <1>0, <2>3, MappedIsUsed DEF Shown
    <3> QED BY <1>0, <1>1, <2>2, <2>4, <2>6, <3>1, <3>2 DEF PagesKept, SpaceTypes
  <2> QED BY <2>5, <2>6
<1> QED BY <1>2, <1>3, <1>4 DEF SpaceInv

\* vm_handle_lazy_fault where the current directory has the heap's table.
LEMMA LazyFaultKept ==
    ASSUME SpaceInv, NEW p \in Space!Pages,
           state[p] = "lazy", Space!Look(cur, p) = Space!NoEntry, heapTable[cur] # None,
           NEW f \in Space!FreeFrames, NEW e \in Space!Entry,
           e = [frame |-> f, writable |-> TRUE, cow |-> FALSE],
           refs' = [refs EXCEPT ![f] = 1, ![heapTable[cur]] = 1],
           pte' = [pte EXCEPT ![heapTable[cur]] = [@ EXCEPT ![p] = e]],
           data' = [data EXCEPT ![f] = 0],
           state' = [state EXCEPT ![p] = "reserved"],
           UNCHANGED <<root, heapTable, scratch, cur, written>>
    PROVE  SpaceInv'
<1>0. SpaceTypes /\ RefsCounted /\ TablesApart /\ PagesKept
  BY DEF SpaceInv
<1>1. f \in Space!Frames /\ f \notin InUseAsTable /\ Rooted(f) = {} /\ Used(f) = {} /\ Tabled(f) = 0
  BY <1>0, FreeUnused DEF Tabled
<1>2. cur \in Space!Made /\ Kernel \in Space!Made
  BY <1>0, SpaceConstants DEF SpaceTypes, Space!Made
<1>3. PICK t \in Space!Frames : t = heapTable[cur] /\ t \in Space!Tables /\ pte[t][p] = Space!NoEntry
  BY <1>0, <1>2, MappedIsUsed
<1>4. t \in InUseAsTable /\ refs[t] = 1 /\ t # f
  BY <1>0, <1>1, <1>3, TablesCounted DEF InUseAsTable
<1>5. PICK new \in [Space!Pages -> Entries] : new = [pte[t] EXCEPT ![p] = e]
  BY <1>0 DEF SpaceTypes, Entries
<1>6. /\ pte' = [pte EXCEPT ![heapTable[cur]] = new] /\ new[p] = e
      /\ \A q \in Space!Pages : q # p => new[q] = pte[heapTable[cur]][q]
  BY <1>0, <1>3, <1>5 DEF SpaceTypes
<1>7. e.frame = f /\ e.writable = TRUE /\ pte[heapTable[cur]][p].frame = None
  BY <1>3, SpaceConstants
<1>8. ASSUME NEW g \in Space!Frames
      PROVE  /\ g = f => Used(g)' = Used(g) \cup {<<heapTable[cur], p>>}
                         /\ Cardinality(Used(g)') = Cardinality(Used(g)) + 1
             /\ g # f => Used(g)' = Used(g)
             /\ Rooted(g)' = Rooted(g)
  <2>1. \A q \in Space!Pages : q # p => new[q].frame = pte[heapTable[cur]][q].frame
    BY <1>6
  <2>2. Rooted(g)' = Rooted(g)
    BY <1>0, <1>2, <1>3, <1>6, UsesAfter, SpaceConstants
  <2>3. g # None
    BY SpaceConstants
  <2>4. heapTable[cur] # None /\ UNCHANGED <<root, heapTable>>
    OBVIOUS
  <2>5. /\ g = new[p].frame /\ g # pte[heapTable[cur]][p].frame =>
                 Used(g)' = Used(g) \cup {<<heapTable[cur], p>>}
                 /\ Cardinality(Used(g)') = Cardinality(Used(g)) + 1
        /\ (g = new[p].frame <=> g = pte[heapTable[cur]][p].frame) => Used(g)' = Used(g)
    BY <1>0, <1>2, <1>6, <2>1, <2>4, UsesCounted
  <2> QED BY <1>6, <1>7, <2>2, <2>3, <2>5
<1>9. UNCHANGED Space!Made /\ UNCHANGED Space!Tables /\ UNCHANGED InUseAsTable
  BY DEF Space!Made, Space!Tables, Space!ScratchTables, InUseAsTable
<1>10. RefsCounted'
  <2> SUFFICES ASSUME NEW g \in Space!Frames
               PROVE  refs'[g] = Cardinality(Rooted(g)') + Tabled(g)' + Cardinality(Used(g)')
    BY DEF RefsCounted
  <2>1. Tabled(g)' = Tabled(g)
    BY <1>9 DEF Tabled
  <2>2. refs[g] = Cardinality(Rooted(g)) + Tabled(g) + Cardinality(Used(g))
    BY <1>0 DEF RefsCounted
  <2>3. refs'[g] = IF g = f THEN 1 ELSE refs[g]
    BY <1>0, <1>3, <1>4 DEF SpaceTypes
  <2>4. Cardinality({}) = 0
    BY FS_EmptySet
  <2>5. CASE g = f
    <3>1. Cardinality(Rooted(g)') = 0 /\ Tabled(g)' = 0 /\ Cardinality(Used(g)) = 0
      BY <1>1, <1>8, <2>1, <2>4, <2>5
    <3>2. Cardinality(Used(g)') = 0 + 1
      BY <1>8, <2>5, <3>1
    <3> QED BY <2>3, <2>5, <3>1, <3>2
  <2>6. CASE g # f
    BY <1>8, <2>1, <2>2, <2>3, <2>6
  <2> QED BY <2>5, <2>6
<1>11. TablesApart'
  <2>1. \A g \in InUseAsTable : g \in Space!Frames /\ g # f
    BY <1>0, <1>1, CountsFinite
  <2> QED BY <1>0, <1>8, <1>9, <2>1 DEF TablesApart
<1>12. SpaceTypes'
  <2>1. pte' \in [Space!Frames -> [Space!Pages -> Entries]]
    BY <1>0, <1>2, <1>3, <1>6, UsesAfter
  <2>2. refs' \in [Space!Frames -> Int]
    <3>1. refs \in [Space!Frames -> Int] /\ 1 \in Int
      BY <1>0 DEF SpaceTypes
    <3> QED BY <3>1, ExceptTyped
  <2>3. data' \in [Space!Frames -> Space!Values]
    <3>1. data \in [Space!Frames -> Space!Values] /\ 0 \in Space!Values
      BY <1>0 DEF SpaceTypes, Space!Values
    <3> QED BY <3>1, ExceptTyped
  <2>4. state' \in [Space!Pages -> {"free", "lazy", "reserved"}]
    BY <1>0 DEF SpaceTypes
  <2> QED BY <1>0, <1>2, <1>9, <2>1, <2>2, <2>3, <2>4 DEF SpaceTypes
<1>13. PagesKept'
  <2>1. Space!OneTable' = Space!OneTable
    BY DEF Space!OneTable, Space!Made
  <2> SUFFICES ASSUME Space!OneTable PROVE PagesKept'
    BY <2>1 DEF PagesKept
  <2>2. heapTable[Kernel] = t
    BY <1>0, <1>2, <1>3, OneTableShows
  <2>3. \A q \in Space!Pages : Shown(q) = pte[t][q] /\ Shown(q)' = new[q]
    BY <1>0, <1>3, <1>6, <2>2, SpaceConstants DEF Shown, Space!Look, SpaceTypes
  <2>4. \A q \in Space!Pages : q # p => Shown(q)' = Shown(q)
    BY <1>3, <1>6, <2>3
  <2>5. Shown(p)' = e /\ Shown(p) = Space!NoEntry
    BY <1>3, <1>6, <2>3
  <2>6. \A q \in Space!Pages : Shown(q).frame # f
                               /\ (Shown(q) # Space!NoEntry => Shown(q).frame \in Space!Frames)
    BY <1>0, ShownInUse
  <2> SUFFICES ASSUME NEW q \in Space!Pages
      PROVE /\ state'[q] = "free" => Shown(q)' = Space!NoEntry
            /\ Shown(q)' # Space!NoEntry => data'[Shown(q)'.frame] = written[q]
            /\ state'[q] = "lazy" /\ Shown(q)' = Space!NoEntry => written[q] = 0
            /\ Shown(q)'.writable => \A r \in Space!Pages : r # q => Shown(r)'.frame # Shown(q)'.frame
    BY DEF PagesKept
  <2>7. CASE q = p
    <3>1. written[p] = 0
      BY <1>0, <2>5 DEF PagesKept
    <3>2. state'[p] = "reserved" /\ data'[f] = 0
      BY <1>0, <1>1 DEF SpaceTypes
    <3> QED BY <1>7, <2>4, <2>5, <2>6, <2>7, <3>1, <3>2, SpaceConstants
  <2>8. CASE q # p
    <3>1. state'[q] = state[q]
      BY <1>0, <2>8 DEF SpaceTypes
    <3>2. Shown(q)' = Shown(q)
      BY <2>4, <2>8
    <3>3. Shown(q) # Space!NoEntry => data'[Shown(q).frame] = data[Shown(q).frame]
      BY <1>0, <1>1, <2>6 DEF SpaceTypes
    <3>4. Shown(q).writable => \A r \in Space!Pages : r # q => Shown(r)'.frame # Shown(q).frame
      BY <1>0, <1>7, <2>4, <2>5, <2>6 DEF PagesKept
    <3> QED BY <1>0, <3>1, <3>2, <3>3, <3>4 DEF PagesKept
  <2> QED BY <2>7, <2>8
<1> QED BY <1>10, <1>11, <1>12, <1>13 DEF SpaceInv

\* vm_handle_lazy_fault where the current directory has no table for the heap.
LEMMA FirstTouchKept ==
    ASSUME SpaceInv, NEW p \in Space!Pages,
           state[p] = "lazy", heapTable[cur] = None,
           NEW f \in Space!FreeFrames, NEW t \in Space!FreeFrames, t # f,
           NEW new \in [Space!Pages -> Entries], NEW e \in Space!Entry,
           new[p] = e, \A q \in Space!Pages : q # p => new[q] = Space!NoEntry,
           e = [frame |-> f, writable |-> TRUE, cow |-> FALSE],
           refs' = [refs EXCEPT ![f] = 1, ![t] = 1],
           heapTable' = [heapTable EXCEPT ![cur] = t],
           pte' = [pte EXCEPT ![t] = new],
           data' = [data EXCEPT ![f] = 0],
           state' = [state EXCEPT ![p] = "reserved"],
           UNCHANGED <<root, scratch, cur, written>>
    PROVE  SpaceInv'
<1>0. SpaceTypes /\ RefsCounted /\ TablesApart /\ PagesKept
  BY DEF SpaceInv
<1>1. /\ f \in Space!Frames /\ f \notin InUseAsTable /\ Rooted(f) = {} /\ Used(f) = {}
      /\ t \in Space!Frames /\ t \notin InUseAsTable /\ Rooted(t) = {} /\ Used(t) = {}
  BY <1>0, FreeUnused
<1>2. cur \in Space!Made /\ Kernel \in Space!Made /\ cur \in Space!Directories
  BY <1>0, SpaceConstants DEF SpaceTypes, Space!Made
<1>3. /\ new[p] = e /\ e.frame = f /\ e.writable = TRUE
      /\ \A q \in Space!Pages : q # p => new[q] = Space!NoEntry
  OBVIOUS
<1>4. UNCHANGED Space!Made /\ UNCHANGED Space!ScratchTables
  BY DEF Space!Made, Space!ScratchTables
<1>5. /\ heapTable'[cur] = t
      /\ \A d \in Space!Directories : d # cur => heapTable'[d] = heapTable[d]
  BY <1>0, <1>2 DEF SpaceTypes
<1>6. Space!Tables' = Space!Tables \cup {t} /\ t # None
  <2>1. t # None
    BY <1>1, SpaceConstants
  <2>2. \A d \in Space!Made : d \in Space!Directories
    BY DEF Space!Made
  <2> QED BY <1>2, <1>4, <1>5, <2>1, <2>2 DEF Space!Tables
<1>7. t \notin Space!Tables /\ Space!Tables \subseteq Space!Frames /\ InUseAsTable' = InUseAsTable \cup {t}
  BY <1>0, <1>1, <1>4, <1>6, CountsFinite DEF InUseAsTable
<1>8. /\ \A s \in Space!Tables : pte'[s] = pte[s]
      /\ pte'[t] = new
  BY <1>0, <1>1, <1>7 DEF SpaceTypes
<1>9. \A g \in Space!Frames :
          /\ Used(g) = {u \in Space!Tables \X Space!Pages : pte[u[1]][u[2]].frame = g}
          /\ Used(g)' = {u \in (Space!Tables \cup {t}) \X Space!Pages : pte'[u[1]][u[2]].frame = g}
  BY <1>6 DEF Used
<1>10. \A g \in Space!Frames, q \in Space!Pages : pte'[t][q].frame = g <=> q = p /\ g = f
  <2>1. \A q \in Space!Pages : q # p => pte'[t][q].frame = None
    BY <1>3, <1>8, SpaceConstants
  <2>2. pte'[t][p].frame = f
    BY <1>3, <1>8
  <2>3. \A g \in Space!Frames : g # None
    BY SpaceConstants
  <2> QED BY <2>1, <2>2, <2>3
<1>11. ASSUME NEW g \in Space!Frames, g # f PROVE Used(g)' = Used(g)
  <2>1. ASSUME NEW u \in Used(g)' PROVE u \in Used(g)
    <3>1. PICK s \in Space!Tables \cup {t}, q \in Space!Pages : u = <<s, q>> /\ pte'[s][q].frame = g
      BY <1>9
    <3>2. s # t
      BY <1>10, <1>11, <3>1
    <3> QED BY <1>8, <1>9, <3>1, <3>2
  <2>2. ASSUME NEW u \in Used(g) PROVE u \in Used(g)'
    <3>1. PICK s \in Space!Tables, q \in Space!Pages : u = <<s, q>> /\ pte[s][q].frame = g
      BY <1>9
    <3>2. s \in Space!Tables \cup {t} /\ pte'[s][q].frame = g
      BY <1>8, <3>1
    <3>3. <<s, q>> \in Used(g)'
      BY <1>9, <3>2
    <3> QED BY <3>1, <3>3
  <2> QED BY <2>1, <2>2
<1>12. Used(f)' = {<<t, p>>}
  <2>1. ASSUME NEW u \in Used(f)' PROVE u = <<t, p>>
    <3>1. PICK s \in Space!Tables \cup {t}, q \in Space!Pages : u = <<s, q>> /\ pte'[s][q].frame = f
      BY <1>1, <1>9
    <3>2. s = t
      <4>1. ASSUME s # t PROVE FALSE
        BY <1>1, <1>8, <1>9, <3>1, <4>1
      <4> QED BY <4>1
    <3> QED BY <1>1, <1>10, <3>1, <3>2
  <2>2. <<t, p>> \in Used(f)'
    BY <1>1, <1>9, <1>10
  <2> QED BY <2>1, <2>2
<1>13. \A g : Rooted(g)' = Rooted(g)
  BY DEF Rooted
<1>14. \A g \in Space!Frames : Tabled(g)' = IF g = t THEN 1 ELSE Tabled(g)
  BY <1>7 DEF Tabled
<1>15. RefsCounted'
  <2> SUFFICES ASSUME NEW g \in Space!Frames
               PROVE  refs'[g] = Cardinality(Rooted(g)') + Tabled(g)' + Cardinality(Used(g)')
    BY DEF RefsCounted
  <2>1. refs[g] = Cardinality(Rooted(g)) + Tabled(g) + Cardinality(Used(g))
    BY <1>0 DEF RefsCounted
  <2>2. refs'[g] = IF g = f \/ g = t THEN 1 ELSE refs[g]
    BY <1>0, <1>1 DEF SpaceTypes
  <2>3. Cardinality({}) = 0 /\ Cardinality({<<t, p>>}) = 1
    BY FS_EmptySet, FS_Singleton
  <2>4. CASE g = f
    <3>1. Cardinality(Rooted(g)') = 0 /\ Tabled(g)' = 0 /\ Cardinality(Used(g)') = 1
      BY <1>1, <1>12, <1>13, <1>14, <2>3, <2>4 DEF Tabled
    <3> QED BY <2>2, <2>4, <3>1
  <2>5. CASE g = t
    <3>1. Cardinality(Rooted(g)') = 0 /\ Tabled(g)' = 1 /\ Cardinality(Used(g)') = 0
      BY <1>1, <1>11, <1>13, <1>14, <2>3, <2>5
    <3> QED BY <2>2, <2>5, <3>1
  <2>6. CASE g # f /\ g # t
    BY <1>11, <1>13, <1>14, <2>1, <2>2, <2>6
  <2> QED BY <2>4, <2>5, <2>6
<1>16. TablesApart'
  <2>1. \A g \in InUseAsTable \cup {t} : g \in Space!Frames /\ g # f
    BY <1>0, <1>1, CountsFinite
  <2> QED BY <1>0, <1>1, <1>7, <1>11, <1>13, <2>1 DEF TablesApart
<1>17. SpaceTypes'
  <2>1. refs' \in [Space!Frames -> Int]
    <3>1. refs \in [Space!Frames -> Int] /\ 1 \in Int
      BY <1>0 DEF SpaceTypes
    <3> QED BY <3>1, ExceptTyped
  <2>2. data' \in [Space!Frames -> Space!Values]
    <3>1. data \in [Space!Frames -> Space!Values] /\ 0 \in Space!Values
      BY <1>0 DEF SpaceTypes, Space!Values
    <3> QED BY <3>1, ExceptTyped
  <2>3. state' \in [Space!Pages -> {"free", "lazy", "reserved"}]
    BY <1>0 DEF SpaceTypes
  <2>4. heapTable' \in [Space!Directories -> Space!Frames \cup {None}]
    BY <1>0, <1>1 DEF SpaceTypes
  <2>5. pte' \in [Space!Frames -> [Space!Pages -> Entries]]
    BY <1>0, <1>1 DEF SpaceTypes
  <2> QED BY <1>0, <1>2, <1>4, <2>1, <2>2, <2>3, <2>4, <2>5 DEF SpaceTypes
<1>18. PagesKept'
  <2> SUFFICES ASSUME Space!OneTable' PROVE PagesKept'
    BY DEF PagesKept
  <2>1. \A d \in Space!Made : heapTable'[d] = heapTable'[Kernel] /\ d \in Space!Directories
    BY <1>4 DEF Space!OneTable, Space!Made
  <2>2. \A d \in Space!Made : heapTable[d] # t
    BY <1>6, <1>7 DEF Space!Tables
  <2>3. cur = Kernel
    BY <1>2, <1>5, <2>1, <2>2
  <2>4. \A d \in Space!Made : d = cur
    BY <1>2, <1>5, <2>1, <2>2, <2>3
  <2>5. Space!OneTable
    BY <2>3, <2>4 DEF Space!OneTable
  <2>6. \A q \in Space!Pages : Shown(q) = Space!NoEntry /\ Shown(q)' = new[q]
    <3>1. heapTable[Kernel] = None /\ heapTable'[Kernel] = t /\ t # None
      BY <1>5, <1>6, <2>3
    <3>2. \A q \in Space!Pages : Shown(q) = Space!NoEntry
      BY <3>1 DEF Shown, Space!Look
    <3>3. \A q \in Space!Pages : Shown(q)' = pte'[t][q]
      BY <3>1 DEF Shown, Space!Look
    <3> QED BY <1>8, <3>2, <3>3
  <2>7. Shown(p)' = e /\ \A q \in Space!Pages : q # p => Shown(q)' = Space!NoEntry
    BY <1>3, <2>6
  <2> SUFFICES ASSUME NEW q \in Space!Pages
      PROVE /\ state'[q] = "free" => Shown(q)' = Space!NoEntry
            /\ Shown(q)' # Space!NoEntry => data'[Shown(q)'.frame] = written[q]
            /\ state'[q] = "lazy" /\ Shown(q)' = Space!NoEntry => written[q] = 0
            /\ Shown(q)'.writable => \A r \in Space!Pages : r # q => Shown(r)'.frame # Shown(q)'.frame
    BY DEF PagesKept
  <2>8. CASE q = p
    <3>1. written[p] = 0
      BY <1>0, <2>5, <2>6 DEF PagesKept
    <3>2. state'[p] = "reserved" /\ data'[f] = 0
      BY <1>0, <1>1 DEF SpaceTypes
    <3>3. \A r \in Space!Pages : r # q => Shown(r)'.frame # f
      BY <1>1, <2>7, <2>8, SpaceConstants
    <3>4. Shown(q)'.frame = f
      BY <1>3, <2>7, <2>8
    <3> QED BY <2>8, <3>1, <3>2, <3>3, <3>4
  <2>9. CASE q # p
    <3>1. state'[q] = state[q]
      BY <1>0, <2>9 DEF SpaceTypes
    <3>2. Shown(q)' = Space!NoEntry /\ Shown(q) = Space!NoEntry
      BY <2>6, <2>7, <2>9
    <3>3. state[q] = "lazy" => written[q] = 0
      BY <1>0, <2>5, <3>2 DEF PagesKept
    <3>4. ~Space!NoEntry.writable
      BY SpaceConstants
    <3> QED BY <3>1, <3>2, <3>3, <3>4
  <2> QED BY <2>8, <2>9
<1> QED BY <1>15, <1>16, <1>17, <1>18 DEF SpaceInv

\* vm_handle_cow_fault: the page gets frame n for frame o, through table s.
LEMMA CowFaultKept ==
    ASSUME SpaceInv, NEW p \in Space!Pages, heapTable[cur] # None,
           NEW o \in Space!Frames, pte[heapTable[cur]][p].frame = o,
           NEW n \in Space!FreeFrames, NEW s \in Space!Frames, s # n,
           scratch[cur] = s \/ (scratch[cur] = None /\ s \in Space!FreeFrames),
           scratch' \in [Space!Directories -> Space!Frames \cup {None}],
           scratch'[cur] = s, \A d \in Space!Directories : d # cur => scratch'[d] = scratch[d],
           NEW new \in [Space!Pages -> Entries], NEW e \in Space!Entry,
           new = [pte[heapTable[cur]] EXCEPT ![p] = e],
           e = [frame |-> n, writable |-> TRUE, cow |-> FALSE],
           refs' = [refs EXCEPT ![n] = 1, ![s] = 1, ![o] = @ - 1],
           pte' = [pte EXCEPT ![heapTable[cur]] = new],
           data' = [data EXCEPT ![n] = data[o]],
           UNCHANGED <<root, heapTable, state, cur, written>>
    PROVE  SpaceInv'
<1>0. SpaceTypes /\ RefsCounted /\ TablesApart /\ PagesKept
  BY DEF SpaceInv
<1>1. /\ n \in Space!Frames /\ n \notin InUseAsTable /\ Rooted(n) = {} /\ Used(n) = {}
  BY <1>0, FreeUnused
<1>2. cur \in Space!Made /\ Kernel \in Space!Made /\ cur \in Space!Directories
  BY <1>0, SpaceConstants DEF SpaceTypes, Space!Made
<1>3. UNCHANGED Space!Made /\ UNCHANGED Space!Tables
  BY DEF Space!Made, Space!Tables
<1>4. UNCHANGED <<root, heapTable>>
  OBVIOUS
<1>5. PICK T \in Space!Frames : T = heapTable[cur] /\ T \in Space!Tables
  BY <1>0, <1>2, MappedIsUsed
<1>6. /\ new[p] = e /\ e.frame = n /\ e.writable = TRUE
      /\ \A q \in Space!Pages : q # p => new[q] = pte[heapTable[cur]][q]
  BY <1>0, <1>5 DEF SpaceTypes
<1>7. <<T, p>> \in Used(o)
  BY <1>5 DEF Used
<1>8. o \notin InUseAsTable /\ o \notin Space!FreeFrames /\ o # n
  BY <1>0, <1>1, <1>7, FreeUnused DEF TablesApart
<1>9. /\ s # None /\ Rooted(s) = {} /\ Used(s) = {} /\ s # o
      /\ InUseAsTable' = InUseAsTable \cup {s}
  <2>1. s # None
    BY SpaceConstants
  <2>2. \A d \in Space!Made : d \in Space!Directories
    BY DEF Space!Made
  <2>3. CASE scratch[cur] = s
    <3>1. s \in InUseAsTable
      BY <1>2, <2>1, <2>3 DEF InUseAsTable, Space!ScratchTables
    <3>2. \A d \in Space!Made : scratch'[d] = scratch[d]
      BY <2>2, <2>3
    <3>3. UNCHANGED Space!ScratchTables
      BY <1>3, <3>2 DEF Space!ScratchTables
    <3> QED BY <1>0, <1>3, <1>8, <2>1, <3>1, <3>3 DEF InUseAsTable, TablesApart
  <2>4. CASE scratch[cur] = None /\ s \in Space!FreeFrames
    <3>1. Space!ScratchTables' = Space!ScratchTables \cup {s}
      BY <1>2, <1>3, <2>1, <2>2, <2>4 DEF Space!ScratchTables
    <3>2. Rooted(s) = {} /\ Used(s) = {}
      BY <1>0, <2>4, FreeUnused
    <3> QED BY <1>3, <1>8, <2>1, <2>4, <3>1, <3>2 DEF InUseAsTable
  <2> QED BY <2>3, <2>4
<1>10. ASSUME NEW g \in Space!Frames
       PROVE  /\ g = n => Cardinality(Used(g)') = Cardinality(Used(g)) + 1
              /\ g = o => Used(g)' \subseteq Used(g) /\ Cardinality(Used(g)') = Cardinality(Used(g)) - 1
              /\ g # n /\ g # o => Used(g)' = Used(g)
  <2>1. \A q \in Space!Pages : q # p => new[q].frame = pte[heapTable[cur]][q].frame
    BY <1>6
  <2>2. heapTable[cur] # None
    OBVIOUS
  <2>3. /\ g = new[p].frame /\ g # pte[heapTable[cur]][p].frame =>
                 Used(g)' = Used(g) \cup {<<heapTable[cur], p>>}
                 /\ Cardinality(Used(g)') = Cardinality(Used(g)) + 1
        /\ g # new[p].frame /\ g = pte[heapTable[cur]][p].frame =>
                 Used(g)' \subseteq Used(g)
                 /\ Cardinality(Used(g)') = Cardinality(Used(g)) - 1
        /\ (g = new[p].frame <=> g = pte[heapTable[cur]][p].frame) => Used(g)' = Used(g)
    BY <1>0, <1>2, <1>4, <2>1, <2>2, UsesCounted
  <2> QED BY <1>6, <1>8, <2>3
<1>11. \A g : Rooted(g)' = Rooted(g)
  BY DEF Rooted
<1>12. \A g \in Space!Frames : Tabled(g)' = IF g = s THEN 1 ELSE Tabled(g)
  BY <1>9 DEF Tabled
<1>13. \A g \in Space!Frames :
          refs'[g] = IF g = n \/ g = s THEN 1 ELSE IF g = o THEN refs[g] - 1 ELSE refs[g]
  BY <1>0, <1>8, <1>9 DEF SpaceTypes
<1>14. RefsCounted'
  <2> SUFFICES ASSUME NEW g \in Space!Frames
               PROVE  refs'[g] = Cardinality(Rooted(g)') + Tabled(g)' + Cardinality(Used(g)')
    BY DEF RefsCounted
  <2>1. refs[g] = Cardinality(Rooted(g)) + Tabled(g) + Cardinality(Used(g))
    BY <1>0 DEF RefsCounted
  <2>2. Cardinality({}) = 0
    BY FS_EmptySet
  <2>3. CASE g = n
    <3>1. Cardinality(Rooted(g)') = 0 /\ Tabled(g)' = 0 /\ Cardinality(Used(g)) = 0
      BY <1>1, <1>11, <1>12, <2>2, <2>3 DEF Tabled
    <3>2. Cardinality(Used(g)') = 0 + 1
      BY <1>10, <2>3, <3>1
    <3>3. refs'[g] = 1
      BY <1>13, <2>3
    <3> QED BY <3>1, <3>2, <3>3
  <2>4. CASE g = s
    <3>1. g # n /\ g # o
      BY <1>9, <2>4
    <3>2. Cardinality(Rooted(g)') = 0 /\ Tabled(g)' = 1 /\ Cardinality(Used(g)') = 0
      BY <1>9, <1>10, <1>11, <1>12, <2>2, <2>4, <3>1
    <3>3. refs'[g] = 1
      BY <1>13, <2>4
    <3> QED BY <3>2, <3>3
  <2>5. CASE g = o
    <3>1. g # n /\ g # s
      BY <1>8, <1>9, <2>5
    <3>2. Rooted(g)' = Rooted(g) /\ Tabled(g)' = Tabled(g)
          /\ Cardinality(Used(g)') = Cardinality(Used(g)) - 1
      BY <1>10, <1>11, <1>12, <2>5, <3>1
    <3>3. Cardinality(Rooted(g)) \in Nat /\ Tabled(g) \in Nat /\ Cardinality(Used(g)) \in Nat
      BY <1>0, CountsFinite
    <3>4. refs'[g] = refs[g] - 1
      BY <1>13, <2>5, <3>1
    <3> QED BY <2>1, <3>2, <3>3, <3>4
  <2>6. CASE g # n /\ g # s /\ g # o
    BY <1>10, <1>11, <1>12, <1>13, <2>1, <2>6
  <2> QED BY <2>3, <2>4, <2>5, <2>6
<1>15. TablesApart'
  <2>1. \A g \in InUseAsTable \cup {s} : g \in Space!Frames /\ g # n /\ g # o
    BY <1>0, <1>1, <1>8, <1>9, CountsFinite
  <2> QED BY <1>0, <1>9, <1>10, <1>11, <2>1 DEF TablesApart
<1>16. SpaceTypes'
  <2>1. refs' \in [Space!Frames -> Int]
    <3>1. \A g \in Space!Frames : refs'[g] \in Int
      BY <1>0, <1>13 DEF SpaceTypes
    <3>2. refs' = [g \in Space!Frames |-> refs'[g]]
      BY <1>0 DEF SpaceTypes
    <3> QED BY <3>1, <3>2
  <2>2. data' \in [Space!Frames -> Space!Values]
    <3>1. data \in [Space!Frames -> Space!Values] /\ data[o] \in Space!Values
      BY <1>0 DEF SpaceTypes
    <3> QED BY <3>1, ExceptTyped
  <2>3. pte' \in [Space!Frames -> [Space!Pages -> Entries]]
    BY <1>0 DEF SpaceTypes
  <2> QED BY <1>0, <1>2, <1>3, <2>1, <2>2, <2>3 DEF SpaceTypes
<1>17. PagesKept'
  <2>1. Space!OneTable' = Space!OneTable
    BY <1>3 DEF Space!OneTable
  <2> SUFFICES ASSUME Space!OneTable PROVE PagesKept'
    BY <2>1 DEF PagesKept
  <2>2. heapTable[Kernel] = T /\ T # None
    BY <1>0, <1>2, <1>5, OneTableShows
  <2>3. \A q \in Space!Pages : Shown(q) = pte[T][q] /\ Shown(q)' = new[q]
    <3>1. pte'[T] = new
      BY <1>0, <1>5 DEF SpaceTypes
    <3> QED BY <2>2, <3>1 DEF Shown, Space!Look
  <2>4. \A q \in Space!Pages : q # p => Shown(q)' = Shown(q)
    BY <1>5, <1>6, <2>3
  <2>5. Shown(p)' = e /\ Shown(p).frame = o /\ Shown(p) # Space!NoEntry
    BY <1>5, <1>6, <2>3, SpaceConstants
  <2>6. \A q \in Space!Pages : Shown(q).frame # n
                               /\ (Shown(q) # Space!NoEntry => Shown(q).frame \in Space!Frames)
    BY <1>0, ShownInUse
  <2>7. data'[n] = data[o] /\ \A g \in Space!Frames : g # n => data'[g] = data[g]
    BY <1>0, <1>1 DEF SpaceTypes
  <2> SUFFICES ASSUME NEW q \in Space!Pages
      PROVE /\ state[q] = "free" => Shown(q)' = Space!NoEntry
            /\ Shown(q)' # Space!NoEntry => data'[Shown(q)'.frame] = written[q]
            /\ state[q] = "lazy" /\ Shown(q)' = Space!NoEntry => written[q] = 0
            /\ Shown(q)'.writable => \A r \in Space!Pages : r # q => Shown(r)'.frame # Shown(q)'.frame
    BY DEF PagesKept
  <2>8. CASE q = p
    <3>1. state[p] # "free" /\ data[o] = written[p]
      BY <1>0, <2>5 DEF PagesKept
    <3>2. \A r \in Space!Pages : r # q => Shown(r)'.frame # n
      BY <2>4, <2>6, <2>8
    <3>3. e # Space!NoEntry
      BY SpaceConstants
    <3> QED BY <1>6, <2>5, <2>7, <2>8, <3>1, <3>2, <3>3
  <2>9. CASE q # p
    <3>2. Shown(q)' = Shown(q)
      BY <2>4, <2>9
    <3>3. Shown(q) # Space!NoEntry => data'[Shown(q).frame] = data[Shown(q).frame]
      BY <2>6, <2>7
    <3>4. Shown(q).writable => \A r \in Space!Pages : r # q => Shown(r)'.frame # Shown(q).frame
      BY <1>0, <1>6, <2>4, <2>5, <2>6 DEF PagesKept
    <3> QED BY <1>0, <3>2, <3>3, <3>4 DEF PagesKept
  <2> QED BY <2>8, <2>9
<1> QED BY <1>14, <1>15, <1>16, <1>17 DEF SpaceInv

\* A second page is mapped to the frame of the first.
LEMMA ShareKept ==
    ASSUME SpaceInv, NEW p \in Space!Pages, NEW q \in Space!Pages, p # q, heapTable[cur] # None,
           state[p] # "free", state[q] = "lazy", pte[heapTable[cur]][q] = Space!NoEntry,
           NEW f \in Space!Frames, pte[heapTable[cur]][p].frame = f,
           NEW new \in [Space!Pages -> Entries], NEW e \in Space!Entry,
           e = [frame |-> f, writable |-> FALSE, cow |-> TRUE],
           new[p] = e, new[q] = e,
           \A r \in Space!Pages : r # p /\ r # q => new[r] = pte[heapTable[cur]][r],
           refs' = [refs EXCEPT ![f] = @ + 1],
           pte' = [pte EXCEPT ![heapTable[cur]] = new],
           written' = [written EXCEPT ![q] = written[p]],
           UNCHANGED <<data, root, heapTable, scratch, state, cur>>
    PROVE  SpaceInv'
<1>0. SpaceTypes /\ RefsCounted /\ TablesApart /\ PagesKept
  BY DEF SpaceInv
<1>1. cur \in Space!Made /\ Kernel \in Space!Made /\ cur \in Space!Directories
  BY <1>0, SpaceConstants DEF SpaceTypes, Space!Made
<1>2. UNCHANGED Space!Made /\ UNCHANGED Space!Tables /\ UNCHANGED InUseAsTable
  BY DEF Space!Made, Space!Tables, Space!ScratchTables, InUseAsTable
<1>3. heapTable[cur] # None /\ UNCHANGED <<root, heapTable>>
  OBVIOUS
<1>4. PICK T \in Space!Frames : T = heapTable[cur] /\ T \in Space!Tables
  BY <1>0, <1>1, <1>3, MappedIsUsed
<1>5. e.frame = f /\ e.writable = FALSE /\ Space!NoEntry.frame = None /\ e # Space!NoEntry
  BY SpaceConstants
<1>6. <<T, p>> \in Used(f)
  BY <1>4 DEF Used
<1>7. f \notin InUseAsTable
  BY <1>0, <1>6 DEF TablesApart
<1>8. ASSUME NEW g \in Space!Frames
      PROVE  /\ g = f => Cardinality(Used(g)') = Cardinality(Used(g)) + 1
             /\ g # f => Used(g)' = Used(g)
  <2>1. \A r \in Space!Pages : r # q => new[r].frame = pte[heapTable[cur]][r].frame
    BY <1>5
  <2>2. /\ g = new[q].frame /\ g # pte[heapTable[cur]][q].frame =>
                 Used(g)' = Used(g) \cup {<<heapTable[cur], q>>}
                 /\ Cardinality(Used(g)') = Cardinality(Used(g)) + 1
        /\ (g = new[q].frame <=> g = pte[heapTable[cur]][q].frame) => Used(g)' = Used(g)
    BY <1>0, <1>1, <1>3, <2>1, UsesCounted
  <2>3. g # None
    BY SpaceConstants
  <2> QED BY <1>5, <2>2, <2>3
<1>9. \A g : Rooted(g)' = Rooted(g) /\ Tabled(g)' = Tabled(g)
  BY <1>2 DEF Rooted, Tabled
<1>10. \A g \in Space!Frames : refs'[g] = IF g = f THEN refs[g] + 1 ELSE refs[g]
  BY <1>0 DEF SpaceTypes
<1>11. RefsCounted'
  <2> SUFFICES ASSUME NEW g \in Space!Frames
               PROVE  refs'[g] = Cardinality(Rooted(g)') + Tabled(g)' + Cardinality(Used(g)')
    BY DEF RefsCounted
  <2>1. refs[g] = Cardinality(Rooted(g)) + Tabled(g) + Cardinality(Used(g))
    BY <1>0 DEF RefsCounted
  <2>2. CASE g = f
    <3>1. Cardinality(Used(g)') = Cardinality(Used(g)) + 1
      BY <1>8, <2>2
    <3>2. Cardinality(Rooted(g)) \in Nat /\ Tabled(g) \in Nat /\ Cardinality(Used(g)) \in Nat
      BY <1>0, CountsFinite
    <3>3. refs'[g] = refs[g] + 1
      BY <1>10, <2>2
    <3> QED BY <1>9, <2>1, <3>1, <3>2, <3>3
  <2>3. CASE g # f
    BY <1>8, <1>9, <1>10, <2>1, <2>3
  <2> QED BY <2>2, <2>3
<1>12. TablesApart'
  <2>1. \A g \in InUseAsTable : g \in Space!Frames /\ g # f
    BY <1>0, <1>7, CountsFinite
  <2> QED BY <1>0, <1>2, <1>8, <1>9, <2>1 DEF TablesApart
<1>13. SpaceTypes'
  <2>1. refs' \in [Space!Frames -> Int]
    <3>1. refs \in [Space!Frames -> Int] /\ refs[f] + 1 \in Int
      BY <1>0 DEF SpaceTypes
    <3> QED BY <3>1, ExceptTyped
  <2>2. written' \in [Space!Pages -> Space!Values]
    <3>1. written \in [Space!Pages -> Space!Values] /\ written[p] \in Space!Values
      BY <1>0 DEF SpaceTypes
    <3> QED BY <3>1, ExceptTyped
  <2>3. pte' \in [Space!Frames -> [Space!Pages -> Entries]]
    BY <1>0 DEF SpaceTypes
  <2> QED BY <1>0, <1>1, <1>2, <2>1, <2>2, <2>3 DEF SpaceTypes
<1>14. PagesKept'
  <2>1. Space!OneTable' = Space!OneTable
    BY <1>2 DEF Space!OneTable
  <2> SUFFICES ASSUME Space!OneTable PROVE PagesKept'
    BY <2>1 DEF PagesKept
  <2>2. heapTable[Kernel] = T /\ T # None
    BY <1>0, <1>1, <1>4, OneTableShows
  <2>3. \A r \in Space!Pages : Shown(r) = pte[T][r] /\ Shown(r)' = new[r]
    <3>1. pte'[T] = new
      BY <1>0, <1>4 DEF SpaceTypes
    <3> QED BY <2>2, <3>1 DEF Shown, Space!Look
  <2>4. \A r \in Space!Pages : r # p /\ r # q => Shown(r)' = Shown(r)
    BY <1>4, <2>3
  <2>5. Shown(p)' = e /\ Shown(q)' = e /\ Shown(p).frame = f /\ Shown(p) # Space!NoEntry
    BY <1>4, <2>3, SpaceConstants
  <2>6. data[f] = written[p]
    BY <1>0, <2>5 DEF PagesKept
  <2>7. \A r \in Space!Pages : written'[r] = IF r = q THEN written[p] ELSE written[r]
    BY <1>0 DEF SpaceTypes
  <2> SUFFICES ASSUME NEW r \in Space!Pages
      PROVE /\ state[r] = "free" => Shown(r)' = Space!NoEntry
            /\ Shown(r)' # Space!NoEntry => data[Shown(r)'.frame] = written'[r]
            /\ state[r] = "lazy" /\ Shown(r)' = Space!NoEntry => written'[r] = 0
            /\ Shown(r)'.writable => \A o \in Space!Pages : o # r => Shown(o)'.frame # Shown(r)'.frame
    BY DEF PagesKept
  <2>8. CASE r = p \/ r = q
    BY <1>5, <2>5, <2>6, <2>7, <2>8
  <2>9. CASE r # p /\ r # q
    <3>1. Shown(r)' = Shown(r) /\ written'[r] = written[r]
      BY <2>4, <2>7, <2>9
    <3>2. Shown(r).writable => \A o \in Space!Pages : o # r => Shown(o)'.frame # Shown(r).frame
      <4> SUFFICES ASSUME Shown(r).writable, NEW o \in Space!Pages, o # r
                   PROVE  Shown(o)'.frame # Shown(r).frame
        OBVIOUS
      <4>1. Shown(o).frame # Shown(r).frame /\ f # Shown(r).frame
        BY <1>0, <2>5, <2>9 DEF PagesKept
      <4> QED BY <1>5, <2>4, <2>5, <4>1
    <3> QED BY <1>0, <3>1, <3>2 DEF PagesKept
  <2> QED BY <2>8, <2>9
<1> QED BY <1>11, <1>12, <1>13, <1>14 DEF SpaceInv

\* free_virtual_pages: pages S of the current directory give up their frames.
LEMMA FreeKept ==
    ASSUME SpaceInv, NEW S \in SUBSET Space!Pages, Space!Released(S),
           state' = [p \in Space!Pages |-> IF p \in S THEN "free" ELSE state[p]],
           UNCHANGED <<data, root, heapTable, scratch, cur, written>>
    PROVE  SpaceInv'
<1>0. SpaceTypes /\ RefsCounted /\ TablesApart /\ PagesKept
  BY DEF SpaceInv
<1>1. cur \in Space!Made /\ Kernel \in Space!Made /\ cur \in Space!Directories
  BY <1>0, SpaceConstants DEF SpaceTypes, Space!Made
<1>2. UNCHANGED Space!Made /\ UNCHANGED Space!Tables /\ UNCHANGED InUseAsTable
  BY DEF Space!Made, Space!Tables, Space!ScratchTables, InUseAsTable
<1>3. UNCHANGED <<root, heapTable>>
  OBVIOUS
<1> DEFINE H(f) == {p \in S : Space!Look(cur, p).frame = f}
<1>4. refs' = [f \in Space!Frames |-> refs[f] - Cardinality(H(f))]
  BY SpaceCardinality DEF Space!Released, Space!Held
<1>5. \A f : IsFiniteSet(H(f)) /\ Cardinality(H(f)) \in Nat
  <2> TAKE f
  <2>1. H(f) \subseteq Space!Pages
    OBVIOUS
  <2> QED BY <2>1, SpaceConstants, FS_Subset, FS_CardinalityType
<1>6. refs' \in [Space!Frames -> Int]
  <2>1. \A f \in Space!Frames : refs[f] - Cardinality(H(f)) \in Int
    <3> HIDE DEF H
    <3> QED BY <1>0, <1>5 DEF SpaceTypes
  <2> HIDE DEF H
  <2> QED BY <1>4, <2>1
<1>7. state' \in [Space!Pages -> {"free", "lazy", "reserved"}]
  BY <1>0 DEF SpaceTypes
<1>8. Space!OneTable' = Space!OneTable
  BY <1>2 DEF Space!OneTable
<1>9. \A f : Rooted(f)' = Rooted(f) /\ Tabled(f)' = Tabled(f)
  BY <1>2 DEF Rooted, Tabled
<1>10. CASE heapTable[cur] = None
  <2>1. pte' = pte
    BY <1>10 DEF Space!Released
  <2>2. \A p \in S : Space!Look(cur, p).frame = None
    BY <1>10, SpaceConstants DEF Space!Look
  <2>3. ASSUME NEW f \in Space!Frames PROVE Cardinality(H(f)) = 0
    <3>1. H(f) = {}
      BY <2>2, SpaceConstants
    <3> QED BY <3>1, FS_EmptySet
  <2>4. refs' = refs
    BY <1>0, <1>4, <2>3 DEF SpaceTypes
  <2>5. RefsCounted' /\ TablesApart'
    BY <1>0, <1>3, <2>1, <2>4, CountsUnchanged
  <2>6. SpaceTypes'
    BY <1>0, <1>1, <1>2, <1>6, <1>7, <2>1 DEF SpaceTypes
  <2>7. PagesKept'
    <3> SUFFICES ASSUME Space!OneTable PROVE PagesKept'
      BY <1>8 DEF PagesKept
    <3>1. heapTable[Kernel] = None
      BY <1>1, <1>10 DEF Space!OneTable
    <3>2. \A p \in Space!Pages : Shown(p) = Space!NoEntry /\ Shown(p)' = Space!NoEntry
      BY <3>1 DEF Shown, Space!Look
    <3>3. \A p \in Space!Pages : state'[p] = "lazy" => state[p] = "lazy"
      OBVIOUS
    <3> QED BY <1>0, <3>2, <3>3, SpaceConstants DEF PagesKept
  <2> QED BY <2>5, <2>6, <2>7 DEF SpaceInv
<1>11. CASE heapTable[cur] # None
  <2>1. PICK T \in Space!Frames : T = heapTable[cur] /\ T \in Space!Tables
    BY <1>0, <1>1, <1>11 DEF SpaceTypes, Space!Tables
  <2>2. PICK new \in [Space!Pages -> Entries] :
            new = [p \in Space!Pages |-> IF p \in S THEN Space!NoEntry ELSE pte[heapTable[cur]][p]]
    BY <1>0, <2>1 DEF SpaceTypes, Entries
  <2>3. pte' = [pte EXCEPT ![heapTable[cur]] = new]
    BY <1>11, <2>2 DEF Space!Released
  <2>4. \A p \in Space!Pages : new[p] = IF p \in S THEN Space!NoEntry ELSE pte[T][p]
    BY <2>1, <2>2
  <2>5. \A p \in Space!Pages : Space!Look(cur, p) = pte[T][p]
    BY <1>11, <2>1 DEF Space!Look
  <2>6. ASSUME NEW f \in Space!Frames
        PROVE  /\ Used(f)' = Used(f) \ ({T} \X H(f)) /\ {T} \X H(f) \subseteq Used(f)
               /\ Cardinality(Used(f)') = Cardinality(Used(f)) - Cardinality(H(f))
    <3>1. \A u : u \in Used(f)' <=>
                 \/ u \in Used(f) /\ u[1] # heapTable[cur]
                 \/ \E p \in Space!Pages : u = <<heapTable[cur], p>> /\ new[p].frame = f
      BY <1>0, <1>1, <1>3, <1>11, <2>3, UsesAfter
    <3>2. Used(f) = {u \in Space!Tables \X Space!Pages : pte[u[1]][u[2]].frame = f}
      BY DEF Used
    <3>3. \A p \in Space!Pages : new[p].frame = f <=> p \notin S /\ pte[T][p].frame = f
      <4> TAKE p \in Space!Pages
      <4>1. Space!NoEntry.frame # f
        BY SpaceConstants
      <4> QED BY <2>4, <4>1
    <3>4. \A p : p \in H(f) <=> p \in S /\ pte[T][p].frame = f
      BY <2>5
    <3> HIDE DEF H
    <3>5. {T} \X H(f) \subseteq Used(f)
      BY <2>1, <3>2, <3>4
    <3>6. ASSUME NEW u \in Used(f)' PROVE u \in Used(f) /\ u \notin {T} \X H(f)
      <4>1. CASE u \in Used(f) /\ u[1] # heapTable[cur]
        BY <2>1, <4>1
      <4>2. CASE \E p \in Space!Pages : u = <<heapTable[cur], p>> /\ new[p].frame = f
        BY <2>1, <3>2, <3>3, <3>4, <4>2
      <4> QED BY <3>1, <4>1, <4>2
    <3>7. ASSUME NEW u \in Used(f), u \notin {T} \X H(f) PROVE u \in Used(f)'
      <4>1. CASE u[1] # heapTable[cur]
        BY <3>1, <4>1
      <4>2. CASE u[1] = heapTable[cur]
        <5>1. PICK p \in Space!Pages : u = <<T, p>> /\ pte[T][p].frame = f
          BY <2>1, <3>2, <4>2
        <5>2. p \notin S
          BY <3>4, <3>7, <5>1
        <5> QED BY <2>1, <3>1, <3>3, <5>1, <5>2
      <4> QED BY <4>1, <4>2
    <3>8. Used(f)' = Used(f) \ ({T} \X H(f))
      BY <3>6, <3>7
    <3>9. IsFiniteSet({T}) /\ Cardinality({T}) = 1
      BY FS_Singleton
    <3>10. Cardinality({T} \X H(f)) = 1 * Cardinality(H(f))
      BY <1>5, <3>9, FS_Product
    <3>11. IsFiniteSet(Used(f)) /\ Used(f) \cap ({T} \X H(f)) = {T} \X H(f)
      BY <1>0, <3>5, CountsFinite
    <3>12. Cardinality(Used(f) \ ({T} \X H(f))) = Cardinality(Used(f)) - Cardinality({T} \X H(f))
      <4>1. Cardinality(Used(f) \ ({T} \X H(f)))
              = Cardinality(Used(f)) - Cardinality(Used(f) \cap ({T} \X H(f)))
        BY <3>11, FS_Difference
      <4> QED BY <3>11, <4>1
    <3> QED BY <1>5, <3>5, <3>8, <3>10, <3>12
  <2> HIDE DEF H
  <2>7. RefsCounted'
    <3> SUFFICES ASSUME NEW f \in Space!Frames
                 PROVE  refs'[f] = Cardinality(Rooted(f)') + Tabled(f)' + Cardinality(Used(f)')
      BY DEF RefsCounted
    <3>1. refs[f] = Cardinality(Rooted(f)) + Tabled(f) + Cardinality(Used(f))
      BY <1>0 DEF RefsCounted
    <3>2. Cardinality(Rooted(f)) \in Nat /\ Tabled(f) \in Nat /\ Cardinality(Used(f)) \in Nat
      BY <1>0, CountsFinite
    <3>3. refs'[f] = refs[f] - Cardinality(H(f)) /\ Cardinality(H(f)) \in Nat
      BY <1>4, <1>5
    <3>4. Cardinality(Used(f)') = Cardinality(Used(f)) - Cardinality(H(f))
      BY <2>6
    <3> QED BY <1>9, <3>1, <3>2, <3>3, <3>4
  <2>8. TablesApart'
    <3>1. \A g \in InUseAsTable : g \in Space!Frames
      BY <1>0, CountsFinite
    <3> QED BY <1>0, <1>2, <1>9, <2>6, <3>1 DEF TablesApart
  <2>9. SpaceTypes'
    <3>1. pte' \in [Space!Frames -> [Space!Pages -> Entries]]
      BY <1>0, <2>3 DEF SpaceTypes
    <3> QED BY <1>0, <1>1, <1>2, <1>6, <1>7, <3>1 DEF SpaceTypes
  <2>10. PagesKept'
    <3> SUFFICES ASSUME Space!OneTable PROVE PagesKept'
      BY <1>8 DEF PagesKept
    <3>1. heapTable[Kernel] = T /\ T # None
      BY <1>1, <1>11, <2>1 DEF Space!OneTable
    <3>2. \A p \in Space!Pages : Shown(p)' = IF p \in S THEN Space!NoEntry ELSE Shown(p)
      <4>1. pte'[T] = new
        BY <1>0, <2>1, <2>3 DEF SpaceTypes
      <4> QED BY <2>4, <3>1, <4>1 DEF Shown, Space!Look
    <3>3. \A p \in Space!Pages : state'[p] = IF p \in S THEN "free" ELSE state[p]
      OBVIOUS
    <3>4. Space!NoEntry.frame = None /\ Space!NoEntry.writable = FALSE
      BY SpaceConstants
    <3> SUFFICES ASSUME NEW p \in Space!Pages
        PROVE /\ state'[p] = "free" => Shown(p)' = Space!NoEntry
              /\ Shown(p)' # Space!NoEntry => data[Shown(p)'.frame] = written[p]
              /\ state'[p] = "lazy" /\ Shown(p)' = Space!NoEntry => written[p] = 0
              /\ Shown(p)'.writable => \A q \in Space!Pages : q # p => Shown(q)'.frame # Shown(p)'.frame
      BY DEF PagesKept
    <3>5. CASE p \in S
      BY <3>2, <3>3, <3>4, <3>5
    <3>6. CASE p \notin S
      <4>1. Shown(p)' = Shown(p) /\ state'[p] = state[p]
        BY <3>2, <3>3, <3>6
      <4>2. ASSUME Shown(p).writable, NEW q \in Space!Pages, q # p PROVE Shown(q)'.frame # Shown(p).frame
        <5>1. Shown(q).frame # Shown(p).frame
          BY <1>0, <4>2 DEF PagesKept
        <5>2. Shown(p).frame # None
          <6>1. Shown(p) # Space!NoEntry
            BY <3>4, <4>2
          <6> QED BY <1>0, <6>1, ShownInUse, SpaceConstants
        <5> QED BY <3>2, <3>4, <5>1, <5>2
      <4> QED BY <1>0, <4>1, <4>2 DEF PagesKept
    <3> QED BY <3>5, <3>6
  <2> QED BY <2>7, <2>8, <2>9, <2>10 DEF SpaceInv
<1> QED BY <1>10, <1>11

\* A lazy fault hands out a frame, or finds no memory and changes nothing.
LEMMA LazyFaultStep ==
    ASSUME SpaceInv, NEW p \in Space!Pages, Space!LazyFault(p)
    PROVE  SpaceInv'
<1>0. SpaceTypes /\ RefsCounted /\ TablesApart
  BY DEF SpaceInv
<1>1. CASE Space!Panic
  BY <1>1, SpaceUnchanged DEF Space!Panic
<1>2. CASE ~Space!Panic
  <2>1. /\ Space!Look(cur, p) = Space!NoEntry /\ state[p] = "lazy"
        /\ ~(Space!Cardinality(Space!FreeFrames) < (IF heapTable[cur] = None THEN 2 ELSE 1))
        /\ LET f == Space!First
               t == IF heapTable[cur] = None THEN Space!Second ELSE heapTable[cur]
           IN  /\ refs' = [refs EXCEPT ![f] = 1, ![t] = 1]
               /\ heapTable' = [heapTable EXCEPT ![cur] = t]
               /\ pte' = [pte EXCEPT ![t] =
                     [(IF heapTable[cur] = None THEN Space!Empty ELSE @) EXCEPT ![p] =
                         [frame |-> f, writable |-> TRUE, cow |-> FALSE]]]
               /\ data' = [data EXCEPT ![f] = 0]
               /\ state' = [state EXCEPT ![p] = "reserved"]
               /\ UNCHANGED <<root, scratch, cur, written>>
    BY <1>2 DEF Space!LazyFault, Space!Mapped, Space!Zeroed
  <2>2. /\ Space!FreeFrames # {}
        /\ heapTable[cur] = None => Cardinality(Space!FreeFrames) >= 2
    BY <2>1, FirstIsFree, SpaceCardinality
  <2>3. PICK f \in Space!FreeFrames : f = Space!First
    BY <2>2, FirstIsFree
  <2>4. PICK e \in Space!Entry : e = [frame |-> f, writable |-> TRUE, cow |-> FALSE]
    BY <1>0, <2>3, FreeUnused DEF Space!Entry
  <2>5. CASE heapTable[cur] = None
    <3>1. PICK t \in Space!FreeFrames : t = Space!Second /\ t # f
      BY <2>2, <2>3, <2>5, FirstIsFree
    <3>2. PICK new \in [Space!Pages -> Entries] : new = [Space!Empty EXCEPT ![p] = e]
      BY DEF Space!Empty, Entries
    <3>3. /\ refs' = [refs EXCEPT ![f] = 1, ![t] = 1]
          /\ heapTable' = [heapTable EXCEPT ![cur] = t]
          /\ pte' = [pte EXCEPT ![t] = new]
          /\ data' = [data EXCEPT ![f] = 0]
          /\ state' = [state EXCEPT ![p] = "reserved"]
          /\ UNCHANGED <<root, scratch, cur, written>>
      BY <2>1, <2>3, <2>4, <2>5, <3>1, <3>2
    <3>4. new[p] = e /\ \A q \in Space!Pages : q # p => new[q] = Space!NoEntry
      BY <3>2 DEF Space!Empty
    <3>5. state[p] = "lazy" /\ t # f
      BY <2>1, <3>1
    <3> QED BY <2>4, <2>5, <3>3, <3>4, <3>5, FirstTouchKept
  <2>6. CASE heapTable[cur] # None
    <3>1. heapTable' = heapTable
      BY <1>0, <2>1, <2>6 DEF SpaceTypes
    <3>2. pte' = [pte EXCEPT ![heapTable[cur]] = [@ EXCEPT ![p] = e]]
      BY <2>1, <2>3, <2>4, <2>6
    <3>3. /\ refs' = [refs EXCEPT ![f] = 1, ![heapTable[cur]] = 1]
          /\ data' = [data EXCEPT ![f] = 0]
          /\ state' = [state EXCEPT ![p] = "reserved"]
          /\ UNCHANGED <<root, heapTable, scratch, cur, written>>
      BY <2>1, <2>3, <2>6, <3>1
    <3>4. state[p] = "lazy" /\ Space!Look(cur, p) = Space!NoEntry
      BY <2>1
    <3> QED BY <2>4, <2>6, <3>2, <3>3, <3>4, LazyFaultKept
  <2> QED BY <2>5, <2>6
<1> QED BY <1>1, <1>2

\* A copy before a write takes a frame, or finds no memory and changes nothing.
LEMMA CowFaultStep ==
    ASSUME SpaceInv, NEW p \in Space!Pages, Space!CowFault(p)
    PROVE  SpaceInv'
<1>0. SpaceTypes /\ RefsCounted /\ TablesApart
  BY DEF SpaceInv
<1>1. CASE Space!Panic
  BY <1>1, SpaceUnchanged DEF Space!Panic
<1>2. CASE ~Space!Panic
  <2>1. /\ Space!Look(cur, p) # Space!NoEntry
        /\ ~(Space!Cardinality(Space!FreeFrames) < (IF scratch[cur] = None THEN 2 ELSE 1))
        /\ Space!TempMap /\ Space!Copy(p, Space!First)
        /\ UNCHANGED <<root, heapTable, state, cur, written>>
    BY <1>2 DEF Space!CowFault, Space!Mapped
  <2>2. /\ Space!FreeFrames # {}
        /\ scratch[cur] = None => Cardinality(Space!FreeFrames) >= 2
    BY <2>1, FirstIsFree, SpaceCardinality
  <2>3. PICK n \in Space!FreeFrames : n = Space!First
    BY <2>2, FirstIsFree
  <2>4. cur \in Space!Made /\ cur \in Space!Directories
    BY <1>0 DEF SpaceTypes, Space!Made
  <2>5. heapTable[cur] # None /\ heapTable[cur] \in Space!Frames
        /\ Space!Look(cur, p) = pte[heapTable[cur]][p]
    BY <1>0, <2>1, <2>4, MappedIsUsed
  <2>6. PICK o \in Space!Frames : o = Space!Look(cur, p).frame
    BY <1>0, <2>1, <2>4, MappedIsUsed
  <2>7. PICK e \in Space!Entry : e = [frame |-> n, writable |-> TRUE, cow |-> FALSE]
    BY <1>0, <2>3, FreeUnused DEF Space!Entry
  <2>8. PICK new \in [Space!Pages -> Entries] : new = [pte[heapTable[cur]] EXCEPT ![p] = e]
    BY <1>0, <2>5 DEF SpaceTypes, Entries
  <2>9. PICK s \in Space!Frames :
            /\ s # n
            /\ scratch[cur] = s \/ (scratch[cur] = None /\ s \in Space!FreeFrames)
            /\ scratch' \in [Space!Directories -> Space!Frames \cup {None}]
            /\ scratch'[cur] = s /\ \A d \in Space!Directories : d # cur => scratch'[d] = scratch[d]
    <3>1. CASE scratch[cur] = None
      <4>1. PICK s \in Space!FreeFrames : s = Space!Second /\ s # n
        BY <2>2, <2>3, <3>1, FirstIsFree
      <4>2. s \in Space!Frames
        BY <1>0, FreeUnused
      <4>3. scratch' = [scratch EXCEPT ![cur] = s]
        BY <2>1, <3>1, <4>1 DEF Space!TempMap
      <4>4. /\ scratch' \in [Space!Directories -> Space!Frames \cup {None}]
            /\ scratch'[cur] = s /\ \A d \in Space!Directories : d # cur => scratch'[d] = scratch[d]
        BY <1>0, <2>4, <4>2, <4>3 DEF SpaceTypes
      <4> QED BY <3>1, <4>1, <4>2, <4>4
    <3>2. CASE scratch[cur] # None
      <4>1. scratch' = scratch
        BY <2>1, <3>2 DEF Space!TempMap
      <4>2. PICK s \in Space!Frames : s = scratch[cur]
        BY <1>0, <2>4, <3>2 DEF SpaceTypes
      <4>3. s \in InUseAsTable
        BY <2>4, <3>2, <4>2 DEF InUseAsTable, Space!ScratchTables
      <4>4. s # n
        BY <1>0, <4>3, TablesCounted
      <4> QED BY <1>0, <4>1, <4>2, <4>4 DEF SpaceTypes
    <3> QED BY <3>1, <3>2
  <2>10. /\ refs' = [refs EXCEPT ![n] = 1, ![s] = 1, ![o] = @ - 1]
         /\ data' = [data EXCEPT ![n] = data[o]]
         /\ pte' = [pte EXCEPT ![heapTable[cur]][p] = [frame |-> n, writable |-> TRUE, cow |-> FALSE]]
    BY <2>1, <2>3, <2>6, <2>9 DEF Space!Copy
  <2>11. pte' = [pte EXCEPT ![heapTable[cur]] = new]
    BY <2>7, <2>8, <2>10
  <2>12. pte[heapTable[cur]][p].frame = o
    BY <2>5, <2>6
  <2> QED BY <2>1, <2>5, <2>7, <2>8, <2>9, <2>10, <2>11, <2>12, CowFaultKept
<1> QED BY <1>1, <1>2

\* Sharing a page's frame with another page keeps SpaceInv.
LEMMA ShareStep ==
    ASSUME SpaceInv, NEW p \in Space!Pages, NEW q \in Space!Pages, Space!Share(p, q)
    PROVE  SpaceInv'
<1>0. SpaceTypes /\ RefsCounted /\ TablesApart
  BY DEF SpaceInv
<1>1. /\ Space!Look(cur, p) # Space!NoEntry /\ Space!Look(cur, q) = Space!NoEntry
      /\ state[p] # "free" /\ state[q] = "lazy"
      /\ UNCHANGED <<data, root, heapTable, scratch, state, cur>>
      /\ written' = [written EXCEPT ![q] = written[p]]
  BY DEF Space!Share, Space!Mapped
<1>2. cur \in Space!Made
  BY <1>0 DEF SpaceTypes
<1>3. /\ heapTable[cur] # None /\ heapTable[cur] \in Space!Frames
      /\ Space!Look(cur, p) = pte[heapTable[cur]][p] /\ Space!Look(cur, q) = pte[heapTable[cur]][q]
  BY <1>0, <1>1, <1>2, MappedIsUsed
<1>4. PICK f \in Space!Frames : f = Space!Look(cur, p).frame
  BY <1>0, <1>1, <1>2, MappedIsUsed
<1>5. PICK e \in Space!Entry : e = [frame |-> f, writable |-> FALSE, cow |-> TRUE]
  BY DEF Space!Entry
<1>6. /\ refs' = [refs EXCEPT ![f] = @ + 1]
      /\ pte' = [pte EXCEPT ![heapTable[cur]][p] = e, ![heapTable[cur]][q] = e]
  BY <1>4, <1>5 DEF Space!Share
<1>7. PICK new \in [Space!Pages -> Entries] :
          new = [pte[heapTable[cur]] EXCEPT ![p] = e, ![q] = e]
  BY <1>0, <1>3 DEF SpaceTypes, Entries
<1>8. pte' = [pte EXCEPT ![heapTable[cur]] = new]
  BY <1>0, <1>3, <1>6, <1>7 DEF SpaceTypes
<1>9. /\ new[p] = e /\ new[q] = e
      /\ \A r \in Space!Pages : r # p /\ r # q => new[r] = pte[heapTable[cur]][r]
  BY <1>0, <1>3, <1>7 DEF SpaceTypes
<1>10. p # q /\ pte[heapTable[cur]][p].frame = f /\ pte[heapTable[cur]][q] = Space!NoEntry
  BY <1>1, <1>3, <1>4
<1>11. refs' = [refs EXCEPT ![f] = @ + 1] /\ heapTable[cur] # None
  BY <1>3, <1>6
<1> QED BY <1>1, <1>5, <1>8, <1>9, <1>10, <1>11, ShareKept

\* Every step of directories, heap and faults keeps SpaceInv.
LEMMA SpaceStep ==
    ASSUME SpaceInv, Space!Next
    PROVE  SpaceInv'
<1>1. CASE \E d \in UserDirs : Space!CreateDirectory(d)
  BY <1>1, CreateDirectoryKept
<1>2. CASE \E d \in Space!Directories : Space!Switch(d)
  BY <1>2, SwitchKept
<1>3. CASE \E n \in Space!Pages : Space!Allocate(n)
  BY <1>3, AllocateKept
<1>4. CASE \E p, n \in Space!Pages : Space!Free(p, n)
  <2>1. PICK p \in Space!Pages, n \in Space!Pages : Space!Free(p, n)
    BY <1>4
  <2>2. PICK S \in SUBSET Space!Pages :
            /\ Space!Released(S)
            /\ state' = [r \in Space!Pages |-> IF r \in S THEN "free" ELSE state[r]]
            /\ UNCHANGED <<data, root, heapTable, scratch, cur, written>>
    BY <2>1 DEF Space!Free
  <2> QED BY <2>2, FreeKept
<1>5. CASE \E p \in Space!Pages, v \in Space!Values : Space!Write(p, v)
  BY <1>5, WriteKept
<1>6. CASE \E p \in Space!Pages : Space!LazyFault(p)
  BY <1>6, LazyFaultStep
<1>7. CASE \E p \in Space!Pages : Space!CowFault(p)
  BY <1>7, CowFaultStep
<1>8. CASE \E p, q \in Space!Pages : Space!Share(p, q)
  BY <1>8, ShareStep
<1> QED BY <1>1, <1>2, <1>3, <1>4, <1>5, <1>6, <1>7, <1>8 DEF Space!Next

\* SpaceInv is enough for what the run checks.
LEMMA SpaceImplies == ASSUME SpaceInv PROVE Space!ReferencesCounted /\ Space!PagesKeepData
<1>0. SpaceTypes /\ RefsCounted /\ TablesApart /\ PagesKept
  BY DEF SpaceInv
<1>1. Space!ReferencesCounted
  <2>1. ASSUME NEW f \in Space!Frames
        PROVE  Cardinality({t \in InUseAsTable : t = f}) = Tabled(f)
    <3>1. CASE f \in InUseAsTable
      <4>1. {t \in InUseAsTable : t = f} = {f}
        BY <3>1
      <4> QED BY <3>1, <4>1, FS_Singleton DEF Tabled
    <3>2. CASE f \notin InUseAsTable
      <4>1. {t \in InUseAsTable : t = f} = {}
        BY <3>2
      <4> QED BY <3>2, <4>1, FS_EmptySet DEF Tabled
    <3> QED BY <3>1, <3>2
  <2>2. ASSUME NEW f \in Space!Frames
        PROVE  refs[f] = Cardinality({d \in Space!Directories : root[d] = f})
                       + Cardinality({t \in Space!Tables \cup Space!ScratchTables : t = f})
                       + Cardinality({u \in Space!Tables \X Space!Pages : pte[u[1]][u[2]].frame = f})
    BY <1>0, <2>1 DEF RefsCounted, Rooted, Used, InUseAsTable
  <2> QED BY <2>2, SpaceCardinality DEF Space!ReferencesCounted
<1>2. Space!PagesKeepData
  <2> SUFFICES ASSUME Space!OneTable, NEW d \in Space!Made, NEW p \in Space!Pages,
                      state[p] # "free", Space!Look(d, p) # Space!NoEntry
               PROVE  data[Space!Look(d, p).frame] = written[p]
    BY DEF Space!PagesKeepData, Space!Mapped
  <2>1. Space!Look(d, p) = Shown(p)
    BY <1>0, OneTableShows
  <2> QED BY <1>0, <2>1 DEF PagesKept
<1> QED BY <1>1, <1>2

-----------------------------------------------------------------------------
(* Processes: the loader, the process it runs, and what the kernel stores     *)
(* for it.                                                                    *)

Mapping == [frame : User!Frames, writable : BOOLEAN]
Loading == {"stack", "segments", "copy", "create"}

UserTypes ==
    /\ pc \in {"shell", "user", "halted", "panic"} \cup Loading /\ (pc = "panic" => wrapped)
    /\ used \in 0 .. MaxFrames /\ pids \in Nat
    /\ pages \in [User!Frames -> [User!Pages -> Mapping \cup {None}]]
    /\ content \in [User!Frames -> {"free", "image", "data"}]
    /\ process \in [User!Slots -> [state : {"unused", "running", "exited", "faulted"},
                                   dir : Nat, pid : Nat]]
    /\ current \in User!Slots \cup {0}

\* Frames are handed out once, so what is mapped lies below what is not used.
UserFrames ==
    /\ pd <= used /\ \A s \in User!Slots : process[s].dir <= used
    /\ \A d \in User!Frames, p \in User!Pages :
          pages[d][p] # None => d <= used /\ pages[d][p].frame <= used
    /\ User!FramesApart

\* The pages of the first n segments are mapped, and hold their text.
Loaded(n) == \A i \in 1 .. n : i <= Len(program) =>
                 \A p \in User!Span(program[i]) : pages[pd][p] # None
Copied(n) == \A i \in 1 .. n : i <= Len(program) =>
                 \A p \in User!Span(program[i]) : content[pages[pd][p].frame] = "image"

\* The text is in its pages, and they are not to be written to.
Guarded ==
    \A p \in User!ReadOnly(program) :
        /\ pages[pd][p] # None /\ ~pages[pd][p].writable
        /\ content[pages[pd][p].frame] = "image"

UserText ==
    /\ pd \in Nat /\ next \in Nat
    /\ pc \in Loading \cup {"user"} => pd > 0 /\ program \in Programs
    /\ pc \in Loading => next > 0 /\ (pc = "stack" => next = 1)
    /\ pc = "segments" => Loaded(next - 1)
    /\ pc = "copy" => Loaded(Len(program)) /\ Copied(next - 1)
    /\ pc \in {"create", "user"} => Guarded
    /\ pc = "user" => cr3 = pd

UserInv == UserTypes /\ UserFrames /\ UserText /\ User!ContextSound

\* A program is a sequence of segments of the user's pages.
LEMMA ProgramsAre ==
    ASSUME NEW prog \in Programs
    PROVE  /\ Len(prog) \in Nat /\ DOMAIN prog = 1 .. Len(prog)
           /\ \A i \in 1 .. Len(prog) : User!Span(prog[i]) \subseteq User!Pages
           /\ User!ReadOnly(prog) \subseteq UNION {User!Span(prog[i]) : i \in 1 .. Len(prog)}
<1> DEFINE Kind == [first : {1, 2}, last : {1, 2, 3}, writable : BOOLEAN, sound : BOOLEAN]
<1>1. prog \in Seq(Kind)
  <2>1. \A f \in {1, 2}, l \in {1, 2, 3}, w, s \in BOOLEAN : Segment(f, l, w, s) \in Kind
    BY DEF Segment
  <2>2. /\ Segment(1, 1, FALSE, TRUE) \in Kind /\ Segment(2, 3, TRUE, TRUE) \in Kind
        /\ Segment(1, 2, FALSE, TRUE) \in Kind /\ Segment(2, 2, TRUE, TRUE) \in Kind
        /\ Segment(1, 1, TRUE, FALSE) \in Kind
    BY <2>1
  <2>3. \A a, b \in Kind : <<a, b>> \in Seq(Kind) /\ <<a>> \in Seq(Kind)
    OBVIOUS
  <2> HIDE DEF Kind
  <2> QED BY <2>2, <2>3 DEF Programs
<1>2. Len(prog) \in Nat /\ DOMAIN prog = 1 .. Len(prog)
  BY <1>1
<1>3. \A i \in 1 .. Len(prog) : User!Span(prog[i]) \subseteq User!Pages
  <2> SUFFICES ASSUME NEW i \in 1 .. Len(prog), NEW p \in User!Span(prog[i]) PROVE p \in User!Pages
    OBVIOUS
  <2>1. prog[i].first \in {1, 2} /\ prog[i].last \in {1, 2, 3}
    <3> HIDE DEF Kind
    <3>1. prog[i] \in Kind
      BY <1>1
    <3> QED BY <3>1 DEF Kind
  <2>2. p \in Int /\ 1 <= p /\ p <= 3
    BY <2>1 DEF User!Span
  <2> QED BY <2>2, UserAssumption DEF User!Pages
<1>4. User!ReadOnly(prog) \subseteq UNION {User!Span(prog[i]) : i \in 1 .. Len(prog)}
  BY <1>2 DEF User!ReadOnly
<1> QED BY <1>2, <1>3, <1>4

\* Userland's cardinality is the library's.
LEMMA UserCardinality == \A S : User!Cardinality(S) = Cardinality(S)
BY DEF User!Cardinality, Cardinality

\* How many of S come up to p numbers the members of S, from 1 on.
Rank(S, p) == Cardinality({q \in S : q <= p})

LEMMA RankNumbers ==
    ASSUME NEW S \in SUBSET User!Pages
    PROVE  /\ Cardinality(S) \in Nat
           /\ \A p \in S : Rank(S, p) \in 1 .. Cardinality(S)
           /\ \A p, q \in S : p # q => Rank(S, p) # Rank(S, q)
<1>1. LastPage \in Nat /\ S \subseteq 1 .. LastPage
  BY UserAssumption DEF User!Pages
<1>2. IsFiniteSet(S) /\ Cardinality(S) \in Nat
  <2>1. IsFiniteSet(1 .. LastPage)
    BY <1>1, FS_Interval
  <2>2. IsFiniteSet(S)
    BY <1>1, <2>1, FS_Subset
  <2> QED BY <2>2, FS_CardinalityType
<1> DEFINE Below(p) == {q \in S : q <= p}
<1>3. ASSUME NEW p \in S
      PROVE  /\ IsFiniteSet(Below(p)) /\ Cardinality(Below(p)) \in Nat
             /\ Cardinality(Below(p)) <= Cardinality(S) /\ Cardinality(Below(p)) # 0
  <2>1. Below(p) \subseteq S /\ p \in Below(p)
    BY <1>1
  <2> QED BY <1>2, <2>1, FS_Subset, FS_CardinalityType, FS_EmptySet
<1>4. ASSUME NEW p \in S, NEW q \in S, p < q
      PROVE  Cardinality(Below(p)) < Cardinality(Below(q))
  <2>1. Below(p) \subseteq Below(q) /\ Below(p) # Below(q)
    <3>1. q \in Below(q) /\ q \notin Below(p)
      BY <1>1, <1>4
    <3>2. \A y \in S : y \in Int
      BY <1>1
    <3>3. \A y \in S : y <= p => y <= q
      BY <1>4, <3>2
    <3> QED BY <3>1, <3>3
  <2>2. IsFiniteSet(Below(q)) /\ IsFiniteSet(Below(p))
    BY <1>3
  <2>3. Cardinality(Below(p)) <= Cardinality(Below(q)) /\ Cardinality(Below(p)) # Cardinality(Below(q))
    BY <2>1, <2>2, FS_Subset
  <2> QED BY <1>3, <2>3
<1>5. \A p, q \in S : p # q => Cardinality(Below(p)) # Cardinality(Below(q))
  <2> SUFFICES ASSUME NEW p \in S, NEW q \in S, p # q
               PROVE  Cardinality(Below(p)) # Cardinality(Below(q))
    OBVIOUS
  <2>1. p < q \/ q < p
    BY <1>1
  <2> QED BY <1>3, <1>4, <2>1
<1> QED BY <1>2, <1>3, <1>5 DEF Rank

\* map_user_range: what it maps, it maps to frames nobody had.
LEMMA MapKept ==
    ASSUME UserTypes, UserFrames, pd \in Nat, pd > 0, NEW S \in SUBSET User!Pages, User!Mapped(S),
           used + User!NeededFor(S) <= MaxFrames, UNCHANGED <<pd, process>>
    PROVE  /\ used' \in 0 .. MaxFrames
           /\ pages' \in [User!Frames -> [User!Pages -> Mapping \cup {None}]]
           /\ UserFrames'
           /\ \A p \in User!Pages : pages'[pd][p] # None <=> p \in S \/ pages[pd][p] # None
<1> DEFINE skip == used + (IF User!HasTable THEN 0 ELSE 1)
           size == Cardinality(S)
<1>1. MaxFrames \in Nat /\ None \notin Mapping /\ User!Frames = 1 .. MaxFrames
  BY UserAssumption DEF Mapping, User!Frames
<1>2. used \in 0 .. MaxFrames /\ pd \in 1 .. used /\ pd \in User!Frames
  BY <1>1 DEF UserTypes, UserFrames
<1>3. size \in Nat /\ (\A p \in S : Rank(S, p) \in 1 .. size)
      /\ (\A p, q \in S : p # q => Rank(S, p) # Rank(S, q))
  BY RankNumbers
<1>4. skip \in Nat /\ skip >= used /\ used' = skip + size /\ skip + size <= MaxFrames
  <2>1. used' = used + User!NeededFor(S) /\ User!NeededFor(S) = size + (IF User!HasTable THEN 0 ELSE 1)
    BY UserCardinality DEF User!Mapped, User!NeededFor
  <2> QED BY <1>2, <1>3, <2>1
<1> DEFINE new(p) == [frame |-> skip + Rank(S, p), writable |-> TRUE]
<1>5. pages' = [pages EXCEPT ![pd] = [p \in User!Pages |-> IF p \in S THEN new(p) ELSE pages[pd][p]]]
  BY UserCardinality DEF User!Mapped, Rank
<1>6. \A p \in S : new(p) \in Mapping /\ new(p) # None /\ new(p).frame \in skip + 1 .. skip + size
  <2> SUFFICES ASSUME NEW p \in S
               PROVE  new(p) \in Mapping /\ new(p).frame \in skip + 1 .. skip + size
    BY <1>1
  <2>1. skip + Rank(S, p) \in skip + 1 .. skip + size
    BY <1>3, <1>4
  <2>2. skip + Rank(S, p) \in User!Frames
    BY <1>1, <1>3, <1>4, <2>1
  <2> QED BY <2>1, <2>2 DEF Mapping
<1>7. \A p, q \in S : p # q => new(p).frame # new(q).frame
  BY <1>3, <1>4
<1> HIDE DEF skip, size, new
<1>8. pages \in [User!Frames -> [User!Pages -> Mapping \cup {None}]]
  BY DEF UserTypes
<1>9. /\ pages' \in [User!Frames -> [User!Pages -> Mapping \cup {None}]]
      /\ \A d \in User!Frames, p \in User!Pages :
            pages'[d][p] = IF d = pd /\ p \in S THEN new(p) ELSE pages[d][p]
  BY <1>2, <1>5, <1>6, <1>8
<1>10. \A p \in User!Pages : pages'[pd][p] # None <=> p \in S \/ pages[pd][p] # None
  BY <1>2, <1>6, <1>9
<1> DEFINE Old(d, p) == ~(d = pd /\ p \in S) /\ pages[d][p] # None
<1>11. \A d \in User!Frames, p \in User!Pages : pages'[d][p] # None =>
          (Old(d, p) /\ pages'[d][p] = pages[d][p]) \/ (d = pd /\ p \in S /\ pages'[d][p] = new(p))
  BY <1>9
<1>12. /\ \A d \in User!Frames, p \in User!Pages :
             Old(d, p) => d <= used /\ pages[d][p].frame \in 1 .. used
       /\ \A s \in User!Slots : process[s].dir \in 0 .. used
  <2>1. \A d \in User!Frames, p \in User!Pages : pages[d][p] # None =>
            pages[d][p] \in Mapping /\ d <= used /\ pages[d][p].frame <= used
    BY <1>8 DEF UserFrames
  <2>2. \A m \in Mapping : m.frame \in Int /\ m.frame >= 1
    BY <1>1 DEF Mapping
  <2>3. \A s \in User!Slots : process[s].dir \in Nat /\ process[s].dir <= used
    BY DEF UserTypes, UserFrames
  <2> QED BY <1>2, <2>1, <2>2, <2>3
<1>13. used' \in 0 .. MaxFrames /\ used' >= used
  BY <1>2, <1>3, <1>4
<1>14. \A d \in User!Frames, p \in User!Pages : pages'[d][p] # None => d <= used' /\ pages'[d][p].frame <= used'
  <2> SUFFICES ASSUME NEW d \in User!Frames, NEW p \in User!Pages, pages'[d][p] # None
               PROVE  d <= used' /\ pages'[d][p].frame <= used'
    OBVIOUS
  <2>1. CASE Old(d, p) /\ pages'[d][p] = pages[d][p]
    <3>1. d <= used /\ pages[d][p].frame \in 1 .. used
      BY <1>12, <2>1
    <3>2. d \in Int
      BY <1>1
    <3> QED BY <1>2, <1>13, <2>1, <3>1, <3>2
  <2>2. CASE d = pd /\ p \in S /\ pages'[d][p] = new(p)
    <3>1. new(p).frame \in skip + 1 .. skip + size
      BY <1>6, <2>2
    <3> QED BY <1>2, <1>3, <1>4, <1>13, <2>2, <3>1
  <2> QED BY <1>11, <2>1, <2>2
<1>15. User!FramesApart'
  <2> SUFFICES ASSUME NEW d \in User!Frames, NEW p \in User!Pages, pages'[d][p] # None
               PROVE  /\ pages'[d][p].frame \notin {process[s].dir : s \in User!Slots} \cup {pd}
                      /\ \A e \in User!Frames, q \in User!Pages :
                            <<d, p>> # <<e, q>> /\ pages'[e][q] # None => pages'[d][p].frame # pages'[e][q].frame
    BY DEF User!FramesApart, User!FrameOf
  <2>1. /\ Old(d, p) => /\ pages[d][p].frame \notin {process[s].dir : s \in User!Slots} \cup {pd}
                        /\ \A e \in User!Frames, q \in User!Pages :
                              <<d, p>> # <<e, q>> /\ Old(e, q) => pages[d][p].frame # pages[e][q].frame
    BY DEF UserFrames, User!FramesApart, User!FrameOf
  <2>2. \A e \in User!Frames, q \in User!Pages, r \in S : Old(e, q) => pages[e][q].frame # new(r).frame
    <3> SUFFICES ASSUME NEW e \in User!Frames, NEW q \in User!Pages, NEW r \in S, Old(e, q)
                 PROVE  pages[e][q].frame # new(r).frame
      OBVIOUS
    <3>1. pages[e][q].frame \in 1 .. used /\ new(r).frame \in skip + 1 .. skip + size
      BY <1>6, <1>12
    <3> QED BY <1>2, <1>3, <1>4, <3>1
  <2>3. CASE Old(d, p) /\ pages'[d][p] = pages[d][p]
    BY <1>11, <2>1, <2>2, <2>3
  <2>4. CASE d = pd /\ p \in S /\ pages'[d][p] = new(p)
    <3>1. new(p).frame \notin {process[s].dir : s \in User!Slots} \cup {pd}
      <4>1. new(p).frame \in skip + 1 .. skip + size
        BY <1>6, <2>4
      <4> QED BY <1>2, <1>3, <1>4, <1>12, <4>1
    <3>2. ASSUME NEW e \in User!Frames, NEW q \in User!Pages, <<d, p>> # <<e, q>>, pages'[e][q] # None
          PROVE  new(p).frame # pages'[e][q].frame
      <4>1. CASE Old(e, q) /\ pages'[e][q] = pages[e][q]
        BY <2>2, <2>4, <4>1
      <4>2. CASE e = pd /\ q \in S /\ pages'[e][q] = new(q)
        BY <1>7, <2>4, <3>2, <4>2
      <4> QED BY <1>11, <3>2, <4>1, <4>2
    <3> QED BY <2>4, <3>1, <3>2
  <2> QED BY <1>11, <2>3, <2>4
<1>16. pd' <= used' /\ \A s \in User!Slots : process'[s].dir <= used'
  BY <1>2, <1>12, <1>13
<1> QED BY <1>9, <1>10, <1>13, <1>14, <1>15, <1>16 DEF UserFrames

\* A step that leaves the frames alone keeps what is said of them.
LEMMA FramesUnchanged ==
    ASSUME UserFrames, UNCHANGED <<pages, used, pd>>,
           \A s \in User!Slots : process'[s].dir = process[s].dir \/ process'[s].dir = pd
    PROVE  UserFrames'
<1>1. {process'[s].dir : s \in User!Slots} \cup {pd} \subseteq {process[s].dir : s \in User!Slots} \cup {pd}
  OBVIOUS
<1> QED BY <1>1 DEF UserFrames, User!FramesApart, User!FrameOf

\* A step that leaves the program and its pages alone keeps what was loaded.
LEMMA LoadedUnchanged ==
    ASSUME UNCHANGED <<program, pages, pd>>, NEW n \in Nat
    PROVE  /\ Loaded(n) => Loaded(n)'
           /\ UNCHANGED content => (Copied(n) => Copied(n)') /\ (Guarded => Guarded')
<1>1. User!ReadOnly(program)' = User!ReadOnly(program)
  BY DEF User!ReadOnly, User!Span
<1>2. UNCHANGED content => (Guarded => Guarded')
  BY <1>1 DEF Guarded
<1> QED BY <1>2 DEF Loaded, Copied, User!Span

\* The first process is none, and nothing is mapped.
LEMMA UserStart == ASSUME User!Init PROVE UserInv
<1>1. /\ pages = [d \in User!Frames |-> User!NoPages] /\ used = 0 /\ pd = 0 /\ cr3 = 0 /\ next = 0
      /\ pc = "shell" /\ current = 0 /\ tss = 0 /\ pids = 0 /\ content = [f \in User!Frames |-> "free"]
      /\ process = [s \in User!Slots |-> [state |-> "unused", dir |-> 0, pid |-> 0]]
  BY DEF User!Init, User!KernelDirectory
<1>2. \A d \in User!Frames, p \in User!Pages : pages[d][p] = None
  BY <1>1 DEF User!NoPages
<1>3. \A s \in User!Slots : process[s].state = "unused" /\ process[s].dir = 0
  BY <1>1
<1>4. UserTypes
  BY <1>1, UserAssumption DEF UserTypes, User!NoPages, Mapping
<1>5. UserFrames
  BY <1>1, <1>2, <1>3 DEF UserFrames, User!FramesApart
<1>6. UserText
  BY <1>1 DEF UserText, Loading
<1>7. User!ContextSound
  BY <1>1, <1>3 DEF User!ContextSound, User!KernelDirectory
<1> QED BY <1>4, <1>5, <1>6, <1>7 DEF UserInv

\* The current process leaves, for whatever reason.
LEMMA LeaveKept ==
    ASSUME UserInv, pc = "user", NEW end \in {"exited", "faulted"}, User!Leave(end)
    PROVE  UserInv'
<1>1. /\ process' = [process EXCEPT ![current].state = end] /\ current' = 0 /\ tss' = 0
      /\ cr3' = 0 /\ pc' = "shell" /\ UNCHANGED <<program, next, pd, pages, used, content, pids>>
  BY DEF User!Leave, User!ToKernel, User!KernelDirectory
<1>2. /\ process \in [User!Slots -> [state : {"unused", "running", "exited", "faulted"}, dir : Nat, pid : Nat]]
      /\ \A s \in User!Slots : process[s].state = "running" => s = current
  BY DEF UserInv, UserTypes, User!ContextSound
<1>3. /\ process' \in [User!Slots -> [state : {"unused", "running", "exited", "faulted"}, dir : Nat, pid : Nat]]
      /\ \A s \in User!Slots : process'[s].dir = process[s].dir /\ process'[s].state # "running"
  BY <1>1, <1>2
<1>4. UserTypes'
  BY <1>1, <1>3 DEF UserInv, UserTypes
<1>5. UserFrames'
  BY <1>1, <1>3, FramesUnchanged DEF UserInv
<1>6. UserText'
  BY <1>1 DEF UserInv, UserText, Loading
<1>7. User!ContextSound'
  BY <1>1, <1>3 DEF User!ContextSound, User!KernelDirectory
<1> QED BY <1>4, <1>5, <1>6, <1>7 DEF UserInv

\* Filling frames that hold no text of the program keeps it.
LEMMA FillKept ==
    ASSUME UserInv, pc = "user", NEW S \in SUBSET User!Pages,
           \A p \in S : pages[pd][p] # None /\ pages[pd][p].writable,
           content' = User!Filled({pages[pd][p].frame : p \in S}, "data"),
           UNCHANGED <<pc, program, next, cr3, pd, pages, used, process, current, tss, pids>>
    PROVE  UserInv'
<1>1. UserTypes /\ UserFrames /\ UserText /\ User!ContextSound
  BY DEF UserInv
<1>2. /\ content' = [f \in User!Frames |-> IF f \in {pages[pd][p].frame : p \in S} THEN "data" ELSE content[f]]
      /\ content' \in [User!Frames -> {"free", "image", "data"}]
  BY <1>1 DEF User!Filled, UserTypes
<1>3. UserTypes'
  BY <1>1, <1>2 DEF UserTypes
<1>4. UserFrames'
  BY <1>1, FramesUnchanged
<1>5. User!ContextSound'
  BY <1>1 DEF User!ContextSound
<1>6. /\ pd \in User!Frames /\ program \in Programs /\ Guarded
  <2>1. program \in Programs /\ pd > 0 /\ pd \in Nat /\ Guarded
    BY <1>1 DEF UserText, Loading
  <2>2. pd <= used /\ used \in 0 .. MaxFrames
    BY <1>1 DEF UserFrames, UserTypes
  <2>3. pd \in User!Frames
    BY <2>1, <2>2, UserAssumption DEF User!Frames
  <2> QED BY <2>1, <2>3
<1>7. User!ReadOnly(program) \subseteq User!Pages
  BY <1>6, ProgramsAre
<1>8. Guarded'
  <2>4. User!ReadOnly(program)' = User!ReadOnly(program)
    BY DEF User!ReadOnly, User!Span
  <2> SUFFICES ASSUME NEW p \in User!ReadOnly(program)
               PROVE  content'[pages[pd][p].frame] = "image"
    BY <1>6, <2>4 DEF Guarded
  <2>1. /\ pages[pd][p] # None /\ ~pages[pd][p].writable /\ p \in User!Pages
        /\ content[pages[pd][p].frame] = "image"
    BY <1>6, <1>7 DEF Guarded
  <2>2. pages[pd][p].frame \in User!Frames
    BY <1>1, <1>6, <2>1 DEF UserTypes, Mapping
  <2>3. ASSUME NEW q \in S PROVE pages[pd][q].frame # pages[pd][p].frame
    <3>1. q # p /\ q \in User!Pages /\ pages[pd][q] # None
      BY <2>1
    <3> QED BY <1>1, <1>6, <2>1, <3>1 DEF UserFrames, User!FramesApart, User!FrameOf
  <2> QED BY <1>2, <2>1, <2>2, <2>3
<1>9. UserText'
  BY <1>1, <1>8 DEF UserText, Loading
<1> QED BY <1>3, <1>4, <1>5, <1>9 DEF UserInv

\* Every step of the loader, of the process and of others keeps UserInv.
LEMMA UserStep ==
    ASSUME UserInv, User!Next
    PROVE  UserInv'
<1>0. UserTypes /\ UserFrames /\ UserText /\ User!ContextSound
  BY DEF UserInv
<1>h. MaxFrames \in Nat /\ None \notin Mapping /\ User!Frames = 1 .. MaxFrames /\ used \in 0 .. MaxFrames
  BY <1>0, UserAssumption DEF Mapping, User!Frames, UserTypes
<1>i. pc \in Loading \cup {"user"} => program \in Programs /\ pd \in User!Frames
  <2>1. pc \in Loading \cup {"user"} => program \in Programs /\ pd \in Nat /\ pd > 0 /\ pd <= used
    BY <1>0 DEF UserText, UserFrames
  <2> QED BY <1>h, <2>1
<1>1. CASE User!TakenElsewhere
  <2>1. /\ used' = used + 1 /\ used' \in 0 .. MaxFrames /\ pc # "panic"
        /\ UNCHANGED <<pc, program, next, cr3, pd, pages, content, process, current, tss, pids>>
    BY <1>1, <1>h DEF User!TakenElsewhere
  <2>2. UserTypes'
    BY <1>0, <2>1 DEF UserTypes
  <2>3. UserFrames'
    <3>1. pd <= used' /\ \A s \in User!Slots : process[s].dir <= used'
      BY <1>0, <1>h, <2>1 DEF UserFrames, UserTypes, UserText
    <3>2. \A d \in User!Frames, p \in User!Pages :
             pages[d][p] # None => d <= used' /\ pages[d][p].frame <= used'
      <4> SUFFICES ASSUME NEW d \in User!Frames, NEW p \in User!Pages, pages[d][p] # None
                   PROVE  d <= used' /\ pages[d][p].frame <= used'
        OBVIOUS
      <4>1. d <= used /\ pages[d][p].frame <= used /\ pages[d][p] \in Mapping
        BY <1>0 DEF UserFrames, UserTypes
      <4>2. pages[d][p].frame \in Nat
        BY <1>h, <4>1 DEF Mapping
      <4> QED BY <1>h, <2>1, <4>1, <4>2
    <3>3. User!FramesApart'
      BY <1>0, <2>1 DEF UserFrames, User!FramesApart, User!FrameOf
    <3> QED BY <2>1, <3>1, <3>2, <3>3 DEF UserFrames
  <2>4. UserText'
    <3>1. Loaded(next - 1)' = Loaded(next - 1) /\ Loaded(Len(program))' = Loaded(Len(program))
          /\ Copied(next - 1)' = Copied(next - 1) /\ Guarded' = Guarded
      BY <2>1 DEF Loaded, Copied, Guarded, User!ReadOnly, User!Span
    <3> QED BY <1>0, <2>1, <3>1 DEF UserText
  <2>5. User!ContextSound'
    BY <1>0, <2>1 DEF User!ContextSound
  <2> QED BY <2>2, <2>3, <2>4, <2>5 DEF UserInv
<1>2. ASSUME pc # "user", User!Halt PROVE UserInv'
  <2>1. pc' = "halted" /\ UNCHANGED <<program, next, cr3, pd, pages, used, content, process, current, tss, pids>>
    BY <1>2 DEF User!Halt
  <2>2. UserTypes'
    BY <1>0, <2>1 DEF UserTypes
  <2>3. UserFrames'
    BY <1>0, <2>1, FramesUnchanged
  <2>4. UserText'
    BY <1>0, <2>1 DEF UserText, Loading
  <2>5. User!ContextSound'
    BY <1>0, <2>1 DEF User!ContextSound
  <2> QED BY <2>2, <2>3, <2>4, <2>5 DEF UserInv
<1>3. ASSUME NEW prog \in Programs, User!Start(prog) PROVE UserInv'
  <2>1. CASE used = MaxFrames
    BY <1>2, <1>3, <2>1 DEF User!Start
  <2>2. CASE used # MaxFrames
    <3>1. /\ pc = "shell" /\ pd' = used + 1 /\ used' = used + 1 /\ program' = prog /\ next' = 1 /\ pc' = "stack"
          /\ UNCHANGED <<cr3, pages, content, process, current, tss, pids>>
      BY <1>3, <2>2 DEF User!Start
    <3>2. used' \in 0 .. MaxFrames /\ pd' \in Nat /\ pd' > 0 /\ used \in Nat
      BY <1>h, <2>2, <3>1
    <3>3. UserTypes'
      BY <1>0, <3>1, <3>2 DEF UserTypes, Loading
    <3>4. UserFrames'
      <4>1. \A d \in User!Frames, p \in User!Pages : pages[d][p] # None =>
               d \in Nat /\ d <= used /\ pages[d][p].frame <= used /\ pages[d][p].frame \in Nat
        <5> SUFFICES ASSUME NEW d \in User!Frames, NEW p \in User!Pages, pages[d][p] # None
                     PROVE  d \in Nat /\ d <= used /\ pages[d][p].frame <= used /\ pages[d][p].frame \in Nat
          OBVIOUS
        <5>1. d <= used /\ pages[d][p].frame <= used /\ pages[d][p] \in Mapping
          BY <1>0 DEF UserFrames, UserTypes
        <5> QED BY <1>h, <5>1 DEF Mapping
      <4>2. \A s \in User!Slots : process[s].dir \in Nat /\ process[s].dir <= used
        BY <1>0 DEF UserFrames, UserTypes
      <4>3. pd' <= used' /\ \A s \in User!Slots : process'[s].dir <= used'
        BY <3>1, <3>2, <4>2
      <4>4. \A d \in User!Frames, p \in User!Pages : pages'[d][p] # None => d <= used' /\ pages'[d][p].frame <= used'
        BY <3>1, <3>2, <4>1
      <4>5. User!FramesApart'
        <5>1. \A d \in User!Frames, p \in User!Pages : pages[d][p] # None => pages[d][p].frame # pd'
          BY <3>1, <3>2, <4>1
        <5> QED BY <1>0, <3>1, <5>1 DEF UserFrames, User!FramesApart, User!FrameOf
      <4> QED BY <4>3, <4>4, <4>5 DEF UserFrames
    <3>5. UserText'
      BY <3>1, <3>2 DEF UserText, Loading
    <3>6. User!ContextSound'
      BY <1>0, <3>1 DEF User!ContextSound, User!KernelDirectory
    <3> QED BY <3>3, <3>4, <3>5, <3>6 DEF UserInv
  <2> QED BY <2>1, <2>2
<1>4. CASE User!MapStack
  <2>1. CASE used + User!NeededFor(StackPages) > MaxFrames
    BY <1>2, <1>4, <2>1 DEF User!MapStack
  <2>2. CASE ~ (used + User!NeededFor(StackPages) > MaxFrames)
    <3>1. /\ pc = "stack" /\ User!Mapped(StackPages) /\ pc' = "segments"
          /\ UNCHANGED <<program, next, cr3, pd, content, process, current, tss, pids>>
      BY <1>4, <2>2 DEF User!MapStack
    <3>2. StackPages \in SUBSET User!Pages /\ pd \in Nat /\ pd > 0
      BY <1>h, <1>i, <3>1, UserAssumption DEF User!Pages, Loading
    <3>3. used + User!NeededFor(StackPages) <= MaxFrames
      BY <1>h, <2>2, <3>2, RankNumbers, UserCardinality DEF User!NeededFor
    <3>4. /\ used' \in 0 .. MaxFrames /\ UserFrames'
          /\ pages' \in [User!Frames -> [User!Pages -> Mapping \cup {None}]]
      BY <1>0, <3>1, <3>2, <3>3, MapKept
    <3>5. UserTypes'
      BY <1>0, <3>1, <3>4 DEF UserTypes, Loading
    <3>6. UserText'
      <4>1. (pd \in Nat /\ next \in Nat /\ pd > 0 /\ program \in Programs /\ next > 0)'
        BY <1>0, <3>1 DEF UserText, Loading
      <4>2. Loaded(next - 1)'
        <5>1. next' - 1 = 0
          BY <1>0, <3>1 DEF UserText, Loading
        <5> QED BY <5>1 DEF Loaded
      <4> QED BY <3>1, <4>1, <4>2 DEF UserText, Loading
    <3>7. User!ContextSound'
      BY <1>0, <3>1 DEF User!ContextSound
    <3> QED BY <3>4, <3>5, <3>6, <3>7 DEF UserInv
  <2> QED BY <2>1, <2>2
<1>5. CASE User!MapSegment
  <2> DEFINE S == User!Span(program[next])
             Bad == used + User!NeededFor(S) > MaxFrames \/ \E p \in S : pages[pd][p] # None
  <2>0. pc = "segments" /\ next <= Len(program)
    BY <1>5 DEF User!MapSegment
  <2>1. CASE Bad
    BY <1>2, <1>5, <2>0, <2>1 DEF User!MapSegment
  <2>2. CASE ~Bad
    <3>1. /\ User!Mapped(S) /\ next' = next + 1
          /\ UNCHANGED <<pc, program, cr3, pd, content, process, current, tss, pids>>
      BY <1>5, <2>2 DEF User!MapSegment
    <3>2. /\ program \in Programs /\ pd \in Nat /\ pd > 0 /\ pd \in User!Frames
          /\ next \in Nat /\ next > 0 /\ Loaded(next - 1)
      BY <1>0, <1>i, <2>0 DEF UserText, Loading
    <3>8. Len(program) \in Nat /\ next \in 1 .. Len(program)
      BY <2>0, <3>2, ProgramsAre
    <3>9. \A i \in 1 .. Len(program) : User!Span(program[i]) \subseteq User!Pages
      BY <3>2, ProgramsAre
    <3>10. S \in SUBSET User!Pages
      BY <3>8, <3>9
    <3> HIDE DEF S
    <3>3. used + User!NeededFor(S) <= MaxFrames
      BY <1>h, <2>2, <3>10, RankNumbers, UserCardinality DEF User!NeededFor
    <3>4. /\ used' \in 0 .. MaxFrames /\ UserFrames'
          /\ pages' \in [User!Frames -> [User!Pages -> Mapping \cup {None}]]
          /\ \A p \in User!Pages : pages'[pd][p] # None <=> p \in S \/ pages[pd][p] # None
      BY <1>0, <3>1, <3>2, <3>3, <3>10, MapKept
    <3>5. UserTypes'
      BY <1>0, <2>0, <3>1, <3>4 DEF UserTypes, Loading
    <3>6. UserText'
      <4>1. (pd \in Nat /\ next \in Nat /\ pd > 0 /\ program \in Programs /\ next > 0)'
        BY <3>1, <3>2
      <4>2. Loaded(next - 1)'
        <5>1. \A i \in 1 .. next : i <= Len(program) =>
                  \A p \in User!Span(program[i]) : pages'[pd][p] # None
          <6> SUFFICES ASSUME NEW i \in 1 .. next, i <= Len(program), NEW p \in User!Span(program[i])
                       PROVE  p \in S \/ (p \in User!Pages /\ pages[pd][p] # None)
            BY <3>4, <3>10
          <6>1. p \in User!Pages
            BY <3>8, <3>9
          <6>2. CASE i = next
            BY <6>2 DEF S
          <6>3. CASE i # next
            <7>1. i \in 1 .. next - 1
              BY <3>2, <6>3
            <7> QED BY <3>2, <6>1, <7>1 DEF Loaded
          <6> QED BY <6>2, <6>3
        <5>2. next' - 1 = next
          BY <3>1, <3>2
        <5>3. \A i \in 1 .. next : User!Span(program[i])' = User!Span(program[i])
          BY <3>1 DEF User!Span
        <5> QED BY <3>1, <5>1, <5>2, <5>3 DEF Loaded
      <4> QED BY <2>0, <3>1, <4>1, <4>2 DEF UserText, Loading
    <3>7. User!ContextSound'
      BY <1>0, <3>1 DEF User!ContextSound
    <3> QED BY <3>4, <3>5, <3>6, <3>7 DEF UserInv
  <2> QED BY <2>1, <2>2
<1>6. CASE User!SwitchForCopy
  <2>1. /\ pc = "segments" /\ next > Len(program) /\ cr3' = pd /\ next' = 1 /\ pc' = "copy"
        /\ UNCHANGED <<program, pd, pages, used, content, process, current, tss, pids>>
    BY <1>6 DEF User!SwitchForCopy
  <2>2. /\ program \in Programs /\ pd \in Nat /\ pd > 0
        /\ next \in Nat /\ next > 0 /\ Loaded(next - 1)
    BY <1>0, <1>i, <2>1 DEF UserText, Loading
  <2>3. Len(program) \in Nat
    BY <2>2, ProgramsAre
  <2>4. Loaded(Len(program))
    BY <2>1, <2>2, <2>3 DEF Loaded
  <2>5. Loaded(Len(program))'
    <3>1. Len(program)' = Len(program)
      BY <2>1
    <3> QED BY <2>1, <2>3, <2>4, <3>1, LoadedUnchanged
  <2>6. Copied(next - 1)'
    <3>1. next' - 1 = 0
      BY <2>1
    <3> QED BY <3>1 DEF Copied
  <2>7. UserTypes'
    BY <1>0, <2>1 DEF UserTypes, Loading
  <2>8. UserFrames'
    BY <1>0, <2>1, FramesUnchanged
  <2>9. UserText'
    BY <2>1, <2>2, <2>5, <2>6 DEF UserText, Loading
  <2>10. User!ContextSound'
    BY <1>0, <2>1 DEF User!ContextSound
  <2> QED BY <2>7, <2>8, <2>9, <2>10 DEF UserInv
<1>7. CASE User!CopySegment
  <2>0. /\ pc = "copy" /\ next <= Len(program) /\ cr3 = pd
        /\ program \in Programs /\ pd \in User!Frames /\ pd > 0 /\ pd \in Nat
        /\ next \in Nat /\ next > 0 /\ Loaded(Len(program)) /\ Copied(next - 1)
    BY <1>0, <1>i, <1>7 DEF User!CopySegment, UserText, Loading, User!ContextSound
  <2>1. CASE ~program[next].sound
    BY <1>2, <1>7, <2>0, <2>1 DEF User!CopySegment
  <2>2. CASE program[next].sound
    <3> DEFINE F == User!FramesOf(cr3, User!Span(program[next]))
    <3>1. /\ content' = User!Filled(F, "image") /\ next' = next + 1
          /\ UNCHANGED <<pc, program, cr3, pd, pages, used, process, current, tss, pids>>
      BY <1>7, <2>2 DEF User!CopySegment
    <3>2. Len(program) \in Nat /\ next \in 1 .. Len(program)
      BY <2>0, ProgramsAre
    <3>3. \A i \in 1 .. Len(program) : User!Span(program[i]) \subseteq User!Pages
      BY <2>0, ProgramsAre
    <3>4. \A p \in User!Span(program[next]) : pages[pd][p].frame \in F
      BY <2>0 DEF User!FramesOf, User!FrameOf
    <3> HIDE DEF F
    <3>5. /\ content' = [f \in User!Frames |-> IF f \in F THEN "image" ELSE content[f]]
          /\ content' \in [User!Frames -> {"free", "image", "data"}]
      BY <1>0, <3>1 DEF User!Filled, UserTypes
    <3>6. Copied(next - 1)'
      <4>1. \A i \in 1 .. next : i <= Len(program) =>
                \A p \in User!Span(program[i]) : content'[pages[pd][p].frame] = "image"
        <5> SUFFICES ASSUME NEW i \in 1 .. next, i <= Len(program), NEW p \in User!Span(program[i])
                     PROVE  content'[pages[pd][p].frame] = "image"
          OBVIOUS
        <5>1. p \in User!Pages /\ pages[pd][p] # None
          BY <2>0, <3>2, <3>3 DEF Loaded
        <5>2. pages[pd][p].frame \in User!Frames
          BY <1>0, <2>0, <5>1 DEF UserTypes, Mapping
        <5>3. CASE i = next
          BY <3>4, <3>5, <5>2, <5>3
        <5>4. CASE i # next
          <6>1. i \in 1 .. next - 1
            BY <3>2, <5>4
          <6>2. content[pages[pd][p].frame] = "image"
            BY <2>0, <6>1 DEF Copied
          <6> QED BY <3>5, <5>2, <6>2
        <5> QED BY <5>3, <5>4
      <4>2. next' - 1 = next
        BY <2>0, <3>1
      <4>3. \A i \in 1 .. next : User!Span(program[i])' = User!Span(program[i])
        BY <3>1 DEF User!Span
      <4> QED BY <3>1, <4>1, <4>2, <4>3 DEF Copied
    <3>7. UserTypes'
      BY <1>0, <2>0, <3>1, <3>5 DEF UserTypes
    <3>8. UserFrames'
      BY <1>0, <3>1, FramesUnchanged
    <3>9. UserText'
      <4>1. Len(program)' = Len(program)
        BY <3>1
      <4>2. Loaded(Len(program))'
        BY <2>0, <3>1, <3>2, <4>1, LoadedUnchanged
      <4> QED BY <2>0, <3>1, <3>6, <4>2 DEF UserText, Loading
    <3>10. User!ContextSound'
      BY <1>0, <3>1 DEF User!ContextSound
    <3> QED BY <3>7, <3>8, <3>9, <3>10 DEF UserInv
  <2> QED BY <2>1, <2>2
<1>8. CASE User!Protect
  <2>1. /\ pc = "copy" /\ next > Len(program) /\ pc' = "create"
        /\ pages' = [pages EXCEPT ![pd] = [p \in User!Pages |->
              IF p \in User!ReadOnly(program) THEN [pages[pd][p] EXCEPT !.writable = FALSE] ELSE pages[pd][p]]]
        /\ UNCHANGED <<program, next, cr3, pd, used, content, process, current, tss, pids>>
    BY <1>8 DEF User!Protect
  <2>2. /\ program \in Programs /\ pd \in User!Frames /\ pd > 0 /\ pd \in Nat
        /\ next \in Nat /\ next > 0 /\ Loaded(Len(program)) /\ Copied(next - 1)
    BY <1>0, <1>i, <2>1 DEF UserText, Loading
  <2>3. Len(program) \in Nat
    BY <2>2, ProgramsAre
  <2>4. \A p \in User!ReadOnly(program) :
           p \in User!Pages /\ pages[pd][p] # None /\ content[pages[pd][p].frame] = "image"
    <3> SUFFICES ASSUME NEW p \in User!ReadOnly(program)
                 PROVE  p \in User!Pages /\ pages[pd][p] # None /\ content[pages[pd][p].frame] = "image"
      OBVIOUS
    <3>1. PICK i \in 1 .. Len(program) : p \in User!Span(program[i])
      BY <2>2, ProgramsAre
    <3>2. p \in User!Pages
      BY <2>2, <3>1, ProgramsAre
    <3>3. i \in 1 .. next - 1 /\ i <= Len(program)
      BY <2>1, <2>2, <2>3
    <3> QED BY <2>2, <3>1, <3>2, <3>3 DEF Loaded, Copied
  <2>5. pages \in [User!Frames -> [User!Pages -> Mapping \cup {None}]]
    BY <1>0 DEF UserTypes
  <2>6. \A p \in User!ReadOnly(program) :
           LET m == [pages[pd][p] EXCEPT !.writable = FALSE]
           IN  m \in Mapping /\ m.frame = pages[pd][p].frame /\ ~m.writable
    <3> SUFFICES ASSUME NEW p \in User!ReadOnly(program)
                 PROVE  LET m == [pages[pd][p] EXCEPT !.writable = FALSE]
                        IN  m \in Mapping /\ m.frame = pages[pd][p].frame /\ ~m.writable
      OBVIOUS
    <3>1. pages[pd][p] \in Mapping
      BY <2>2, <2>4, <2>5
    <3> QED BY <3>1 DEF Mapping
  <2>7. /\ pages' \in [User!Frames -> [User!Pages -> Mapping \cup {None}]]
        /\ \A d \in User!Frames, p \in User!Pages :
              /\ pages'[d][p] # None <=> pages[d][p] # None
              /\ pages[d][p] # None => pages'[d][p].frame = pages[d][p].frame
        /\ \A p \in User!ReadOnly(program) : ~pages'[pd][p].writable
    <3> DEFINE Off(p) == [pages[pd][p] EXCEPT !.writable = FALSE]
    <3>1. \A p \in User!ReadOnly(program) : Off(p) \in Mapping /\ Off(p).frame = pages[pd][p].frame /\ ~Off(p).writable
      BY <2>6
    <3>2. pages' = [pages EXCEPT ![pd] = [p \in User!Pages |->
              IF p \in User!ReadOnly(program) THEN Off(p) ELSE pages[pd][p]]]
      BY <2>1
    <3> HIDE DEF Off
    <3>3. /\ pages' \in [User!Frames -> [User!Pages -> Mapping \cup {None}]]
          /\ \A d \in User!Frames, p \in User!Pages :
                pages'[d][p] = IF d = pd /\ p \in User!ReadOnly(program) THEN Off(p) ELSE pages[d][p]
      BY <2>2, <2>5, <3>1, <3>2
    <3> QED BY <1>h, <2>2, <2>4, <3>1, <3>3
  <2>8. UserTypes'
    BY <1>0, <2>1, <2>7 DEF UserTypes, Loading
  <2>9. UserFrames'
    <3>1. User!FramesApart'
      BY <1>0, <2>1, <2>7 DEF UserFrames, User!FramesApart, User!FrameOf
    <3> QED BY <1>0, <2>1, <2>7, <3>1 DEF UserFrames
  <2>10. UserText'
    <3>1. User!ReadOnly(program)' = User!ReadOnly(program)
      BY <2>1 DEF User!ReadOnly, User!Span
    <3>2. Guarded'
      BY <2>1, <2>2, <2>4, <2>7, <3>1 DEF Guarded
    <3> QED BY <1>0, <2>1, <2>2, <3>2 DEF UserText, Loading
  <2>11. User!ContextSound'
    BY <1>0, <2>1 DEF User!ContextSound
  <2> QED BY <2>8, <2>9, <2>10, <2>11 DEF UserInv
<1>9. CASE User!Enter
  <2>1. PICK s \in User!Slots : process' = [process EXCEPT ![s] = [state |-> "running", dir |-> pd, pid |-> pids + 1]]
                              /\ current' = s /\ tss' = s
    BY <1>9 DEF User!Enter
  <2>2. /\ pc = "create" /\ cr3' = pd /\ pids' = pids + 1 /\ pc' = "user"
        /\ UNCHANGED <<program, next, pd, pages, used, content>>
    BY <1>9 DEF User!Enter
  <2>3. pd \in Nat /\ pids \in Nat /\ pids + 1 \in Nat /\ current = 0 /\ 0 \notin User!Slots
    BY <1>0, <2>2 DEF UserText, UserTypes, User!ContextSound, User!Slots
  <2>4. /\ process' \in [User!Slots -> [state : {"unused", "running", "exited", "faulted"}, dir : Nat, pid : Nat]]
        /\ process'[s].state = "running" /\ process'[s].dir = pd
        /\ \A t \in User!Slots : t # s => process'[t] = process[t]
    BY <1>0, <2>1, <2>3 DEF UserTypes
  <2>5. UserTypes'
    BY <1>0, <2>1, <2>2, <2>3, <2>4 DEF UserTypes
  <2>6. UserFrames'
    BY <1>0, <2>2, <2>4, FramesUnchanged
  <2>7. UserText'
    <3>1. Guarded'
      <4>1. Guarded
        BY <1>0, <2>2 DEF UserText, Loading
      <4> QED BY <2>2, <4>1, LoadedUnchanged
    <3> QED BY <1>0, <2>2, <3>1 DEF UserText, Loading
  <2>8. User!ContextSound'
    <3>1. \A t \in User!Slots : process'[t].state = "running" => t = s
      BY <1>0, <2>3, <2>4 DEF User!ContextSound
    <3> QED BY <2>1, <2>2, <2>3, <2>4, <3>1 DEF User!ContextSound
  <2> QED BY <2>5, <2>6, <2>7, <2>8 DEF UserInv
<1>10. CASE User!Exit \/ User!Exception
  BY <1>10, LeaveKept DEF User!Exit, User!Exception
<1>u. pc = "user" => cr3 = pd
  BY <1>0 DEF UserText
<1>11. ASSUME NEW p \in User!Pages, User!Store(p) PROVE UserInv'
  <2>1. CASE pages[cr3][p] # None /\ pages[cr3][p].writable
    <3>1. /\ pc = "user" /\ content' = User!Filled({pages[pd][p].frame}, "data") /\ cr3 = pd
          /\ UNCHANGED <<pc, program, next, cr3, pd, pages, used, process, current, tss, pids>>
      BY <1>11, <1>u, <2>1 DEF User!Store, User!FrameOf
    <3>2. {pages[pd][p].frame} = {pages[pd][q].frame : q \in {p}}
      OBVIOUS
    <3>3. content' = User!Filled({pages[pd][q].frame : q \in {p}}, "data")
      BY <3>1, <3>2
    <3>4. {p} \in SUBSET User!Pages /\ \A q \in {p} : pages[pd][q] # None /\ pages[pd][q].writable
      BY <2>1, <3>1
    <3> QED BY <3>1, <3>3, <3>4, FillKept
  <2>2. CASE ~ (pages[cr3][p] # None /\ pages[cr3][p].writable)
    BY <1>11, <2>2, LeaveKept DEF User!Store
  <2> QED BY <2>1, <2>2
<1>12. ASSUME NEW S \in SUBSET Int, pc = "user", User!KernelStores(S),
              (\E p \in S : ~ (p \in User!Pages /\ pages[pd][p] # None /\ pages[pd][p].writable)) => wrapped'
       PROVE  UserInv'
  <2>1. CASE \A p \in S : p \in User!Pages /\ pages[pd][p] # None /\ pages[pd][p].writable
    <3>1. /\ content' = User!Filled(User!FramesOf(cr3, S), "data")
          /\ UNCHANGED <<pc, program, next, cr3, pd, pages, used, process, current, tss, pids>>
      BY <1>12, <1>u, <2>1 DEF User!KernelStores
    <3>2. User!FramesOf(cr3, S) = {pages[pd][p].frame : p \in S}
      BY <1>12, <1>u DEF User!FramesOf, User!FrameOf
    <3>3. S \in SUBSET User!Pages
      BY <2>1
    <3> QED BY <1>12, <2>1, <3>1, <3>2, <3>3, FillKept
  <2>2. CASE ~ \A p \in S : p \in User!Pages /\ pages[pd][p] # None /\ pages[pd][p].writable
    <3>1. /\ pc' = "panic" /\ wrapped'
          /\ UNCHANGED <<program, next, cr3, pd, pages, used, content, process, current, tss, pids>>
      BY <1>12, <1>u, <2>2 DEF User!KernelStores
    <3>2. UserTypes'
      BY <1>0, <3>1 DEF UserTypes
    <3>3. UserFrames'
      BY <1>0, <3>1, FramesUnchanged
    <3>4. UserText'
      BY <1>0, <3>1 DEF UserText, Loading
    <3>5. User!ContextSound'
      BY <1>0, <1>12, <3>1 DEF User!ContextSound
    <3> QED BY <3>2, <3>3, <3>4, <3>5 DEF UserInv
  <2> QED BY <2>1, <2>2
<1>13. ASSUME NEW first \in User!Pages, NEW last \in User!Pages, User!SystemCall(first, last) PROVE UserInv'
  <2>1. /\ pc = "user" /\ User!KernelStores(first .. last)
        /\ \A p \in first .. last : p \in User!Pages /\ pages[pd][p] # None /\ pages[pd][p].writable
    BY <1>13, <1>u DEF User!SystemCall, User!Accessible
  <2>2. first .. last \in SUBSET Int
    OBVIOUS
  <2> QED BY <1>12, <2>1, <2>2
<1>14. ASSUME NEW first \in User!Pages, NEW entries \in User!Pages, NEW max \in 0 .. Modulus + 1,
              User!ListDirectory(first, max, entries)
       PROVE  UserInv'
  <2> DEFINE stored == IF max < entries THEN max ELSE entries
             S == first .. first + stored - 1
  <2>1. /\ pc = "user" /\ User!KernelStores(S) /\ wrapped' = (max >= Modulus)
        /\ User!Accessible(first, first + (max % Modulus) - 1, TRUE)
    BY <1>14 DEF User!ListDirectory
  <2>2. max \in Nat /\ Modulus \in Nat \ {0} /\ first \in Nat /\ entries \in Nat
    BY UserAssumption DEF User!Pages
  <2> HIDE DEF S
  <2>3. S \in SUBSET Int
    BY DEF S
  <2>4. CASE max >= Modulus
    BY <1>12, <2>1, <2>3, <2>4
  <2>5. CASE max < Modulus
    <3>1. max % Modulus = max /\ stored <= max
      BY <2>2, <2>5
    <3>2. S \subseteq first .. first + (max % Modulus) - 1
      BY <2>2, <3>1 DEF S
    <3>3. \A p \in S : p \in User!Pages /\ pages[pd][p] # None /\ pages[pd][p].writable
      BY <1>u, <2>1, <3>2 DEF User!Accessible
    <3> QED BY <1>12, <2>1, <2>3, <3>3
  <2> QED BY <2>2, <2>4, <2>5
<1> QED
  BY <1>1, <1>3, <1>4, <1>5, <1>6, <1>7, <1>8, <1>9, <1>10, <1>11, <1>13, <1>14 DEF User!Next

\* A step that leaves the variables of this part alone keeps UserInv.
LEMMA UserUnchanged ==
    ASSUME UserInv, UNCHANGED userVars
    PROVE  UserInv'
<1>0. UserTypes /\ UserFrames /\ UserText /\ User!ContextSound
  BY DEF UserInv
<1>1. UNCHANGED <<pc, program, next, cr3, pd, pages, used, content, process, current, tss, pids,
                  wrapped>>
  BY DEF userVars
<1>2. UserTypes'
  BY <1>0, <1>1 DEF UserTypes
<1>3. UserFrames'
  BY <1>0, <1>1, FramesUnchanged
<1>4. UserText'
  <2>1. Loaded(next - 1)' = Loaded(next - 1) /\ Loaded(Len(program))' = Loaded(Len(program))
        /\ Copied(next - 1)' = Copied(next - 1) /\ Guarded' = Guarded
    BY <1>1 DEF Loaded, Copied, Guarded, User!ReadOnly, User!Span
  <2> QED BY <1>0, <1>1, <2>1 DEF UserText
<1>5. User!ContextSound'
  BY <1>0, <1>1 DEF User!ContextSound
<1> QED BY <1>2, <1>3, <1>4, <1>5 DEF UserInv

\* UserInv is enough for what the run checks.
LEMMA UserImplies == ASSUME UserInv PROVE User!ContextSound /\ User!FramesApart /\ User!TextIntact
BY DEF UserInv, UserTypes, UserFrames, UserText, Guarded, Loading, User!TextIntact, User!FrameOf

-----------------------------------------------------------------------------
(* Names: what stands in the slots of the directories, and what was named.    *)

Slot == {Names!Deleted} \cup {Names!Long(n) : n \in LongNames}
        \cup {Names!Entry(n, id) : n \in Names!Names, id \in Ids}

\* An entry stands at i.
Holds(s, i) == i \in 1 .. Len(s) /\ Names!IsEntry(s[i])

NamesTypes ==
    /\ slots \in [Names!Dirs -> Seq(Slot)]
    /\ named \in [Names!Dirs \X Names!Names -> Ids \cup {None}]
    /\ adopted \in BOOLEAN

\* An entry stands for each name that was given to something, and for no other.
EntriesNamed ==
    /\ \A d \in Names!Dirs, i \in Nat : Holds(slots[d], i) =>
          named[<<d, slots[d][i].name>>] = slots[d][i].id
    /\ \A d \in Names!Dirs, n \in Names!Names : named[<<d, n>>] # None =>
          \E i \in Nat : Holds(slots[d], i) /\ slots[d][i] = Names!Entry(n, named[<<d, n>>])

\* Nothing has two entries.
EntriesApart ==
    \A d, e \in Names!Dirs, i, j \in Nat :
        Holds(slots[d], i) /\ Holds(slots[e], j) /\ slots[d][i].id = slots[e][j].id =>
            d = e /\ i = j

SubsInRoot ==
    \A d \in Names!Dirs, i \in Nat : Holds(slots[d], i) /\ slots[d][i].id \in Subs => d = Root

\* An entry that needs a long name has it; until one is adopted, no other has one.
LongIn(s) ==
    \A i \in Nat : Holds(s, i) /\ s[i].name \in LongNames =>
        i > 1 /\ s[i - 1] = Names!Long(s[i].name)
ShortIn(s) ==
    \A i \in Nat : Holds(s, i) /\ s[i].name \in ShortNames => ~ (i > 1 /\ s[i - 1].kind = "long")
LongKept == \A d \in Names!Dirs : LongIn(slots[d])
ShortKept == \A d \in Names!Dirs : ShortIn(slots[d])

NamesInv ==
    /\ NamesTypes /\ EntriesNamed /\ EntriesApart /\ LongKept /\ (~adopted => ShortKept)
    /\ SubsInRoot /\ Names!NothingStranded

\* A slot is deleted, a long name or an entry.
LEMMA SlotIs ==
    /\ \A y \in Slot :
          \/ y = Names!Deleted /\ ~Names!IsEntry(y) /\ y.kind # "long"
          \/ y.kind = "long" /\ ~Names!IsEntry(y) /\ y # Names!Deleted /\ y.name \in LongNames
          \/ /\ Names!IsEntry(y) /\ y # Names!Deleted /\ y.kind # "long"
             /\ y.name \in Names!Names /\ y.id \in Ids /\ y = Names!Entry(y.name, y.id)
    /\ \A n \in LongNames : Names!Long(n) \in Slot /\ Names!Long(n).kind = "long"
                            /\ ~Names!IsEntry(Names!Long(n)) /\ Names!Long(n).name = n
    /\ \A n \in Names!Names, id \in Ids :
          /\ Names!Entry(n, id) \in Slot /\ Names!IsEntry(Names!Entry(n, id))
          /\ Names!Entry(n, id).name = n /\ Names!Entry(n, id).id = id
          /\ Names!Entry(n, id).kind # "long"
    /\ Names!Deleted \in Slot /\ ~Names!IsEntry(Names!Deleted) /\ Names!Deleted.kind # "long"
<1>1. /\ Names!Deleted.kind = "deleted"
      /\ \A n : Names!Long(n).kind = "long" /\ Names!Long(n).name = n
      /\ \A n, id : Names!Entry(n, id).kind = "entry" /\ Names!Entry(n, id).name = n
                    /\ Names!Entry(n, id).id = id
  BY DEF Names!Deleted, Names!Long, Names!Entry
<1>2. \A y : Names!IsEntry(y) <=> y.kind = "entry"
  BY DEF Names!IsEntry
<1>3. \A y \in Slot : \/ y = Names!Deleted \/ (\E n \in LongNames : y = Names!Long(n))
                      \/ (\E n \in Names!Names, id \in Ids : y = Names!Entry(n, id))
  BY DEF Slot
<1>4. /\ Names!Deleted \in Slot /\ \A n \in LongNames : Names!Long(n) \in Slot
      /\ \A n \in Names!Names, id \in Ids : Names!Entry(n, id) \in Slot
  BY DEF Slot
<1>5. "deleted" # "long" /\ "deleted" # "entry" /\ "long" # "entry"
  OBVIOUS
<1> HIDE DEF Slot
<1>6. \A n \in LongNames : ~Names!IsEntry(Names!Long(n)) /\ Names!Long(n) # Names!Deleted
  BY <1>1, <1>2, <1>5
<1>7. \A n, id : /\ Names!IsEntry(Names!Entry(n, id)) /\ Names!Entry(n, id).kind # "long"
                 /\ Names!Entry(n, id) # Names!Deleted
  BY <1>1, <1>2, <1>5
<1>8. ~Names!IsEntry(Names!Deleted) /\ Names!Deleted.kind # "long"
  BY <1>1, <1>2, <1>5
<1>9. ASSUME NEW y \in Slot
      PROVE  \/ y = Names!Deleted /\ ~Names!IsEntry(y) /\ y.kind # "long"
             \/ y.kind = "long" /\ ~Names!IsEntry(y) /\ y # Names!Deleted /\ y.name \in LongNames
             \/ /\ Names!IsEntry(y) /\ y # Names!Deleted /\ y.kind # "long"
                /\ y.name \in Names!Names /\ y.id \in Ids /\ y = Names!Entry(y.name, y.id)
  <2>1. CASE y = Names!Deleted
    BY <2>1, <1>8
  <2>2. ASSUME NEW n \in LongNames, y = Names!Long(n)
        PROVE  y.kind = "long" /\ ~Names!IsEntry(y) /\ y # Names!Deleted /\ y.name \in LongNames
    BY <2>2, <1>1, <1>6
  <2>3. ASSUME NEW n \in Names!Names, NEW id \in Ids, y = Names!Entry(n, id)
        PROVE  /\ Names!IsEntry(y) /\ y # Names!Deleted /\ y.kind # "long"
               /\ y.name \in Names!Names /\ y.id \in Ids /\ y = Names!Entry(y.name, y.id)
    BY <2>3, <1>1, <1>7
  <2> QED BY <1>3, <2>1, <2>2, <2>3
<1> QED BY <1>1, <1>4, <1>6, <1>7, <1>8, <1>9


\* fat32_dir_create_entry finds a place, past the end of the slots if need be.
LEMMA PlaceFits ==
    ASSUME NEW s \in Seq(Slot), NEW n \in Names!Names
    PROVE  /\ Names!Place(s, n) \in 1 .. Len(s) + 1
           /\ Names!Fits(s, Names!Place(s, n), Names!Width(n))
<1> DEFINE w == Names!Width(n)
           S == {i \in 1 .. Len(s) + 1 : Names!Fits(s, i, w)}
<1>1. Len(s) \in Nat /\ w \in Nat
  BY DEF Names!Width
<1>2. Len(s) + 1 \in S
  BY <1>1 DEF Names!Fits
<1>5. S \subseteq Nat /\ S # {}
  BY <1>1, <1>2
<1>3. PICK i \in S : \A j \in S : i <= j
  <2> HIDE DEF S
  <2> QED BY <1>5, LeastIndex
<1>4. i \in 1 .. Len(s) + 1 /\ Names!Fits(s, i, w) /\ \A j \in 1 .. i - 1 : ~Names!Fits(s, j, w)
  <2>1. \A j \in 1 .. i - 1 : j \in 1 .. Len(s) + 1 /\ ~ (i <= j)
    BY <1>1
  <2> QED BY <1>3, <2>1
<1> QED BY <1>4 DEF Names!Place

\* t is s with the name n of id written into it, its entry at p.
WrittenAt(s, t, n, id, p) ==
    /\ t \in Seq(Slot) /\ Len(s) <= Len(t)
    /\ t[p] = Names!Entry(n, id)
    /\ \A j \in 1 .. Len(t) :
          \/ j = p
          \/ n \in LongNames /\ j = p - 1 /\ t[j] = Names!Long(n)
          \/ j <= Len(s) /\ t[j] = s[j]
    /\ \A j \in 1 .. Len(s) : s[j] # Names!Deleted => t[j] = s[j] /\ j # p
    /\ n \in LongNames => p > 1 /\ t[p - 1] = Names!Long(n)
    /\ n \in ShortNames /\ ~Names!Adopts(s, n) => ~ (p > 1 /\ t[p - 1].kind = "long")

\* What it writes: the entry at p and, for a long name, that name before it,
\* where the slots were deleted or past the end; nothing else changes.
LEMMA WrittenIs ==
    ASSUME NEW s \in Seq(Slot), NEW n \in Names!Names, NEW id \in Ids
    PROVE  \E p \in 1 .. Len(Names!Written(s, n, id)) :
              WrittenAt(s, Names!Written(s, n, id), n, id, p)
<1> DEFINE i == Names!Place(s, n)
           w == Names!Width(n)
           new == IF n \in LongNames THEN <<Names!Long(n), Names!Entry(n, id)>> ELSE <<Names!Entry(n, id)>>
           a == SubSeq(s, 1, i - 1)
           b == SubSeq(s, i + w, Len(s))
           t == Names!Written(s, n, id)
<1>1. i \in 1 .. Len(s) + 1 /\ Names!Fits(s, i, w)
  BY PlaceFits
<1>2. t = a \o new \o b
  BY DEF Names!Written
<1>3. /\ new \in Seq(Slot) /\ Len(new) = w /\ w \in {1, 2} /\ new[w] = Names!Entry(n, id)
      /\ n \in LongNames => w = 2 /\ new[1] = Names!Long(n)
      /\ n \in ShortNames => w = 1
  <2>1. Names!Entry(n, id) \in Slot /\ (n \in LongNames => Names!Long(n) \in Slot)
    BY SlotIs
  <2>2. CASE n \in LongNames
    BY <2>1, <2>2, NamesAssumption DEF Names!Width
  <2>3. CASE n \notin LongNames
    BY <2>1, <2>3 DEF Names!Width
  <2> QED BY <2>2, <2>3
<1>4. n \in LongNames \/ n \in ShortNames
  BY DEF Names!Names
<1>5. \A j \in i .. i + w - 1 : j <= Len(s) => s[j] = Names!Deleted
  BY <1>1 DEF Names!Fits
<1>6. Len(s) \in Nat /\ i \in Nat /\ i >= 1 /\ i <= Len(s) + 1
  BY <1>1
<1> HIDE DEF i, w, new, t
<1>7. a \in Seq(Slot) /\ Len(a) = i - 1 /\ \A j \in 1 .. i - 1 : a[j] = s[j]
  BY <1>6
<1>8. /\ b \in Seq(Slot) /\ Len(b) = (IF i + w <= Len(s) THEN Len(s) - i - w + 1 ELSE 0)
      /\ \A j \in 1 .. Len(b) : b[j] = s[i + w - 1 + j]
  BY <1>3, <1>6
<1> HIDE DEF a, b
<1>9. a \o new \in Seq(Slot) /\ Len(a \o new) = i - 1 + w
      /\ \A j \in 1 .. i - 1 + w : (a \o new)[j] = IF j < i THEN s[j] ELSE new[j - (i - 1)]
  BY <1>3, <1>6, <1>7
<1> DEFINE c == a \o new
           e == i - 1 + w
<1>10. t \in Seq(Slot) /\ Len(t) = e + Len(b)
       /\ \A j \in 1 .. Len(t) : t[j] = IF j <= e THEN c[j] ELSE b[j - e]
  <2>1. t = c \o b /\ c \in Seq(Slot) /\ Len(c) = e
    BY <1>2, <1>9
  <2> HIDE DEF c, e
  <2>2. c \o b \in Seq(Slot) /\ Len(c \o b) = Len(c) + Len(b)
    BY <1>8, <2>1
  <2>3. \A j \in 1 .. Len(c) + Len(b) : (c \o b)[j] = IF j <= Len(c) THEN c[j] ELSE b[j - Len(c)]
    BY <1>8, <2>1
  <2> QED BY <2>1, <2>2, <2>3
<1>18. e \in Nat /\ Len(b) \in Nat
  BY <1>3, <1>6, <1>8
<1>12. /\ Len(t) >= Len(s) /\ Len(t) >= i + w - 1 /\ Len(t) \in Nat
       /\ \A j \in 1 .. Len(t) : j < i \/ j >= i + w => j <= Len(s)
  <2>1. i + w <= Len(s) => Len(t) = Len(s)
    BY <1>3, <1>6, <1>8, <1>10
  <2>2. ~ (i + w <= Len(s)) => Len(t) = i + w - 1
    BY <1>3, <1>6, <1>8, <1>10
  <2> QED BY <1>3, <1>6, <2>1, <2>2
<1>11. \A j \in 1 .. Len(t) : t[j] = IF j < i \/ j >= i + w THEN s[j] ELSE new[j - (i - 1)]
  <2> SUFFICES ASSUME NEW j \in 1 .. Len(t)
               PROVE  t[j] = IF j < i \/ j >= i + w THEN s[j] ELSE new[j - (i - 1)]
    OBVIOUS
  <2>1. CASE j <= e
    <3>1. t[j] = c[j] /\ j \in 1 .. i - 1 + w
      <4>1. j \in Nat /\ j >= 1
        BY <1>12
      <4>2. j \in 1 .. i - 1 + w
        BY <1>3, <1>6, <2>1, <4>1
      <4> HIDE DEF c, e
      <4> QED BY <1>10, <2>1, <4>2
    <3>2. c[j] = IF j < i THEN s[j] ELSE new[j - (i - 1)]
      BY <1>9, <3>1
    <3> QED BY <1>3, <1>6, <2>1, <3>1, <3>2
  <2>2. CASE ~ (j <= e)
    <3>1. t[j] = b[j - e] /\ j - e \in 1 .. Len(b)
      <4> HIDE DEF e
      <4> QED BY <1>10, <1>12, <1>18, <2>2
    <3>2. b[j - e] = s[i + w - 1 + (j - e)] /\ i + w - 1 + (j - e) = j /\ j >= i + w
      BY <1>3, <1>6, <1>8, <1>12, <2>2, <3>1
    <3> QED BY <3>1, <3>2
  <2> QED BY <2>1, <2>2
<1> DEFINE p == i + w - 1
<1>13. p \in 1 .. Len(t) /\ t[p] = Names!Entry(n, id)
  <2>1. p \in 1 .. Len(t) /\ ~ (p < i \/ p >= i + w) /\ p - (i - 1) = w
    BY <1>3, <1>6, <1>12
  <2>2. t[p] = new[w]
    <3> HIDE DEF p
    <3> QED BY <1>11, <2>1
  <2> QED BY <1>3, <2>1, <2>2
<1>14. n \in LongNames => p > 1 /\ t[p - 1] = Names!Long(n) /\ i = p - 1
  BY <1>3, <1>6, <1>11, <1>12
<1>15. ASSUME NEW j \in 1 .. Len(t)
       PROVE  \/ j = p
              \/ n \in LongNames /\ j = p - 1 /\ t[j] = Names!Long(n)
              \/ j <= Len(s) /\ t[j] = s[j]
  <2>1. CASE j < i \/ j >= i + w
    BY <1>11, <1>12, <2>1
  <2>2. CASE ~ (j < i \/ j >= i + w)
    BY <1>3, <1>4, <1>6, <1>14, <2>2
  <2> QED BY <2>1, <2>2
<1>16. ASSUME NEW j \in 1 .. Len(s), s[j] # Names!Deleted
       PROVE  t[j] = s[j] /\ j # p
  BY <1>3, <1>5, <1>6, <1>11, <1>12, <1>16
<1>17. ASSUME n \in ShortNames, ~Names!Adopts(s, n)
       PROVE  ~ (p > 1 /\ t[p - 1].kind = "long")
  <2>1. p = i
    BY <1>3, <1>6, <1>17
  <2>2. p > 1 => t[p - 1] = s[p - 1]
    BY <1>6, <1>11, <1>12, <2>1
  <2> QED BY <1>17, <2>1, <2>2 DEF Names!Adopts, i
<1> HIDE DEF p
<1>19. WrittenAt(s, t, n, id, p)
  BY <1>10, <1>12, <1>13, <1>14, <1>15, <1>16, <1>17 DEF WrittenAt
<1> QED BY <1>13, <1>19 DEF t

\* Entries keep their long names when another is written or one is deleted.
LEMMA LongsKept ==
    ASSUME NEW s \in Seq(Slot)
    PROVE  /\ \A n \in Names!Names, id \in Ids : LongIn(s) => LongIn(Names!Written(s, n, id))
           /\ \A n \in Names!Names, id \in Ids :
                 ShortIn(s) /\ ~Names!Adopts(s, n) => ShortIn(Names!Written(s, n, id))
           /\ \A i \in Nat : Holds(s, i) =>
                 /\ LongIn(s) => LongIn(Names!Marked(s, i))
                 /\ ShortIn(s) => ShortIn(Names!Marked(s, i))
<1>0. Len(s) \in Nat /\ \A j \in 1 .. Len(s) : s[j] \in Slot
  OBVIOUS
<1>1. ASSUME NEW n \in Names!Names, NEW id \in Ids
      PROVE  LET t == Names!Written(s, n, id)
             IN  (LongIn(s) => LongIn(t)) /\ (ShortIn(s) /\ ~Names!Adopts(s, n) => ShortIn(t))
  <2> DEFINE t == Names!Written(s, n, id)
  <2>0. PICK p \in 1 .. Len(t) : WrittenAt(s, t, n, id, p)
    BY WrittenIs
  <2> HIDE DEF t
  <2>1. /\ t \in Seq(Slot) /\ Len(s) <= Len(t)
        /\ t[p] = Names!Entry(n, id)
        /\ \A j \in 1 .. Len(t) :
                  \/ j = p
                  \/ n \in LongNames /\ j = p - 1 /\ t[j] = Names!Long(n)
                  \/ j <= Len(s) /\ t[j] = s[j]
        /\ \A j \in 1 .. Len(s) : s[j] # Names!Deleted => t[j] = s[j] /\ j # p
        /\ n \in LongNames => p > 1 /\ t[p - 1] = Names!Long(n)
        /\ n \in ShortNames /\ ~Names!Adopts(s, n) => ~ (p > 1 /\ t[p - 1].kind = "long")
    BY <2>0 DEF WrittenAt
  <2>2. Len(t) \in Nat /\ \A j \in 1 .. Len(t) : t[j] \in Slot
    BY <2>1
  <2>3. \A j \in Nat : Holds(t, j) => j = p \/ (Holds(s, j) /\ t[j] = s[j])
    <3> SUFFICES ASSUME NEW j \in 1 .. Len(t), Names!IsEntry(t[j]), j # p PROVE j \in 1 .. Len(s) /\ t[j] = s[j]
      BY DEF Holds
    <3>1. t[j] # Names!Long(n) \/ n \notin LongNames
      BY SlotIs
    <3> QED BY <1>0, <2>1, <2>2, <3>1
  <2>4. Names!IsEntry(t[p]) /\ t[p].name = n
    BY <2>1, SlotIs
  <2>5. ASSUME LongIn(s) PROVE LongIn(t)
    <3> SUFFICES ASSUME NEW j \in Nat, Holds(t, j), t[j].name \in LongNames
                 PROVE  j > 1 /\ t[j - 1] = Names!Long(t[j].name)
      BY DEF LongIn
    <3>1. CASE j = p
      BY <2>1, <2>4, <3>1
    <3>2. CASE Holds(s, j) /\ t[j] = s[j]
      <4>1. j > 1 /\ s[j - 1] = Names!Long(t[j].name) /\ j \in 1 .. Len(s)
        BY <2>5, <3>2 DEF LongIn, Holds
      <4>2. j - 1 \in 1 .. Len(s) /\ s[j - 1] # Names!Deleted
        BY <1>0, <4>1, SlotIs
      <4> QED BY <2>1, <4>1, <4>2
    <3> QED BY <2>3, <3>1, <3>2
  <2>6. ASSUME ShortIn(s), ~Names!Adopts(s, n) PROVE ShortIn(t)
    <3> SUFFICES ASSUME NEW j \in Nat, Holds(t, j), t[j].name \in ShortNames, j > 1
                 PROVE  t[j - 1].kind # "long"
      BY DEF ShortIn
    <3>1. CASE j = p
      BY <2>1, <2>4, <2>6, <3>1
    <3>2. CASE Holds(s, j) /\ t[j] = s[j] /\ j # p
      <4>1. s[j - 1].kind # "long" /\ j \in 1 .. Len(s) /\ j - 1 \in 1 .. Len(t)
        BY <1>0, <2>1, <2>2, <2>6, <3>2 DEF ShortIn, Holds
      <4>2. CASE j - 1 = p
        BY <2>4, <4>2, <2>2, <4>1, SlotIs
      <4>3. CASE t[j - 1] = s[j - 1]
        BY <4>1, <4>3
      <4> QED BY <1>0, <2>1, <2>2, <3>2, <4>1, <4>2, <4>3
    <3> QED BY <2>3, <3>1, <3>2
  <2> QED BY <2>5, <2>6 DEF t
<1>2. ASSUME NEW i \in Nat, Holds(s, i)
      PROVE  /\ LongIn(s) => LongIn(Names!Marked(s, i))
             /\ ShortIn(s) => ShortIn(Names!Marked(s, i))
  <2> DEFINE t == Names!Marked(s, i)
  <2>1. /\ Len(t) = Len(s) /\ i \in 1 .. Len(s) /\ Names!IsEntry(s[i])
        /\ \A j \in 1 .. Len(s) : t[j] = IF j = i THEN Names!Deleted ELSE s[j]
    BY <1>0, <1>2 DEF Names!Marked, Holds
  <2>2. ~Names!IsEntry(Names!Deleted) /\ Names!Deleted.kind # "long"
    BY SlotIs
  <2> HIDE DEF t
  <2>3. \A j \in Nat : Holds(t, j) => Holds(s, j) /\ t[j] = s[j]
    BY <2>1, <2>2 DEF Holds
  <2>4. ASSUME LongIn(s) PROVE LongIn(t)
    <3> SUFFICES ASSUME NEW j \in Nat, Holds(t, j), t[j].name \in LongNames
                 PROVE  j > 1 /\ t[j - 1] = Names!Long(t[j].name)
      BY DEF LongIn
    <3>1. j > 1 /\ s[j - 1] = Names!Long(t[j].name) /\ j \in 1 .. Len(s)
      BY <2>3, <2>4 DEF LongIn, Holds
    <3>2. j - 1 # i /\ j - 1 \in 1 .. Len(s)
      BY <1>0, <2>1, <3>1, SlotIs
    <3> QED BY <2>1, <3>1, <3>2
  <2>5. ASSUME ShortIn(s) PROVE ShortIn(t)
    <3> SUFFICES ASSUME NEW j \in Nat, Holds(t, j), t[j].name \in ShortNames, j > 1
                 PROVE  t[j - 1].kind # "long"
      BY DEF ShortIn
    <3>1. s[j - 1].kind # "long" /\ j \in 1 .. Len(s)
      BY <2>3, <2>5 DEF ShortIn, Holds
    <3>2. j - 1 \in 1 .. Len(s)
      BY <1>0, <3>1
    <3> QED BY <2>1, <2>2, <3>1, <3>2
  <2> QED BY <2>4, <2>5 DEF t
<1> QED BY <1>1, <1>2

\* The entry of what is gone goes, and at most one comes, at p of d; p is 0 if
\* none does.
Stays(gone) ==
    \A e \in Names!Dirs, j \in Nat : Holds(slots[e], j) /\ slots[e][j].id # gone =>
        Holds(slots'[e], j) /\ slots'[e][j] = slots[e][j]
Comes(gone, d, p) ==
    \A e \in Names!Dirs, j \in Nat : Holds(slots'[e], j) =>
        \/ Holds(slots[e], j) /\ slots'[e][j] = slots[e][j] /\ slots[e][j].id # gone
        \/ p # 0 /\ e = d /\ j = p
New(gone, d, n, id, p) ==
    p # 0 => /\ id \in Ids /\ Holds(slots'[d], p) /\ slots'[d][p] = Names!Entry(n, id)
             /\ Names!InUse(d) /\ named[<<d, n>>] = None
             /\ id = gone \/ \A y \in Names!Dirs \X Names!Names : named[y] # id
             /\ id \in Subs => d = Root
Bare(gone, p) ==
    gone \in Subs \cap Ids => p = 0 /\ (gone \in Names!Dirs => \A j \in Nat : ~Holds(slots[gone], j))
Renamed(gone, d, n, id, p) ==
    named' = [y \in Names!Dirs \X Names!Names |->
                 IF p # 0 /\ y = <<d, n>> THEN id ELSE IF named[y] = gone THEN None ELSE named[y]]

\* A step from which one entry stays away or one comes keeps what is said of entries.
LEMMA EntriesStep ==
    ASSUME NamesTypes, EntriesNamed, EntriesApart, SubsInRoot, Names!NothingStranded,
           slots' \in [Names!Dirs -> Seq(Slot)],
           NEW gone, NEW d \in Names!Dirs, NEW n \in Names!Names, NEW id, NEW p \in Nat,
           Stays(gone), Comes(gone, d, p), New(gone, d, n, id, p), Bare(gone, p),
           Renamed(gone, d, n, id, p)
    PROVE  /\ named' \in [Names!Dirs \X Names!Names -> Ids \cup {None}]
           /\ EntriesNamed' /\ EntriesApart' /\ SubsInRoot' /\ Names!NothingStranded'
<1> USE DEF Stays, Comes, New, Bare, Renamed
<1>0. None \notin Ids
  BY NamesAssumption
<1>1. \A e \in Names!Dirs, j \in Nat : Holds(slots[e], j) =>
         /\ slots[e][j] \in Slot /\ slots[e][j].name \in Names!Names /\ slots[e][j].id \in Ids
         /\ slots[e][j] = Names!Entry(slots[e][j].name, slots[e][j].id)
         /\ named[<<e, slots[e][j].name>>] = slots[e][j].id
  <2> SUFFICES ASSUME NEW e \in Names!Dirs, NEW j \in Nat, Holds(slots[e], j)
               PROVE  /\ slots[e][j] \in Slot /\ slots[e][j].name \in Names!Names /\ slots[e][j].id \in Ids
                      /\ slots[e][j] = Names!Entry(slots[e][j].name, slots[e][j].id)
                      /\ named[<<e, slots[e][j].name>>] = slots[e][j].id
    OBVIOUS
  <2>1. slots[e] \in Seq(Slot)
    BY DEF NamesTypes
  <2>2. slots[e][j] \in Slot /\ Names!IsEntry(slots[e][j])
    BY <2>1 DEF Holds
  <2> QED BY <2>2, SlotIs DEF EntriesNamed
<1>2. p # 0 => slots'[d][p].name = n /\ slots'[d][p].id = id
  BY SlotIs
<1>3. \A e \in Names!Dirs, m \in Names!Names :
         named'[<<e, m>>] = IF p # 0 /\ e = d /\ m = n THEN id
                            ELSE IF named[<<e, m>>] = gone THEN None ELSE named[<<e, m>>]
  OBVIOUS
<1>4. named' \in [Names!Dirs \X Names!Names -> Ids \cup {None}]
  BY DEF NamesTypes
<1>5. EntriesNamed'
  <2>1. ASSUME NEW e \in Names!Dirs, NEW j \in Nat, Holds(slots'[e], j)
        PROVE  named'[<<e, slots'[e][j].name>>] = slots'[e][j].id
    <3>1. CASE p # 0 /\ e = d /\ j = p
      BY <1>2, <1>3, <3>1
    <3>2. CASE Holds(slots[e], j) /\ slots'[e][j] = slots[e][j] /\ slots[e][j].id # gone
      <4>1. /\ slots[e][j].name \in Names!Names /\ slots[e][j].id \in Ids
            /\ named[<<e, slots[e][j].name>>] = slots[e][j].id
        BY <1>1, <3>2
      <4>2. ~ (p # 0 /\ e = d /\ slots[e][j].name = n)
        <5> SUFFICES ASSUME p # 0, e = d, slots[e][j].name = n PROVE FALSE
          OBVIOUS
        <5>1. named[<<d, n>>] = None
          BY DEF New
        <5> QED BY <1>0, <4>1, <5>1
      <4> QED BY <1>3, <3>2, <4>1, <4>2
    <3> QED BY <2>1, <3>1, <3>2
  <2>2. ASSUME NEW e \in Names!Dirs, NEW m \in Names!Names, named'[<<e, m>>] # None
        PROVE  \E i \in Nat : Holds(slots'[e], i) /\ slots'[e][i] = Names!Entry(m, named'[<<e, m>>])
    <3>1. CASE p # 0 /\ e = d /\ m = n
      BY <1>3, <3>1
    <3>2. CASE ~ (p # 0 /\ e = d /\ m = n)
      <4>1. named'[<<e, m>>] = named[<<e, m>>] /\ named[<<e, m>>] # gone /\ named[<<e, m>>] # None
        BY <1>3, <2>2, <3>2
      <4>2. PICK i \in Nat : Holds(slots[e], i) /\ slots[e][i] = Names!Entry(m, named[<<e, m>>])
        BY <4>1 DEF EntriesNamed
      <4>3. slots[e][i].id = named[<<e, m>>]
        BY <4>2 DEF Names!Entry
      <4> QED BY <4>1, <4>2, <4>3
    <3> QED BY <3>1, <3>2
  <2> QED BY <2>1, <2>2 DEF EntriesNamed
<1>6. EntriesApart'
  <2> SUFFICES ASSUME NEW e \in Names!Dirs, NEW f \in Names!Dirs, NEW i \in Nat, NEW j \in Nat,
                      Holds(slots'[e], i), Holds(slots'[f], j), slots'[e][i].id = slots'[f][j].id
               PROVE  e = f /\ i = j
    BY DEF EntriesApart
  <2>1. ASSUME NEW g \in Names!Dirs, NEW k \in Nat, Holds(slots[g], k), slots[g][k].id # gone, p # 0
        PROVE  slots[g][k].id # id
    <3>1. slots[g][k].name \in Names!Names /\ named[<<g, slots[g][k].name>>] = slots[g][k].id
      BY <1>1, <2>1
    <3>2. <<g, slots[g][k].name>> \in Names!Dirs \X Names!Names
      BY <3>1
    <3> QED BY <2>1, <3>1, <3>2
  <2>5. ASSUME NEW g \in Names!Dirs, NEW k \in Nat, Holds(slots'[g], k), p # 0, slots'[g][k].id = id
        PROVE  g = d /\ k = p
    <3>1. CASE Holds(slots[g], k) /\ slots'[g][k] = slots[g][k] /\ slots[g][k].id # gone
      BY <2>1, <2>5, <3>1
    <3> QED BY <2>5, <3>1
  <2>2. CASE p # 0 /\ e = d /\ i = p
    BY <1>2, <2>2, <2>5
  <2>3. CASE p # 0 /\ f = d /\ j = p
    BY <1>2, <2>3, <2>5
  <2>4. CASE ~ (p # 0 /\ e = d /\ i = p) /\ ~ (p # 0 /\ f = d /\ j = p)
    <3>1. /\ Holds(slots[e], i) /\ slots'[e][i] = slots[e][i]
          /\ Holds(slots[f], j) /\ slots'[f][j] = slots[f][j]
      BY <2>4
    <3> QED BY <3>1 DEF EntriesApart
  <2> QED BY <2>2, <2>3, <2>4
<1>7. SubsInRoot'
  BY <1>2 DEF SubsInRoot
<1>8. Names!NothingStranded'
  <2>0. Root \in Names!Dirs
    BY DEF Names!Dirs
  <2>1. ASSUME NEW e \in Names!Dirs, e # Root, Names!InUse(e), e # gone
        PROVE  Names!InUse(e)'
    <3>1. PICK i \in DOMAIN slots[Root] : Names!IsEntry(slots[Root][i]) /\ slots[Root][i].id = e
      BY <2>1 DEF Names!InUse
    <3>2. slots[Root] \in Seq(Slot) /\ slots'[Root] \in Seq(Slot)
      BY <2>0 DEF NamesTypes
    <3>3. i \in Nat /\ Holds(slots[Root], i)
      BY <3>1, <3>2 DEF Holds
    <3>4. Holds(slots'[Root], i) /\ slots'[Root][i] = slots[Root][i]
      BY <2>0, <2>1, <3>1, <3>3
    <3>5. i \in DOMAIN slots'[Root]
      BY <3>2, <3>4 DEF Holds
    <3> QED BY <3>1, <3>4, <3>5 DEF Names!InUse, Holds
  <2>2. ASSUME NEW e \in Names!Dirs, NEW m \in Names!Names, named'[<<e, m>>] # None
        PROVE  Names!InUse(e)'
    <3>1. Names!InUse(e) /\ (p # 0 => gone \notin Subs \cap Ids)
      <4>1. CASE p # 0 /\ e = d
        BY <4>1
      <4>2. CASE ~ (p # 0 /\ e = d)
        BY <1>3, <2>2, <4>2 DEF Names!NothingStranded
      <4> QED BY <4>1, <4>2
    <3>2. CASE e = Root
      BY <3>2 DEF Names!InUse
    <3>3. CASE e # Root
      <4>1. PICK i \in DOMAIN slots[Root] : Names!IsEntry(slots[Root][i]) /\ slots[Root][i].id = e
        BY <3>1, <3>3 DEF Names!InUse
      <4>2. e \in Subs /\ e \in Ids
        <5>1. slots[Root] \in Seq(Slot)
          BY <2>0 DEF NamesTypes
        <5>2. i \in Nat /\ Holds(slots[Root], i)
          BY <4>1, <5>1 DEF Holds
        <5> QED BY <1>1, <2>0, <3>3, <4>1, <5>2 DEF Names!Dirs
      <4>3. e # gone
        <5> SUFFICES ASSUME e = gone PROVE FALSE
          OBVIOUS
        <5>1. p = 0 /\ \A j \in Nat : ~Holds(slots[e], j)
          BY <4>2
        <5>2. named[<<e, m>>] # None
          BY <1>3, <2>2, <5>1
        <5> QED BY <5>1, <5>2 DEF EntriesNamed
      <4> QED BY <2>1, <3>1, <3>3, <4>3
    <3> QED BY <3>2, <3>3
  <2> QED BY <2>2 DEF Names!NothingStranded
<1> QED BY <1>4, <1>5, <1>6, <1>7, <1>8

\* fat32_dir_find finds an entry; it finds none only where nothing is named so or
\* has that 8.3 form, and as long as no long name was adopted one that is or has.
LEMMA FoundIs ==
    ASSUME NamesInv, NEW d \in Names!Dirs, NEW n \in Names!Names
    PROVE  /\ Names!Found(d, n) = 0 => \A x \in Names!Called(n) : named[<<d, x>>] = None
           /\ n \in Names!Called(n)
           /\ Names!Found(d, n) # 0 =>
                 Names!Found(d, n) \in Nat /\ Holds(slots[d], Names!Found(d, n))
           /\ Names!Found(d, n) # 0 /\ ~adopted => slots[d][Names!Found(d, n)].name \in Names!Called(n)
<1> DEFINE s == slots[d]
           m == Names!Matches(s, n)
<1>1. s \in Seq(Slot) /\ LongIn(s) /\ (~adopted => ShortIn(s)) /\ EntriesNamed
  BY DEF NamesInv, NamesTypes, LongKept, ShortKept
<1>2. Len(s) \in Nat /\ DOMAIN s = 1 .. Len(s)
  BY <1>1
<1> HIDE DEF s
<1>3. m \subseteq 1 .. Len(s) /\ \A i \in m : Holds(s, i) /\ (Names!NameAt(s, i) = n \/ Names!Form(s[i].name) = n)
  BY <1>2 DEF Names!Matches, Holds
<1>4. Names!Found(d, n) = IF m = {} THEN 0 ELSE CHOOSE i \in m : \A j \in m : i <= j
  BY DEF Names!Found, s
<1> HIDE DEF m
<1>5. Names!Found(d, n) = 0 => m = {}
  <2>1. ASSUME m # {} PROVE Names!Found(d, n) \in m
    <3>1. m \subseteq Nat
      BY <1>2, <1>3
    <3>2. \E i \in m : \A j \in m : i <= j
      BY <2>1, <3>1, LeastIndex
    <3> QED BY <1>4, <2>1, <3>2
  <2> QED BY <1>2, <1>3, <2>1
<1>6. Names!Found(d, n) # 0 => Names!Found(d, n) \in m
  <2>1. ASSUME m # {} PROVE Names!Found(d, n) \in m
    <3>1. m \subseteq Nat
      BY <1>2, <1>3
    <3>2. \E i \in m : \A j \in m : i <= j
      BY <2>1, <3>1, LeastIndex
    <3> QED BY <1>4, <2>1, <3>2
  <2> QED BY <1>4, <2>1
<1>7. ASSUME NEW c \in Names!Called(n), named[<<d, c>>] # None
      PROVE  m # {}
  <2>0. c \in Names!Names /\ (n = c \/ n = Names!Form(c))
    BY DEF Names!Called
  <2>1. PICK i \in Nat : Holds(s, i) /\ s[i] = Names!Entry(c, named[<<d, c>>])
    BY <1>1, <1>7, <2>0 DEF EntriesNamed, s
  <2>2. s[i].name = c /\ i \in 1 .. Len(s) /\ Names!IsEntry(s[i])
    BY <2>1 DEF Names!Entry, Holds
  <2>3. CASE n = Names!Form(c)
    BY <1>2, <2>2, <2>3 DEF Names!Matches, m
  <2>4. CASE n = c /\ n \in LongNames
    <3>1. i > 1 /\ s[i - 1] = Names!Long(n)
      BY <1>1, <2>1, <2>2, <2>4 DEF LongIn
    <3>2. Names!NameAt(s, i) = n
      BY <2>4, <3>1, SlotIs DEF Names!NameAt
    <3> QED BY <1>2, <2>2, <3>2 DEF Names!Matches, m
  <2>5. CASE n = c /\ n \notin LongNames
    BY <2>3, <2>5 DEF Names!Form
  <2> QED BY <2>0, <2>3, <2>4, <2>5
<1>8. ASSUME ~adopted, NEW i \in m PROVE s[i].name \in Names!Called(n)
  <2>1. Holds(s, i) /\ i \in 1 .. Len(s) /\ i \in Nat
    BY <1>2, <1>3
  <2>2. s[i] \in Slot /\ Names!IsEntry(s[i])
    BY <1>1, <2>1 DEF Holds
  <2>3. s[i].name \in Names!Names
    BY <2>2, SlotIs
  <2> SUFFICES ASSUME Names!NameAt(s, i) = n, Names!Form(s[i].name) # n PROVE s[i].name = n
    BY <1>3, <2>3 DEF Names!Called
  <2>4. i > 1 /\ s[i - 1].kind = "long"
    BY DEF Names!NameAt
  <2>5. s[i].name \notin ShortNames
    BY <1>1, <1>8, <2>1, <2>4 DEF ShortIn
  <2>6. s[i].name \in LongNames
    BY <2>3, <2>5 DEF Names!Names
  <2>7. s[i - 1] = Names!Long(s[i].name)
    BY <1>1, <2>1, <2>6 DEF LongIn
  <2> QED BY <2>4, <2>6, <2>7, SlotIs DEF Names!NameAt
<1>10. n \in Names!Called(n)
  BY DEF Names!Called
<1>9. Names!Found(d, n) # 0 => Names!Found(d, n) \in Nat /\ Holds(s, Names!Found(d, n))
  <2> SUFFICES ASSUME Names!Found(d, n) # 0
               PROVE  Names!Found(d, n) \in Nat /\ Holds(s, Names!Found(d, n))
    OBVIOUS
  <2>1. PICK i \in m : i = Names!Found(d, n)
    BY <1>6
  <2>2. i \in 1 .. Len(s) /\ Holds(s, i)
    BY <1>3
  <2> QED BY <1>2, <2>1, <2>2
<1> QED BY <1>5, <1>6, <1>7, <1>8, <1>9, <1>10 DEF s

\* Directory's cardinality is the library's.
LEMMA NamesCardinality == \A S : Names!Cardinality(S) = Cardinality(S)
BY DEF Names!Cardinality, Cardinality

\* A listing shows the first entry, so a directory without one to show has none.
LEMMA EmptyIs ==
    ASSUME NEW d \in Names!Dirs, slots[d] \in Seq(Slot), Names!Empty(d)
    PROVE  \A j \in Nat : ~Holds(slots[d], j)
<1> DEFINE s == slots[d]
           S == {i \in 1 .. Len(s) : Names!IsEntry(s[i])}
<1>1. Len(s) \in Nat /\ DOMAIN s = 1 .. Len(s)
  OBVIOUS
<1>2. ASSUME S # {} PROVE FALSE
  <2>1. S \subseteq Nat
    BY <1>1
  <2>2. PICK i \in S : \A j \in S : i <= j
    <3> HIDE DEF S
    <3> QED BY <1>2, <2>1, LeastIndex
  <2>3. {j \in 1 .. i - 1 : Names!IsEntry(s[j])} = {}
    <3> SUFFICES ASSUME NEW j \in 1 .. i - 1, Names!IsEntry(s[j]) PROVE FALSE
      OBVIOUS
    <3>1. j \in S /\ ~ (i <= j)
      BY <1>1
    <3> QED BY <2>2, <3>1
  <2>4. Cardinality({j \in 1 .. i - 1 : Names!IsEntry(s[j])}) = 0
    BY <2>3, FS_EmptySet
  <2>5. 0 < MaxList
    BY NamesAssumption
  <2>6. i \in Names!Listed(d, MaxList)
    BY <1>1, <2>4, <2>5, NamesCardinality DEF Names!Listed
  <2> QED BY <2>6 DEF Names!Empty
<1> QED BY <1>2 DEF Holds

\* Nothing is named before anything was made.
LEMMA NamesStart == ASSUME Names!Init PROVE NamesInv
<1>1. /\ slots = [d \in Names!Dirs |-> <<>>] /\ adopted = FALSE
      /\ named = [y \in Names!Dirs \X Names!Names |-> None]
  BY DEF Names!Init
<1>2. \A d \in Names!Dirs : Len(slots[d]) = 0 /\ slots[d] \in Seq(Slot)
  BY <1>1
<1>3. \A d \in Names!Dirs, i \in Nat : ~Holds(slots[d], i)
  BY <1>2 DEF Holds
<1>4. \A d \in Names!Dirs, n \in Names!Names : named[<<d, n>>] = None
  BY <1>1
<1>5. NamesTypes
  BY <1>1, <1>2 DEF NamesTypes
<1>6. EntriesNamed
  BY <1>3, <1>4 DEF EntriesNamed
<1>7. EntriesApart
  BY <1>3 DEF EntriesApart
<1>8. LongKept /\ ShortKept
  BY <1>3 DEF LongKept, ShortKept, LongIn, ShortIn
<1>9. SubsInRoot
  BY <1>3 DEF SubsInRoot
<1>10. Names!NothingStranded
  BY <1>4 DEF Names!NothingStranded
<1> QED BY <1>5, <1>6, <1>7, <1>8, <1>9, <1>10 DEF NamesInv

\* Every step of the path operations keeps NamesInv.
LEMMA NamesStep ==
    ASSUME NamesInv, Names!Next
    PROVE  NamesInv'
<1>0. /\ NamesTypes /\ EntriesNamed /\ EntriesApart /\ LongKept /\ (~adopted => ShortKept)
      /\ SubsInRoot /\ Names!NothingStranded
  BY DEF NamesInv
<1>n. None \notin Ids /\ Root \notin Ids /\ Root \notin Subs
  BY NamesAssumption
<1>s. \A e \in Names!Dirs : slots[e] \in Seq(Slot) /\ LongIn(slots[e]) /\ (~adopted => ShortIn(slots[e]))
  BY <1>0 DEF NamesTypes, LongKept, ShortKept
<1>e. \A e \in Names!Dirs, j \in Nat : Holds(slots[e], j) =>
         /\ slots[e][j].name \in Names!Names /\ slots[e][j].id \in Ids
         /\ named[<<e, slots[e][j].name>>] = slots[e][j].id
  <2> SUFFICES ASSUME NEW e \in Names!Dirs, NEW j \in Nat, Holds(slots[e], j)
               PROVE  /\ slots[e][j].name \in Names!Names /\ slots[e][j].id \in Ids
                      /\ named[<<e, slots[e][j].name>>] = slots[e][j].id
    OBVIOUS
  <2>1. slots[e][j] \in Slot /\ Names!IsEntry(slots[e][j])
    BY <1>s DEF Holds
  <2> QED BY <1>0, <2>1, SlotIs DEF EntriesNamed
<1>1. ASSUME NEW d \in Names!Dirs, NEW n \in Names!Names, NEW id \in Ids, Names!Create(d, n, id)
      PROVE  NamesInv'
  <2> DEFINE t == Names!Written(slots[d], n, id)
  <2>1. /\ Names!InUse(d) /\ Names!Found(d, n) = 0 /\ id \notin Names!UsedIds
        /\ id \in Subs => d = Root
        /\ slots' = [e \in Names!Dirs |-> IF e = d THEN t ELSE IF e = id THEN <<>> ELSE slots[e]]
        /\ named' = [named EXCEPT ![<<d, n>>] = id]
        /\ adopted' = (adopted \/ Names!Adopts(slots[d], n))
    BY <1>1 DEF Names!Create
  <2>2. named[<<d, n>>] = None /\ \A y \in Names!Dirs \X Names!Names : named[y] # id
    BY <2>1, FoundIs DEF Names!UsedIds
  <2>h. PICK p \in 1 .. Len(t) : WrittenAt(slots[d], t, n, id, p)
    BY <1>s, WrittenIs
  <2>3. /\ t \in Seq(Slot) /\ Len(slots[d]) <= Len(t)
        /\ t[p] = Names!Entry(n, id)
        /\ \A j \in 1 .. Len(t) :
                  \/ j = p
                  \/ n \in LongNames /\ j = p - 1 /\ t[j] = Names!Long(n)
                  \/ j <= Len(slots[d]) /\ t[j] = slots[d][j]
        /\ \A j \in 1 .. Len(slots[d]) : slots[d][j] # Names!Deleted => t[j] = slots[d][j] /\ j # p
    <3> HIDE DEF t
    <3> QED BY <2>h DEF WrittenAt
  <2>4. (LongIn(slots[d]) => LongIn(t)) /\ (ShortIn(slots[d]) /\ ~Names!Adopts(slots[d], n) => ShortIn(t))
    BY <1>s, LongsKept
  <2> HIDE DEF t
  <2>5. p \in Nat /\ Holds(t, p) /\ Len(t) \in Nat /\ Len(slots[d]) \in Nat
    <3>1. Len(t) \in Nat /\ Len(slots[d]) \in Nat
      BY <1>s, <2>3
    <3> QED BY <2>3, <3>1, SlotIs DEF Holds
  <2>6. \A j \in Nat : Holds(t, j) => j = p \/ (Holds(slots[d], j) /\ t[j] = slots[d][j])
    <3> SUFFICES ASSUME NEW j \in Nat, Holds(t, j), j # p PROVE Holds(slots[d], j) /\ t[j] = slots[d][j]
      OBVIOUS
    <3>1. j \in 1 .. Len(t) /\ Names!IsEntry(t[j])
      BY DEF Holds
    <3>2. t[j] # Names!Long(n) \/ n \notin LongNames
      BY <3>1, SlotIs
    <3>3. j <= Len(slots[d]) /\ t[j] = slots[d][j]
      BY <2>3, <3>1, <3>2
    <3> QED BY <2>5, <3>1, <3>3 DEF Holds
  <2>7. \A j \in Nat : Holds(slots[d], j) => Holds(t, j) /\ t[j] = slots[d][j]
    <3> SUFFICES ASSUME NEW j \in Nat, Holds(slots[d], j) PROVE Holds(t, j) /\ t[j] = slots[d][j]
      OBVIOUS
    <3>1. slots[d][j] # Names!Deleted /\ j \in 1 .. Len(slots[d]) /\ Names!IsEntry(slots[d][j])
      BY SlotIs DEF Holds
    <3> QED BY <2>3, <2>5, <3>1 DEF Holds
  <2>8. \A e \in Names!Dirs : slots'[e] = IF e = d THEN t ELSE IF e = id THEN <<>> ELSE slots[e]
    BY <2>1
  <2>9. id \in Names!Dirs => id # d /\ \A j \in Nat : ~Holds(slots[id], j)
    <3> SUFFICES ASSUME id \in Names!Dirs PROVE id # d /\ \A j \in Nat : ~Holds(slots[id], j)
      OBVIOUS
    <3>1. id \in Subs /\ id # Root /\ d = Root
      BY <1>n, <2>1 DEF Names!Dirs
    <3>2. ASSUME NEW j \in Nat, Holds(slots[id], j) PROVE FALSE
      <4>1. named[<<id, slots[id][j].name>>] # None /\ slots[id][j].name \in Names!Names
        BY <1>e, <1>n, <3>2
      <4>2. Names!InUse(id)
        BY <1>0, <4>1 DEF Names!NothingStranded
      <4>3. PICK i \in DOMAIN slots[Root] : Names!IsEntry(slots[Root][i]) /\ slots[Root][i].id = id
        BY <3>1, <4>2 DEF Names!InUse
      <4>4. i \in Nat /\ Holds(slots[d], i)
        BY <1>s, <3>1, <4>3 DEF Holds
      <4>5. named[<<d, slots[d][i].name>>] = id /\ slots[d][i].name \in Names!Names
        BY <1>e, <3>1, <4>3, <4>4
      <4>6. <<d, slots[d][i].name>> \in Names!Dirs \X Names!Names
        BY <4>5
      <4> QED BY <2>2, <4>5, <4>6
    <3> QED BY <3>1, <3>2
  <2>10. slots' \in [Names!Dirs -> Seq(Slot)]
    <3>1. \A e \in Names!Dirs : slots'[e] \in Seq(Slot)
      <4> SUFFICES ASSUME NEW e \in Names!Dirs PROVE slots'[e] \in Seq(Slot)
        OBVIOUS
      <4>1. <<>> \in Seq(Slot)
        OBVIOUS
      <4> QED BY <1>s, <2>3, <2>8, <4>1
    <3> QED BY <2>1, <3>1
  <2>11. \A j \in Nat : ~Holds(<<>>, j)
    BY DEF Holds
  <2>12. Stays(None)
    BY <2>7, <2>8, <2>9 DEF Stays
  <2>18. p # 0
    BY <2>3
  <2>13. Comes(None, d, p)
    BY <1>e, <1>n, <2>6, <2>8, <2>11, <2>18 DEF Comes
  <2>14. New(None, d, n, id, p)
    <3>1. Holds(slots'[d], p) /\ slots'[d][p] = Names!Entry(n, id)
      BY <2>3, <2>5, <2>8
    <3> QED BY <2>1, <2>2, <3>1 DEF New
  <2>15. Renamed(None, d, n, id, p)
    BY <1>0, <2>1, <2>18 DEF NamesTypes, Renamed
  <2>19. Bare(None, p)
    BY <1>n DEF Bare
  <2>16. /\ named' \in [Names!Dirs \X Names!Names -> Ids \cup {None}]
         /\ EntriesNamed' /\ EntriesApart' /\ SubsInRoot' /\ Names!NothingStranded'
    BY <1>0, <2>5, <2>10, <2>12, <2>13, <2>14, <2>15, <2>19, EntriesStep
  <2>17. LongKept' /\ (~adopted' => ShortKept')
    <3>1. LongIn(<<>>) /\ ShortIn(<<>>)
      BY <2>11 DEF LongIn, ShortIn
    <3>2. ASSUME NEW e \in Names!Dirs PROVE LongIn(slots'[e]) /\ (~adopted' => ShortIn(slots'[e]))
      BY <1>s, <2>1, <2>4, <2>8, <3>1
    <3> QED BY <3>2 DEF LongKept, ShortKept
  <2>20. NamesTypes'
    BY <1>0, <2>1, <2>10, <2>16 DEF NamesTypes
  <2> QED BY <2>16, <2>17, <2>20 DEF NamesInv
<1>2. ASSUME NEW d \in Names!Dirs, NEW n \in Names!Names, Names!Delete(d, n)
      PROVE  NamesInv'
  <2> DEFINE i == Names!Found(d, n)
             gone == slots[d][i].id
             t == Names!Marked(slots[d], i)
  <2>1. /\ Names!InUse(d) /\ i # 0 /\ (gone \in Subs => Names!Empty(gone))
        /\ slots' = [slots EXCEPT ![d] = t] /\ named' = Names!Gone(gone) /\ adopted' = adopted
    BY <1>2 DEF Names!Delete
  <2>2. i \in Nat /\ Holds(slots[d], i)
    BY <2>1, FoundIs
  <2>3. (LongIn(slots[d]) => LongIn(t)) /\ (ShortIn(slots[d]) => ShortIn(t))
    BY <1>s, <2>2, LongsKept
  <2>4. slots[d] \in Seq(Slot) /\ Names!Deleted \in Slot /\ ~Names!IsEntry(Names!Deleted)
    BY <1>s, SlotIs
  <2>5. /\ t \in Seq(Slot) /\ Len(t) = Len(slots[d])
        /\ \A j \in 1 .. Len(slots[d]) : t[j] = IF j = i THEN Names!Deleted ELSE slots[d][j]
    BY <2>2, <2>4 DEF Names!Marked, Holds
  <2> HIDE DEF i, t
  <2>6. \A j \in Nat : Holds(t, j) <=> Holds(slots[d], j) /\ j # i
    BY <2>4, <2>5 DEF Holds
  <2>7. \A j \in Nat : Holds(t, j) => t[j] = slots[d][j]
    BY <2>5, <2>6 DEF Holds
  <2>8. slots' \in [Names!Dirs -> Seq(Slot)] /\ \A e \in Names!Dirs : slots'[e] = IF e = d THEN t ELSE slots[e]
    BY <1>0, <2>1, <2>5 DEF NamesTypes
  <2>9. \A e \in Names!Dirs, j \in Nat : Holds(slots[e], j) => (slots[e][j].id = gone <=> e = d /\ j = i)
    BY <1>0, <2>2 DEF EntriesApart
  <2>10. gone \in Ids
    BY <1>e, <2>2
  <2> HIDE DEF gone
  <2>11. Stays(gone)
    BY <2>6, <2>7, <2>8, <2>9 DEF Stays
  <2>12. Comes(gone, d, 0)
    BY <2>6, <2>7, <2>8, <2>9 DEF Comes
  <2>13. Bare(gone, 0)
    BY <1>s, <2>1, EmptyIs DEF Bare
  <2>14. New(gone, d, n, gone, 0)
    BY DEF New
  <2>18. Renamed(gone, d, n, gone, 0)
    BY <2>1 DEF Names!Gone, Renamed
  <2>15. /\ named' \in [Names!Dirs \X Names!Names -> Ids \cup {None}]
         /\ EntriesNamed' /\ EntriesApart' /\ SubsInRoot' /\ Names!NothingStranded'
    <3>1. 0 \in Nat
      OBVIOUS
    <3> QED BY <1>0, <2>8, <2>11, <2>12, <2>13, <2>14, <2>18, <3>1, EntriesStep
  <2>16. LongKept' /\ (~adopted' => ShortKept')
    BY <1>s, <2>1, <2>3, <2>8 DEF LongKept, ShortKept
  <2>17. NamesTypes'
    BY <1>0, <2>1, <2>8, <2>15 DEF NamesTypes
  <2> QED BY <2>15, <2>16, <2>17 DEF NamesInv
<1>3. ASSUME NEW d \in Names!Dirs, NEW e \in Names!Dirs, NEW n \in Names!Names, NEW m \in Names!Names,
             Names!Rename(d, n, e, m)
      PROVE  NamesInv'
  <2>a. PICK i \in Nat : i = Names!Found(d, n) /\ Holds(slots[d], i)
    BY <1>3, FoundIs DEF Names!Rename
  <2>b. PICK id \in Ids : id = slots[d][i].id
    BY <1>e, <2>a
  <2> DEFINE t == Names!Written(slots[e], m, id)
             with == [slots EXCEPT ![e] = t]
             u == Names!Marked(with[d], i)
  <2>1. /\ i # 0 /\ id \notin Subs /\ Names!InUse(e) /\ Names!Found(e, m) = 0
        /\ slots' = [with EXCEPT ![d] = u]
        /\ named' = [Names!Gone(id) EXCEPT ![<<e, m>>] = id]
        /\ adopted' = (adopted \/ Names!Adopts(slots[e], m))
    BY <1>3, <2>a, <2>b DEF Names!Rename
  <2>2. i \in Nat /\ Holds(slots[d], i) /\ named[<<e, m>>] = None /\ id \in Ids
    BY <2>1, <2>a, FoundIs
  <2>h. PICK p \in 1 .. Len(t) : WrittenAt(slots[e], t, m, id, p)
    BY <1>s, WrittenIs
  <2>3. /\ t \in Seq(Slot) /\ Len(slots[e]) <= Len(t)
        /\ t[p] = Names!Entry(m, id)
        /\ \A j \in 1 .. Len(t) :
                  \/ j = p
                  \/ m \in LongNames /\ j = p - 1 /\ t[j] = Names!Long(m)
                  \/ j <= Len(slots[e]) /\ t[j] = slots[e][j]
        /\ \A j \in 1 .. Len(slots[e]) : slots[e][j] # Names!Deleted => t[j] = slots[e][j] /\ j # p
    <3> HIDE DEF t
    <3> QED BY <2>h DEF WrittenAt
  <2>4. (LongIn(slots[e]) => LongIn(t)) /\ (ShortIn(slots[e]) /\ ~Names!Adopts(slots[e], m) => ShortIn(t))
    BY <1>s, <2>2, LongsKept
  <2> HIDE DEF t
  <2>5. p \in Nat /\ Holds(t, p) /\ Len(t) \in Nat /\ Len(slots[e]) \in Nat
    <3>1. Len(t) \in Nat /\ Len(slots[e]) \in Nat
      BY <1>s, <2>3
    <3> QED BY <2>2, <2>3, <3>1, SlotIs DEF Holds
  <2>6. \A j \in Nat : Holds(t, j) => j = p \/ (Holds(slots[e], j) /\ t[j] = slots[e][j])
    <3> SUFFICES ASSUME NEW j \in Nat, Holds(t, j), j # p PROVE Holds(slots[e], j) /\ t[j] = slots[e][j]
      OBVIOUS
    <3>1. j \in 1 .. Len(t) /\ Names!IsEntry(t[j])
      BY DEF Holds
    <3>2. t[j] # Names!Long(m) \/ m \notin LongNames
      BY <3>1, SlotIs
    <3>3. j <= Len(slots[e]) /\ t[j] = slots[e][j]
      BY <2>3, <3>1, <3>2
    <3> QED BY <2>5, <3>1, <3>3 DEF Holds
  <2>7. \A j \in Nat : Holds(slots[e], j) => Holds(t, j) /\ t[j] = slots[e][j] /\ j # p
    <3> SUFFICES ASSUME NEW j \in Nat, Holds(slots[e], j) PROVE Holds(t, j) /\ t[j] = slots[e][j] /\ j # p
      OBVIOUS
    <3>1. slots[e][j] # Names!Deleted /\ j \in 1 .. Len(slots[e]) /\ Names!IsEntry(slots[e][j])
      BY SlotIs DEF Holds
    <3> QED BY <2>3, <2>5, <3>1 DEF Holds
  <2>8. /\ with \in [Names!Dirs -> Seq(Slot)]
        /\ \A f \in Names!Dirs : with[f] = IF f = e THEN t ELSE slots[f]
    BY <1>0, <2>3 DEF NamesTypes
  <2>9. with[d] \in Seq(Slot) /\ Holds(with[d], i) /\ ~ (d = e /\ i = p)
    BY <2>2, <2>7, <2>8
  <2>10. \A f \in Names!Dirs : LongIn(with[f]) /\ (~adopted' => ShortIn(with[f]))
    BY <1>s, <2>1, <2>4, <2>8
  <2> HIDE DEF with
  <2>11. (LongIn(with[d]) => LongIn(u)) /\ (ShortIn(with[d]) => ShortIn(u))
    BY <2>2, <2>9, LongsKept
  <2>12. Names!Deleted \in Slot /\ ~Names!IsEntry(Names!Deleted)
    BY SlotIs
  <2>13. /\ u \in Seq(Slot) /\ Len(u) = Len(with[d])
         /\ \A j \in 1 .. Len(with[d]) : u[j] = IF j = i THEN Names!Deleted ELSE with[d][j]
    BY <2>2, <2>9, <2>12 DEF Names!Marked, Holds
  <2> HIDE DEF u
  <2>14. \A j \in Nat : Holds(u, j) <=> Holds(with[d], j) /\ j # i
    BY <2>12, <2>13 DEF Holds
  <2>15. \A j \in Nat : Holds(u, j) => u[j] = with[d][j]
    BY <2>13, <2>14 DEF Holds
  <2>16. slots' \in [Names!Dirs -> Seq(Slot)] /\ \A f \in Names!Dirs : slots'[f] = IF f = d THEN u ELSE with[f]
    BY <2>1, <2>8, <2>13
  <2>17. \A f \in Names!Dirs, j \in Nat : Holds(slots[f], j) => (slots[f][j].id = id <=> f = d /\ j = i)
    BY <1>0, <2>2, <2>b DEF EntriesApart
  <2>c. p # 0
    BY <2>3
  <2>18. Stays(id)
    <3> SUFFICES ASSUME NEW f \in Names!Dirs, NEW j \in Nat, Holds(slots[f], j), slots[f][j].id # id
                 PROVE  Holds(slots'[f], j) /\ slots'[f][j] = slots[f][j]
      BY DEF Stays
    <3>1. Holds(with[f], j) /\ with[f][j] = slots[f][j] /\ ~ (f = d /\ j = i)
      BY <2>7, <2>8, <2>17
    <3> QED BY <2>14, <2>15, <2>16, <3>1
  <2>19. Comes(id, e, p)
    <3> SUFFICES ASSUME NEW f \in Names!Dirs, NEW j \in Nat, Holds(slots'[f], j), ~ (f = e /\ j = p)
                 PROVE  Holds(slots[f], j) /\ slots'[f][j] = slots[f][j] /\ slots[f][j].id # id
      BY <2>c DEF Comes
    <3>1. Holds(with[f], j) /\ slots'[f][j] = with[f][j] /\ ~ (f = d /\ j = i)
      BY <2>14, <2>15, <2>16
    <3>2. Holds(slots[f], j) /\ with[f][j] = slots[f][j]
      BY <2>6, <2>8, <3>1
    <3> QED BY <2>17, <3>1, <3>2
  <2>20. New(id, e, m, id, p)
    <3>1. Holds(with[e], p) /\ with[e][p] = Names!Entry(m, id)
      BY <2>3, <2>5, <2>8
    <3>2. Holds(slots'[e], p) /\ slots'[e][p] = Names!Entry(m, id)
      BY <2>9, <2>14, <2>15, <2>16, <3>1
    <3> QED BY <2>1, <2>2, <3>2 DEF New
  <2>21. Renamed(id, e, m, id, p)
    BY <2>1, <2>c DEF Names!Gone, Renamed
  <2>25. Bare(id, p)
    BY <2>1 DEF Bare
  <2>22. /\ named' \in [Names!Dirs \X Names!Names -> Ids \cup {None}]
         /\ EntriesNamed' /\ EntriesApart' /\ SubsInRoot' /\ Names!NothingStranded'
    BY <1>0, <2>5, <2>16, <2>18, <2>19, <2>20, <2>21, <2>25, EntriesStep
  <2>23. LongKept' /\ (~adopted' => ShortKept')
    BY <2>10, <2>11, <2>16 DEF LongKept, ShortKept
  <2>24. NamesTypes'
    <3>1. adopted' \in BOOLEAN
      BY <1>0, <2>1 DEF NamesTypes, Names!Adopts
    <3> QED BY <2>16, <2>22, <3>1 DEF NamesTypes
  <2> QED BY <2>22, <2>23, <2>24 DEF NamesInv
<1> QED BY <1>1, <1>2, <1>3 DEF Names!Next

\* A step that leaves the variables of this part alone keeps NamesInv.
LEMMA NamesUnchanged ==
    ASSUME NamesInv, UNCHANGED namesVars
    PROVE  NamesInv'
<1>1. UNCHANGED <<slots, named, adopted>>
  BY DEF namesVars
<1>2. (NamesTypes => NamesTypes') /\ (EntriesNamed => EntriesNamed')
  BY <1>1 DEF NamesTypes, EntriesNamed
<1>3. (EntriesApart => EntriesApart') /\ (LongKept => LongKept') /\ (ShortKept => ShortKept')
  BY <1>1 DEF EntriesApart, LongKept, ShortKept
<1>4. (SubsInRoot => SubsInRoot') /\ (Names!NothingStranded => Names!NothingStranded')
  BY <1>1 DEF SubsInRoot, Names!NothingStranded, Names!InUse
<1> QED BY <1>1, <1>2, <1>3, <1>4 DEF NamesInv

\* NamesInv is enough for what the run checks.
LEMMA NamesImplies == ASSUME NamesInv PROVE Names!NamesResolve /\ Names!NothingStranded
<1>1. ASSUME ~adopted, NEW d \in Names!Dirs, NEW n \in Names!Names
      PROVE  IF Names!Found(d, n) = 0 THEN \A m \in Names!Called(n) : named[<<d, m>>] = None
             ELSE \E m \in Names!Called(n) : named[<<d, m>>] = slots[d][Names!Found(d, n)].id
  <2>1. CASE Names!Found(d, n) # 0
    <3>1. PICK i \in Nat : i = Names!Found(d, n)
      BY <2>1, FoundIs
    <3>2. Holds(slots[d], i) /\ slots[d][i].name \in Names!Called(n)
      BY <1>1, <2>1, <3>1, FoundIs
    <3>3. named[<<d, slots[d][i].name>>] = slots[d][i].id
      BY <3>2 DEF NamesInv, EntriesNamed
    <3> QED BY <2>1, <3>1, <3>2, <3>3
  <2>2. CASE Names!Found(d, n) = 0
    BY <2>2, FoundIs
  <2> QED BY <2>1, <2>2
<1> QED BY <1>1 DEF NamesInv, Names!NamesResolve

-----------------------------------------------------------------------------
(* Storage: the drive keeps what was synchronised to it. *)

Boot == {"ata", "mbr", "ramdisk", "hd0p1", "hd0", "ram0"}
DevNames == {"hd0", "hd0p1", "hd0p2", "hd0p3", "hd0p4", "ram0"}
Formatted == layout \in {"whole", "first"}

\* What is where, whatever failed.
StoreKept ==
    /\ at \in Boot \cup {"off", "fsck", "up"}
    /\ disk \in {kept, Mixed} /\ Mixed \notin {kept, ram, module, Blank}
    /\ volume \notin {"hd0", "hd0p1"} => cached # Mixed
    /\ at \in Boot => volume = ""
    /\ volume \in {"", "hd0", "hd0p1", "ram0"}
    /\ volume = "hd0" => layout = "whole"
    /\ volume = "hd0p1" => layout = "first"

\* The saves on the drive are not ahead of those of the volume that is mounted.
StoreOrder ==
    /\ saves \in Nat
    /\ Formatted => kept \in Nat /\ kept <= saves
    /\ volume \in {"hd0", "hd0p1"} =>
          cached = Mixed \/ (cached \in Nat /\ kept <= cached /\ cached <= saves)

\* The registry fills up as the boot goes on.
StoreDevices ==
    /\ registry \in Seq(DevNames) /\ Len(registry) <= MaxDevices
    /\ at = "ata" => Len(registry) = 0
    /\ at = "mbr" => Len(registry) <= 1

\* How far a boot without failures has come.
StoreFound ==
    /\ at = "mbr" /\ Store!HasDrive => Store!Registered("hd0")
    /\ at \in {"ramdisk", "hd0p1", "hd0", "ram0"} =>
          /\ layout = "whole" => Store!Registered("hd0")
          /\ layout = "first" => Store!Registered("hd0p1")
    /\ at \in {"hd0p1", "hd0", "ram0"} => Store!Registered("ram0")
    /\ at = "hd0" => layout # "first"
    /\ at = "ram0" => ~Formatted
    /\ at \in {"fsck", "up"} =>
          volume = IF layout = "whole" THEN "hd0" ELSE IF layout = "first" THEN "hd0p1" ELSE "ram0"

StoreInv == StoreKept /\ StoreOrder /\ StoreDevices /\ (~failed => StoreFound)

\* The steps of the boot come in the order of kmain.
LEMMA StoreAfter ==
    /\ Store!After("ata") = "mbr" /\ Store!After("mbr") = "ramdisk"
    /\ Store!After("ramdisk") = "hd0p1" /\ Store!After("hd0p1") = "hd0"
    /\ Store!After("hd0") = "ram0"
<1> DEFINE S == Store!Steps
<1>1. /\ Len(S) = 8 /\ S[1] = "ata" /\ S[2] = "mbr" /\ S[3] = "ramdisk" /\ S[4] = "hd0p1"
      /\ S[5] = "hd0" /\ S[6] = "ram0" /\ S[7] = "fsck" /\ S[8] = "up"
  BY DEF Store!Steps
<1> HIDE DEF S
<1>2. ASSUME NEW k \in 1 .. 5
      PROVE  Store!After(S[k]) = S[k + 1]
  <2>1. \A i \in 2 .. 8 : S[i - 1] = S[k] => i = k + 1
    <3> SUFFICES ASSUME NEW i \in 2 .. 8, S[i - 1] = S[k] PROVE i = k + 1
      OBVIOUS
    <3> i \in {2, 3, 4, 5, 6, 7, 8} /\ k \in {1, 2, 3, 4, 5}
      OBVIOUS
    <3> QED BY <1>1
  <2>2. k + 1 \in 2 .. 8 /\ S[(k + 1) - 1] = S[k]
    OBVIOUS
  <2>3. (CHOOSE i \in 2 .. 8 : S[i - 1] = S[k]) = k + 1
    BY <2>1, <2>2
  <2> QED BY <1>1, <2>3 DEF Store!After, S
<1> QED BY <1>1, <1>2

\* Devices are appended to the registry while there is room, so what was
\* registered stays and, with room left, a new device is found.
LEMMA StoreRegistered ==
    ASSUME registry \in Seq(DevNames), Len(registry) <= MaxDevices, NEW names \in Seq(DevNames)
    PROVE  /\ Store!WithDevices(names) \in Seq(DevNames)
           /\ Len(Store!WithDevices(names)) <= MaxDevices
           /\ Len(Store!WithDevices(names)) <= Len(registry) + Len(names)
           /\ Store!Range(registry) \subseteq Store!Range(Store!WithDevices(names))
           /\ Len(registry) < MaxDevices /\ Len(names) > 0 =>
                 names[1] \in Store!Range(Store!WithDevices(names))
<1> DEFINE all == registry \o names
           n == IF Len(all) < MaxDevices THEN Len(all) ELSE MaxDevices
<1>1. /\ all \in Seq(DevNames) /\ Len(all) = Len(registry) + Len(names)
      /\ Len(registry) \in Nat /\ Len(names) \in Nat
      /\ \A i \in 1 .. Len(registry) : all[i] = registry[i]
      /\ \A i \in 1 .. Len(names) : all[Len(registry) + i] = names[i]
  OBVIOUS
<1> HIDE DEF all
<1>2. n \in 0 .. Len(all) /\ n <= MaxDevices /\ Len(registry) <= n
  BY <1>1, StorageAssumption
<1>3. Len(registry) < MaxDevices /\ Len(names) > 0 => Len(registry) + 1 <= n
  BY <1>1, StorageAssumption
<1> HIDE DEF n
<1>4. DEFINE r == SubSeq(all, 1, n)
<1>5. r \in Seq(DevNames) /\ Len(r) = n /\ \A i \in 1 .. n : r[i] = all[i]
  BY <1>1, <1>2
<1>6. Store!WithDevices(names) = r
  BY DEF Store!WithDevices, all, n
<1> HIDE DEF r
<1>7. Store!Range(registry) \subseteq Store!Range(r)
  <2>1. ASSUME NEW i \in 1 .. Len(registry) PROVE i \in 1 .. n /\ r[i] = registry[i]
    <3>1. i \in 1 .. n
      BY <1>1, <1>2
    <3> QED BY <1>1, <1>5, <3>1
  <2>2. Store!Range(registry) = {registry[i] : i \in 1 .. Len(registry)}
    BY DEF Store!Range
  <2>3. Store!Range(r) = {r[i] : i \in 1 .. n}
    BY <1>5 DEF Store!Range
  <2> QED BY <2>1, <2>2, <2>3
<1>8. ASSUME Len(registry) < MaxDevices, Len(names) > 0
      PROVE  names[1] \in Store!Range(r)
  <2>1. Len(registry) + 1 \in 1 .. n /\ 1 \in 1 .. Len(names)
    BY <1>1, <1>2, <1>3, <1>8
  <2>2. r[Len(registry) + 1] = names[1]
    BY <2>1, <1>1, <1>5
  <2> QED BY <2>1, <2>2, <1>5 DEF Store!Range
<1> QED BY <1>1, <1>2, <1>5, <1>6, <1>7, <1>8

\* Nothing has been saved before the first boot.
LEMMA StoreStart == ASSUME Store!Init PROVE StoreInv
<1>1. StoreKept
  <2>1. Mixed \notin {0, Blank}
    BY StorageAssumption
  <2> QED BY <2>1 DEF Store!Init, StoreKept, Boot
<1>2. saves = 0 /\ volume = "" /\ (Formatted => kept = 0)
  BY DEF Store!Init, Formatted
<1>3. StoreOrder
  <2> 0 <= 0 /\ 0 \in Nat
    OBVIOUS
  <2> QED BY <1>2 DEF StoreOrder
<1>4. registry \in Seq(DevNames) /\ Len(registry) <= MaxDevices
  <2>1. registry = <<>> /\ Len(<<>>) = 0
    BY DEF Store!Init
  <2> QED BY <2>1, StorageAssumption
<1>5. StoreFound /\ at = "off"
  BY DEF Store!Init, StoreFound
<1> QED BY <1>1, <1>3, <1>4, <1>5 DEF StoreInv, StoreDevices

\* What a flush leaves: a device that holds it, its older content or
\* a mix, of which only the first counts as kept, and is the RAM disk's always.
Flush(what) ==
    /\ disk' \in {kept', Mixed} /\ (failed => failed')
    /\ kept' = kept \/ (volume \in {"hd0", "hd0p1"} /\ kept' = what /\ what # Mixed)
    /\ ram' = IF volume = "ram0" THEN what ELSE ram

LEMMA FlushIs ==
    ASSUME StoreKept, NEW what, NEW refused, Store!Flushed(what, refused)
    PROVE  Flush(what)
<1>1. PICK reached \in (IF Store!Holds(volume) = what THEN {what}
                        ELSE {what, Mixed, Store!Holds(volume)}) :
         /\ volume = "ram0" => reached = what
         /\ ram' = (IF volume = "ram0" THEN reached ELSE ram)
         /\ disk' = (IF volume \in {"hd0", "hd0p1"} THEN reached ELSE disk)
         /\ kept' = (IF volume \in {"hd0", "hd0p1"} /\ reached = what /\ what # Mixed
                       THEN what ELSE kept)
         /\ failed' = (failed \/ refused \/ reached # what)
  BY DEF Store!Flushed
<1>2. volume \in {"hd0", "hd0p1"} => Store!Holds(volume) = disk
  BY DEF Store!Holds, StoreKept
<1>3. disk \in {kept, Mixed}
  BY DEF StoreKept
<1>4. disk' \in {kept', Mixed}
  BY <1>1, <1>2, <1>3
<1> QED BY <1>1, <1>4 DEF Flush

\* Every step of boot, registry, saves and synchronisations keeps StoreInv.
LEMMA StoreStep ==
    ASSUME StoreInv, Store!Next
    PROVE  StoreInv'
<1> USE DEF Store!Goto, Store!config
<1>0. StoreKept /\ StoreOrder /\ StoreDevices /\ (~failed => StoreFound)
  BY DEF StoreInv
<1>13. (at' = at \/ at' \notin {"ata", "mbr"}) /\ UNCHANGED registry => StoreDevices'
  BY <1>0 DEF StoreDevices
<1>14. at' = "mbr" /\ at = "ata" /\ UNCHANGED registry => StoreDevices'
  BY <1>0 DEF StoreDevices
<1>1. CASE Store!PowerOn
  <2>1. StoreKept'
    <3>1. Mixed \notin {0, Blank}
      BY StorageAssumption
    <3> QED BY <1>0, <1>1, <3>1 DEF Store!PowerOn, StoreKept, Boot
  <2>3. StoreOrder'
    BY <1>0, <1>1 DEF Store!PowerOn, StoreOrder, Formatted
  <2>2. StoreFound'
    <3>1. at' = "ata" /\ registry' = <<>>
      BY <1>1 DEF Store!PowerOn
    <3> QED BY <3>1 DEF StoreFound
  <2>4. StoreDevices'
    <3>1. at' = "ata" /\ registry' = <<>> /\ Len(<<>>) = 0
      BY <1>1 DEF Store!PowerOn
    <3> QED BY <3>1, StorageAssumption DEF StoreDevices
  <2> QED BY <2>1, <2>2, <2>3, <2>4 DEF StoreInv
<1>2. CASE Store!Refused
  <2>1. StoreKept'
    BY <1>0, <1>2, StoreAfter DEF Store!Refused, StoreKept, Boot
  <2>3. StoreOrder'
    BY <1>0, <1>2, StoreAfter DEF Store!Refused, StoreOrder, Formatted
  <2>2. ~failed' => StoreFound'
    BY <1>2 DEF Store!Refused
  <2>4. StoreDevices'
    BY <1>2, <1>13, <1>14, StoreAfter DEF Store!Refused
  <2> QED BY <2>1, <2>2, <2>3, <2>4 DEF StoreInv
<1>3. CASE Store!AtaInit
  <2>1. StoreKept'
    BY <1>0, <1>3, StoreAfter DEF Store!AtaInit, Store!Register, StoreKept, Boot
  <2>2. StoreOrder'
    BY <1>0, <1>3, StoreAfter DEF Store!AtaInit, Store!Register, StoreOrder, Formatted
  <2> DEFINE names == IF Store!HasDrive THEN <<"hd0">> ELSE <<>>
  <2>3. /\ names \in Seq(DevNames) /\ Len(names) <= 1
        /\ Store!HasDrive => Len(names) > 0 /\ names[1] = "hd0"
    <3>1. /\ <<"hd0">> \in Seq(DevNames) /\ Len(<<"hd0">>) = 1 /\ <<"hd0">>[1] = "hd0"
          /\ <<>> \in Seq(DevNames) /\ Len(<<>>) = 0
      BY DEF DevNames
    <3> QED BY <3>1
  <2>4. /\ registry' = Store!WithDevices(names) /\ at = "ata" /\ at' = "mbr"
        /\ UNCHANGED <<layout, failed>>
    BY <1>3, StoreAfter DEF Store!AtaInit, Store!Register
  <2> HIDE DEF names
  <2>5. /\ registry \in Seq(DevNames) /\ Len(registry) = 0
        /\ Len(registry) <= MaxDevices /\ Len(registry) < MaxDevices
    BY <1>0, <2>4, StorageAssumption DEF StoreDevices
  <2>6. /\ registry' \in Seq(DevNames) /\ Len(registry') <= MaxDevices /\ Len(registry') <= 1
        /\ Store!HasDrive => "hd0" \in Store!Range(registry')
    BY <2>3, <2>4, <2>5, StoreRegistered
  <2>7. StoreDevices'
    BY <2>4, <2>6 DEF StoreDevices
  <2>8. StoreFound'
    BY <2>4, <2>6 DEF StoreFound, Store!Registered, Store!HasDrive
  <2> QED BY <2>1, <2>2, <2>7, <2>8 DEF StoreInv
<1>4. CASE Store!RegisterPartitions
  <2>1. StoreKept'
    BY <1>0, <1>4, StoreAfter DEF Store!RegisterPartitions, Store!Register, StoreKept, Boot
  <2>2. StoreOrder'
    BY <1>0, <1>4, StoreAfter DEF Store!RegisterPartitions, Store!Register, StoreOrder, Formatted
  <2> DEFINE names == IF Store!Registered("hd0") THEN Store!Partitions ELSE <<>>
  <2>3. names \in Seq(DevNames)
    <3>1. Store!Partitions \in Seq(DevNames)
      <4>1. /\ <<"hd0p1">> \in Seq(DevNames) /\ <<"hd0p2">> \in Seq(DevNames)
            /\ <<"hd0p1", "hd0p2", "hd0p3", "hd0p4">> \in Seq(DevNames)
        BY DEF DevNames
      <4>2. <<>> \in Seq(DevNames)
        OBVIOUS
      <4> QED BY <4>1, <4>2 DEF Store!Partitions
    <3> QED BY <3>1
  <2>4. Store!Registered("hd0") /\ layout = "first" => Len(names) > 0 /\ names[1] = "hd0p1"
    <3>1. layout = "first" => Store!Partitions = <<"hd0p1">>
      BY DEF Store!Partitions
    <3>2. Len(<<"hd0p1">>) > 0 /\ <<"hd0p1">>[1] = "hd0p1"
      OBVIOUS
    <3> QED BY <3>1, <3>2
  <2>5. /\ registry' = Store!WithDevices(names) /\ at = "mbr" /\ at' = "ramdisk"
        /\ UNCHANGED <<layout, failed>>
    BY <1>4, StoreAfter DEF Store!RegisterPartitions, Store!Register
  <2> HIDE DEF names
  <2>6. /\ registry \in Seq(DevNames) /\ Len(registry) <= MaxDevices /\ Len(registry) < MaxDevices
    BY <1>0, <2>5, StorageAssumption DEF StoreDevices
  <2>7. /\ registry' \in Seq(DevNames) /\ Len(registry') <= MaxDevices
        /\ Store!Range(registry) \subseteq Store!Range(registry')
        /\ Store!Registered("hd0") /\ layout = "first" => "hd0p1" \in Store!Range(registry')
    BY <2>3, <2>4, <2>5, <2>6, StoreRegistered
  <2>8. StoreDevices'
    BY <2>5, <2>7 DEF StoreDevices
  <2>9. ASSUME ~failed
        PROVE  StoreFound'
    BY <1>0, <2>5, <2>7, <2>9 DEF StoreFound, Store!Registered, Store!HasDrive
  <2> QED BY <2>1, <2>2, <2>5, <2>8, <2>9 DEF StoreInv
<1>5. CASE Store!RamdiskInit
  <2>1. StoreKept'
    BY <1>0, <1>5, StoreAfter DEF Store!RamdiskInit, StoreKept, Boot
  <2>2. StoreOrder'
    BY <1>0, <1>5, StoreAfter DEF Store!RamdiskInit, StoreOrder, Formatted
  <2>3. /\ at = "ramdisk" /\ at' = "hd0p1" /\ UNCHANGED layout
        /\ \/ failed' /\ UNCHANGED registry
           \/ /\ UNCHANGED failed
              /\ registry' = Append(registry, "ram0") /\ Len(registry) < MaxDevices
    BY <1>5, StoreAfter DEF Store!RamdiskInit
  <2>4. CASE failed' /\ UNCHANGED registry
    BY <1>13, <2>1, <2>2, <2>3, <2>4 DEF StoreInv
  <2>5. CASE UNCHANGED failed /\ registry' = Append(registry, "ram0") /\ Len(registry) < MaxDevices
    <3>1. registry \in Seq(DevNames) /\ "ram0" \in DevNames
      BY <1>0 DEF StoreDevices, DevNames
    <3>2. /\ registry' \in Seq(DevNames) /\ Len(registry') = Len(registry) + 1
          /\ \A i \in 1 .. Len(registry) : registry'[i] = registry[i]
          /\ registry'[Len(registry) + 1] = "ram0"
      BY <2>5, <3>1
    <3>3. Len(registry') <= MaxDevices
      BY <2>5, <3>1, <3>2, StorageAssumption
    <3>4. /\ Store!Range(registry) \subseteq Store!Range(registry')
          /\ "ram0" \in Store!Range(registry')
      BY <3>1, <3>2 DEF Store!Range
    <3>5. StoreDevices'
      BY <2>3, <3>2, <3>3 DEF StoreDevices
    <3>6. ASSUME ~failed
          PROVE  StoreFound'
      BY <1>0, <2>3, <3>4, <3>6 DEF StoreFound, Store!Registered
    <3> QED BY <2>1, <2>2, <2>5, <3>5, <3>6 DEF StoreInv
  <2> QED BY <2>3, <2>4, <2>5
<1>6. CASE Store!MountDrive
  <2>1. StoreKept'
    BY <1>0, <1>6, StoreAfter DEF Store!MountDrive, Store!Mount, Store!Holds, StoreKept, Boot
  <2>2. PICK dev \in {"hd0p1", "hd0"} : dev = at
    BY <1>6 DEF Store!MountDrive
  <2>3. CASE Store!Registered(dev) /\ Store!Holds(dev) # Blank
    <3>1. /\ volume' = dev /\ cached' = Store!Holds(dev) /\ at' = "fsck"
          /\ UNCHANGED <<disk, registry, failed, layout, saves, kept>>
      BY <1>6, <2>2, <2>3 DEF Store!MountDrive, Store!Mount
    <3>2. cached' = disk /\ (IF dev = "hd0" THEN layout = "whole" ELSE layout = "first")
      BY <2>2, <2>3, <3>1 DEF Store!Holds
    <3>3. StoreOrder'
      <4>1. kept \in Nat /\ kept <= saves /\ saves \in Nat
        BY <1>0, <3>2, <2>2 DEF StoreOrder, Formatted
      <4>2. cached' \in {kept, Mixed}
        BY <1>0, <3>2 DEF StoreKept
      <4>3. kept <= kept
        BY <4>1
      <4> QED BY <3>1, <4>1, <4>2, <4>3 DEF StoreOrder
    <3>4. ~failed' => StoreFound'
      BY <1>0, <2>2, <3>1, <3>2 DEF StoreFound, StoreKept, Boot, Formatted
    <3> QED BY <1>13, <2>1, <3>1, <3>3, <3>4 DEF StoreInv
  <2>4. CASE ~(Store!Registered(dev) /\ Store!Holds(dev) # Blank)
    <3>1. /\ at' = Store!After(dev)
          /\ UNCHANGED <<volume, cached, disk, registry, failed, layout, saves, kept>>
      BY <1>6, <2>2, <2>4 DEF Store!MountDrive
    <3>2. StoreOrder'
      BY <1>0, <3>1 DEF StoreOrder, Formatted
    <3>3. IF dev = "hd0p1" THEN at' = "hd0" ELSE at' = "ram0"
      BY <2>2, <3>1, StoreAfter
    <3>4. ASSUME Formatted
          PROVE  disk # Blank
      BY <1>0, <3>4, StorageAssumption DEF StoreOrder, StoreKept
    <3>5. ASSUME ~failed
          PROVE  /\ dev = "hd0p1" => layout # "first"
                 /\ dev = "hd0" => ~Formatted
      BY <1>0, <2>2, <2>4, <3>4, <3>5 DEF StoreFound, Store!Holds, Formatted
    <3>6. ~failed' => StoreFound'
      BY <1>0, <2>2, <3>1, <3>3, <3>5 DEF StoreFound, Store!Registered, StoreKept, Boot, Formatted
    <3> QED BY <1>13, <2>1, <3>1, <3>2, <3>3, <3>6 DEF StoreInv
  <2> QED BY <2>3, <2>4
<1>7. CASE Store!MountRam
  <2>1. StoreKept'
    <3>1. Mixed # 0
      BY StorageAssumption
    <3> QED BY <1>0, <1>7, <3>1 DEF Store!MountRam, StoreKept, Boot
  <2>3. StoreOrder'
    BY <1>0, <1>7 DEF Store!MountRam, StoreOrder, Formatted
  <2>2. ~failed' => StoreFound'
    BY <1>0, <1>7 DEF Store!MountRam, StoreFound, Store!Registered, StoreKept, Boot, Formatted
  <2>4. StoreDevices'
    BY <1>7, <1>13 DEF Store!MountRam
  <2> QED BY <2>1, <2>2, <2>3, <2>4 DEF StoreInv
<1>8. CASE Store!Checked
  <2>1. StoreKept'
    BY <1>0, <1>8 DEF Store!Checked, StoreKept, Boot
  <2>3. StoreOrder'
    BY <1>0, <1>8 DEF Store!Checked, StoreOrder, Formatted
  <2>2. ~failed' => StoreFound'
    BY <1>0, <1>8 DEF Store!Checked, StoreFound, Store!Registered, StoreKept, Boot, Formatted
  <2>4. StoreDevices'
    BY <1>8, <1>13 DEF Store!Checked
  <2> QED BY <2>1, <2>2, <2>3, <2>4 DEF StoreInv
<1>9. CASE Store!Save
  <2>1. PICK refused \in BOOLEAN :
           /\ cached' = (IF refused THEN Mixed ELSE saves + 1) /\ Store!Flushed(cached', refused)
           /\ UNCHANGED <<at, layout, module, registry, volume>> /\ saves' = saves + 1
           /\ at = "up" /\ volume # ""
    BY <1>9 DEF Store!Save
  <2>2. /\ saves \in Nat /\ saves + 1 \in Nat /\ saves <= saves + 1 /\ Mixed # saves + 1
        /\ kept \in Nat /\ kept <= saves => kept <= saves + 1
    BY <1>0, StorageAssumption DEF StoreOrder
  <2>3. Flush(cached')
    BY <1>0, <2>1, FlushIs
  <2>4. volume = "ram0" => ~refused
    BY <2>1 DEF Store!Flushed
  <2>5. StoreKept'
    BY <1>0, <2>1, <2>2, <2>3, <2>4 DEF StoreKept, Flush, Boot
  <2>6. StoreOrder'
    <3>1. Formatted => kept \in Nat /\ kept <= saves
      BY <1>0 DEF StoreOrder
    <3>2. volume \in {"hd0", "hd0p1"} => Formatted
      BY <1>0 DEF StoreKept, Formatted
    <3>3. saves + 1 <= saves + 1
      BY <2>2
    <3> QED BY <2>1, <2>2, <2>3, <3>1, <3>2, <3>3 DEF StoreOrder, Formatted, Flush
  <2>7. ~failed' => StoreFound'
    BY <1>0, <2>1, <2>3 DEF Flush, StoreFound, Store!Registered, StoreKept, Boot, Formatted
  <2>8. StoreDevices'
    BY <1>13, <2>1
  <2> QED BY <2>5, <2>6, <2>7, <2>8 DEF StoreInv
<1>10. CASE Store!Sync \/ Store!Reboot
  <2>1. /\ Store!Flushed(cached, FALSE) /\ Store!Stored /\ at = "up" /\ at' \in {"up", "off"}
        /\ UNCHANGED <<layout, registry, volume, cached, saves>>
    BY <1>10 DEF Store!Sync, Store!Reboot
  <2>2. Flush(cached)
    BY <1>0, <2>1, FlushIs
  <2>3. StoreKept'
    BY <1>0, <2>1, <2>2 DEF StoreKept, Flush, Store!Stored, Boot
  <2>4. StoreOrder'
    <3>1. /\ Formatted => kept \in Nat /\ kept <= saves
          /\ volume \in {"hd0", "hd0p1"} => cached = Mixed \/ (cached \in Nat /\ kept <= cached /\ cached <= saves)
          /\ volume \in {"hd0", "hd0p1"} /\ cached # Mixed => cached <= cached
      BY <1>0 DEF StoreOrder
    <3>2. volume \in {"hd0", "hd0p1"} => Formatted
      BY <1>0 DEF StoreKept, Formatted
    <3> QED BY <1>0, <2>1, <2>2, <3>1, <3>2 DEF StoreOrder, Formatted, Flush
  <2>5. ~failed' => StoreFound'
    BY <1>0, <2>1, <2>2 DEF Flush, StoreFound, Store!Registered, StoreKept, Boot, Formatted
  <2>6. StoreDevices'
    BY <1>13, <2>1
  <2> QED BY <2>3, <2>4, <2>5, <2>6 DEF StoreInv
<1>11. CASE Store!PowerFailure
  <2>1. StoreKept'
    BY <1>0, <1>11 DEF Store!PowerFailure, StoreKept, Boot
  <2>3. StoreOrder'
    BY <1>0, <1>11 DEF Store!PowerFailure, StoreOrder, Formatted
  <2>2. ~failed' => StoreFound'
    BY <1>0, <1>11 DEF Store!PowerFailure, StoreFound, Store!Registered, StoreKept, Boot, Formatted
  <2>4. StoreDevices'
    BY <1>11, <1>13 DEF Store!PowerFailure
  <2> QED BY <2>1, <2>2, <2>3, <2>4 DEF StoreInv
<1> QED
  BY <1>1, <1>2, <1>3, <1>4, <1>5, <1>6, <1>7, <1>8, <1>9, <1>10, <1>11 DEF Store!Next

\* A step that leaves the variables of this part alone keeps StoreInv.
LEMMA StoreUnchanged == ASSUME StoreInv, UNCHANGED storeVars PROVE StoreInv'
BY DEF storeVars, StoreInv, StoreKept, StoreOrder, StoreDevices, StoreFound,
       Formatted, Boot, Store!HasDrive, Store!Registered

\* StoreInv is enough for what the run checks.
LEMMA StoreImplies == ASSUME StoreInv PROVE Store!DriveKept
BY DEF Store!DriveKept, StoreInv, StoreKept, StoreOrder, StoreFound, Formatted

-----------------------------------------------------------------------------
(* Input: the ring of characters, the mouse's packets and the timer's         *)
(* requests.  Unread is the number of keys in the ring; they stand in it from *)
(* the head on, in the order they were typed in.                              *)

Key == [key : Int, upper : BOOLEAN]
Mouse == [x : Int, pressed : BOOLEAN]
Unread == Len(typed) - Len(answers)
Wrap(i) == IF i >= RingSize THEN i - RingSize ELSE i

InputTypes ==
    /\ ring \in [0 .. RingSize - 1 -> Key]
    /\ head \in 0 .. RingSize - 1 /\ tail \in 0 .. RingSize - 1
    /\ count \in Int /\ load \in Int
    /\ typed \in Seq(BOOLEAN) /\ answers \in Seq(Key)
    /\ clobbered \in BOOLEAN /\ ready \in BOOLEAN /\ missed \in BOOLEAN
    /\ pointer \in Mouse /\ seen \in Mouse
    /\ sent \in Nat /\ lost \in Nat /\ spoiled \in Nat /\ plain \in BOOLEAN
    /\ polling \in {"flag", "clear flag", "sync", "mouse", "clear ready", "position", "keys",
                    "count", "store", "draw"}

RingKept ==
    ~clobbered =>
        /\ Unread \in 0 .. RingSize
        /\ tail = Wrap(head + Unread)
        /\ \A j \in 0 .. Unread - 1 :
              ring[Wrap(head + j)] = [key |-> Len(answers) + 1 + j, upper |-> typed[Len(answers) + 1 + j]]
        /\ count = IF polling \in {"count", "store"} THEN Unread + 1 ELSE Unread

KeysRead ==
    ~clobbered => \A n \in 1 .. Len(answers) : answers[n] = [key |-> n, upper |-> typed[n]]

\* From the copy of the buttons to that of the position only they agree.
PointerKept ==
    ~missed =>
        /\ polling = "clear ready" => seen.pressed = pointer.pressed
        /\ polling = "position" /\ ~ready => seen.pressed = pointer.pressed
        /\ polling \notin {"clear ready", "position"} /\ ~ready => seen = pointer

\* What was lost since the first byte of the packet that is being read.
Gap == sent - 3 * (packet[1].of - 1) - Len(packet)

PacketKept ==
    /\ packet \in Seq(Input!Byte) /\ Len(packet) <= 2
    /\ plain => spoiled <= lost
    /\ plain /\ Len(packet) > 0 =>
          packet[1].index = 1 /\ Gap \in Nat /\ spoiled + Gap <= lost

InputInv ==
    /\ InputTypes /\ RingKept /\ KeysRead /\ PointerKept /\ PacketKept /\ Input!RequestsServed

\* The index after i in the ring is as the handlers compute it.
LEMMA WrapIs ==
    ASSUME NEW i \in 0 .. RingSize - 1
    PROVE  (i + 1) % RingSize = Wrap(i + 1) /\ Wrap(i + 1) \in 0 .. RingSize - 1 /\ Wrap(i) = i
<1>1. RingSize \in Nat /\ RingSize > 0
  BY InputAssumption
<1> QED BY <1>1 DEF Wrap

\* Less than a ring apart, two indices do not meet.
LEMMA WrapApart ==
    ASSUME NEW i \in 0 .. RingSize - 1, NEW n \in 0 .. RingSize - 1, NEW j \in 0 .. n, j # n
    PROVE  Wrap(i + j) \in 0 .. RingSize - 1 /\ Wrap(i + j) # Wrap(i + n)
<1>1. RingSize \in Int /\ i \in Int /\ n \in Int /\ j \in Int
  BY InputAssumption
<1>2. 0 <= i /\ i < RingSize /\ n < RingSize /\ 0 <= j /\ j < n
  BY <1>1
<1>3. CASE i + n < RingSize
  BY <1>1, <1>2, <1>3 DEF Wrap
<1>4. CASE i + n >= RingSize /\ i + j < RingSize
  BY <1>1, <1>2, <1>4 DEF Wrap
<1>5. CASE i + n >= RingSize /\ i + j >= RingSize
  BY <1>1, <1>2, <1>5 DEF Wrap
<1> QED BY <1>1, <1>3, <1>4, <1>5

\* After a start the ring is empty and what the loop has seen is what there is.
LEMMA InputStart == ASSUME Input!Init PROVE InputInv
<1>1. InputTypes
  <2>1. ring \in [0 .. RingSize - 1 -> Key] /\ 0 \in 0 .. RingSize - 1
    BY InputAssumption DEF Input!Init, Key
  <2>2. pointer \in Mouse /\ PointerWidth \div 2 \in Int
    BY InputAssumption DEF Input!Init, Mouse
  <2>3. typed \in Seq(BOOLEAN) /\ answers \in Seq(Key)
    BY DEF Input!Init
  <2>4. head = 0 /\ tail = 0 /\ count = 0 /\ load = 0 /\ sent = 0 /\ lost = 0 /\ spoiled = 0
    BY DEF Input!Init
  <2>5. /\ polling = "flag" /\ clobbered = FALSE /\ ready = FALSE /\ missed = FALSE
        /\ plain \in BOOLEAN /\ seen = pointer
    BY DEF Input!Init
  <2>6. clobbered \in BOOLEAN /\ ready \in BOOLEAN /\ missed \in BOOLEAN
    BY <2>5
  <2>7. head \in 0 .. RingSize - 1 /\ tail \in 0 .. RingSize - 1 /\ seen \in Mouse
    BY <2>1, <2>2, <2>4, <2>5
  <2>8. count \in Int /\ load \in Int /\ sent \in Nat /\ lost \in Nat /\ spoiled \in Nat
    BY <2>4
  <2> QED BY <2>1, <2>2, <2>3, <2>5, <2>6, <2>7, <2>8 DEF InputTypes
<1>2. RingKept /\ KeysRead
  <2>1. Len(typed) = 0 /\ Len(answers) = 0 /\ head = 0 /\ tail = 0 /\ count = 0 /\ polling = "flag"
    BY DEF Input!Init
  <2>2. Unread = 0 /\ 0 .. Unread - 1 = {} /\ 1 .. Len(answers) = {}
    BY <2>1 DEF Unread
  <2>3. Wrap(0 + 0) = 0 /\ 0 \in 0 .. RingSize
    BY InputAssumption DEF Wrap
  <2> QED BY <2>1, <2>2, <2>3 DEF RingKept, KeysRead
<1>3. PointerKept
  BY DEF Input!Init, PointerKept
<1>4. PacketKept
  <2>1. packet = <<>> /\ spoiled = 0 /\ lost = 0
    BY DEF Input!Init
  <2>2. Len(<<>>) = 0 /\ <<>> \in Seq(Input!Byte)
    OBVIOUS
  <2> QED BY <2>1, <2>2 DEF PacketKept
<1>5. Input!RequestsServed
  BY DEF Input!Init, Input!RequestsServed
<1> QED BY <1>1, <1>2, <1>3, <1>4, <1>5 DEF InputInv

\* What a group of variables is about keeps while they do, the place apart.
LEMMA KeysUnchanged ==
    ASSUME RingKept, KeysRead, UNCHANGED <<ring, head, tail, count, typed, answers, clobbered>>,
           polling' \in {"count", "store"} <=> polling \in {"count", "store"}
    PROVE  RingKept' /\ KeysRead'
<1>1. UNCHANGED Unread
  BY DEF Unread
<1> QED BY <1>1 DEF RingKept, KeysRead, Wrap

\* A step that leaves the pointer alone keeps what was seen of it.
LEMMA PointerUnchanged ==
    ASSUME PointerKept, UNCHANGED <<missed, ready, seen, pointer, polling>>
    PROVE  PointerKept'
BY DEF PointerKept

\* A step that leaves the mouse's bytes alone keeps what is said of them.
LEMMA PacketUnchanged ==
    ASSUME PacketKept, UNCHANGED <<packet, sent, plain, lost, spoiled>>
    PROVE  PacketKept'
<1>1. UNCHANGED Gap
  BY DEF Gap
<1> QED BY <1>1 DEF PacketKept

\* A character joins the ring behind those that wait in it.
LEMMA PushKept ==
    ASSUME InputTypes, RingKept, KeysRead, NEW upper \in BOOLEAN, Input!Push(upper),
           UNCHANGED <<head, answers, clobbered, polling>>
    PROVE  /\ RingKept' /\ KeysRead'
           /\ ring' \in [0 .. RingSize - 1 -> Key] /\ tail' \in 0 .. RingSize - 1
           /\ count' \in Int /\ typed' \in Seq(BOOLEAN)
<1>1. CASE count >= RingSize
  <2>1. UNCHANGED <<ring, tail, count, typed>>
    BY <1>1 DEF Input!Push
  <2> QED BY <2>1, KeysUnchanged DEF InputTypes
<1>2. CASE ~(count >= RingSize)
  <2>1. /\ ring' = [ring EXCEPT ![tail] = [key |-> Len(typed) + 1, upper |-> upper]]
        /\ tail' = (tail + 1) % RingSize /\ count' = count + 1 /\ typed' = Append(typed, upper)
    BY <1>2 DEF Input!Push
  <2>2. /\ ring \in [0 .. RingSize - 1 -> Key] /\ tail \in 0 .. RingSize - 1 /\ count \in Int
        /\ head \in 0 .. RingSize - 1
        /\ typed \in Seq(BOOLEAN) /\ answers \in Seq(Key)
    BY DEF InputTypes
  <2>11. RingSize \in Nat /\ RingSize > 0
    BY InputAssumption
  <2> DEFINE m == Len(typed)
             a == Len(answers)
  <2>3. /\ typed' \in Seq(BOOLEAN) /\ Len(typed') = m + 1 /\ typed'[m + 1] = upper
        /\ \A i \in 1 .. m : typed'[i] = typed[i]
    BY <2>1, <2>2
  <2>4. m \in Nat /\ a \in Nat
    BY <2>2
  <2>5. [key |-> m + 1, upper |-> upper] \in Key
    BY <2>4 DEF Key
  <2>6. tail' = Wrap(tail + 1) /\ tail' \in 0 .. RingSize - 1
    BY <2>1, <2>2, <2>11, WrapIs
  <2>7. /\ ring' \in [0 .. RingSize - 1 -> Key] /\ ring'[tail] = [key |-> m + 1, upper |-> upper]
        /\ \A i \in (0 .. RingSize - 1) \ {tail} : ring'[i] = ring[i]
    BY <2>1, <2>2, <2>5
  <2>8. ASSUME ~clobbered
        PROVE  RingKept' /\ KeysRead'
    <3>1. /\ Unread = m - a /\ Unread \in 0 .. RingSize /\ tail = Wrap(head + Unread)
          /\ count = IF polling \in {"count", "store"} THEN Unread + 1 ELSE Unread
      BY <2>8 DEF RingKept, Unread
    <3> DEFINE n == m - a
    <3>2. Unread' = n + 1 /\ n \in 0 .. RingSize - 1 /\ Unread = n
      BY <1>2, <2>2, <2>11, <2>3, <2>4, <3>1 DEF Unread
    <3> HIDE DEF m, a
    <3>3. tail' = Wrap(head + (n + 1))
      <4>1. tail = Wrap(head + n) /\ n \in Int /\ head + n \in Int
        BY <2>2, <3>1, <3>2
      <4>2. CASE head + n >= RingSize
        <5>1. /\ tail = head + n - RingSize /\ tail + 1 < RingSize
          BY <2>2, <2>11, <3>2, <4>1, <4>2 DEF Wrap
        <5>2. head \in Int /\ tail \in Int /\ n \in Int /\ RingSize \in Int
          BY <2>2, <2>11, <3>2
        <5>3. Wrap(tail + 1) = tail + 1
          BY <5>1, <5>2 DEF Wrap
        <5>4. Wrap(head + (n + 1)) = (head + (n + 1)) - RingSize
          BY <4>2, <5>2 DEF Wrap
        <5> QED BY <2>6, <5>1, <5>2, <5>3, <5>4
      <4>3. CASE ~(head + n >= RingSize)
        <5>1. tail = head + n
          BY <4>1, <4>3 DEF Wrap
        <5>2. tail + 1 = head + (n + 1)
          BY <2>2, <4>1, <5>1
        <5> QED BY <2>6, <5>2
      <4> QED BY <4>2, <4>3
    <3>4. ASSUME NEW j \in 0 .. n
          PROVE  ring'[Wrap(head + j)] = [key |-> a + 1 + j, upper |-> typed'[a + 1 + j]]
      <4>1. CASE j = n
        <5>1. Wrap(head + j) = tail /\ a + 1 + j = m + 1
          BY <2>4, <3>1, <3>2, <4>1
        <5> QED BY <5>1, <2>3, <2>7
      <4>2. CASE j # n
        <5>1. /\ Wrap(head + j) \in 0 .. RingSize - 1 /\ Wrap(head + j) # tail
          <6>1. head \in 0 .. RingSize - 1 /\ n \in 0 .. RingSize - 1 /\ j \in 0 .. n /\ j # n
            BY <2>2, <3>2, <4>2
          <6>2. tail = Wrap(head + n)
            BY <3>1, <3>2
          <6> HIDE DEF n
          <6> QED BY <2>11, <6>1, <6>2, WrapApart
        <5>2. j \in 0 .. Unread - 1 /\ a + 1 + j \in 1 .. m
          BY <2>4, <3>2, <4>2
        <5>3. ring[Wrap(head + j)] = [key |-> a + 1 + j, upper |-> typed[a + 1 + j]]
          BY <2>8, <5>2 DEF RingKept, a
        <5> QED BY <5>1, <5>2, <5>3, <2>3, <2>7
      <4> QED BY <4>1, <4>2
    <3>5. count' = IF polling' \in {"count", "store"} THEN Unread' + 1 ELSE Unread'
      BY <2>1, <2>2, <3>1, <3>2
    <3>6. n + 1 \in 0 .. RingSize /\ 0 .. (n + 1) - 1 = 0 .. n
      BY <3>2, <2>11
    <3>7. RingKept'
      BY <2>8, <3>2, <3>3, <3>4, <3>5, <3>6 DEF RingKept, Wrap, a
    <3>8. \A i \in 1 .. a : i \in 1 .. m
      BY <2>4, <3>2
    <3>9. KeysRead'
      BY <2>3, <2>8, <3>8 DEF KeysRead, a
    <3> QED BY <3>7, <3>9
  <2>9. clobbered => RingKept' /\ KeysRead'
    BY DEF RingKept, KeysRead
  <2>10. count' \in Int
    BY <2>1, <2>2
  <2> QED BY <2>3, <2>6, <2>7, <2>8, <2>9, <2>10
<1> QED BY <1>1, <1>2

\* The mouse's next byte.
Due(b) == b.of = (sent \div 3) + 1 /\ b.index = (sent % 3) + 1

\* It is taken or lost.
Arrives(b) ==
    \/ Input!Accept(b) /\ UNCHANGED lost
    \/ lost' = lost + 1 /\ UNCHANGED <<packet, pointer, ready, spoiled, missed>>

\* A byte of the mouse: a packet in disorder shows that a byte was lost.
LEMMA AcceptKept ==
    ASSUME InputTypes, PointerKept, PacketKept, NEW b \in Input!Byte, sent' = sent + 1,
           Due(b),
           Arrives(b), plain' = plain, seen' = seen, polling' = polling
    PROVE  /\ PointerKept' /\ PacketKept'
           /\ pointer' \in Mouse /\ ready' \in BOOLEAN /\ missed' \in BOOLEAN
           /\ sent' \in Nat /\ lost' \in Nat /\ spoiled' \in Nat
<1> DEFINE p == Len(packet)
<1>1. /\ sent \in Nat /\ lost \in Nat /\ spoiled \in Nat /\ plain \in BOOLEAN
      /\ pointer \in Mouse /\ ready \in BOOLEAN /\ missed \in BOOLEAN
  BY DEF InputTypes
<1>2. packet \in Seq(Input!Byte) /\ p \in Nat /\ p <= 2
  BY DEF PacketKept
<1>9. \A i \in 1 .. p : packet[i] \in Input!Byte
  BY <1>2
<1>3. sent' \in Nat /\ lost + 1 \in Nat /\ spoiled + 1 \in Nat
  BY <1>1
<1>4. b.of \in Int /\ b.index \in Int /\ (b.index = 1 => sent = 3 * (b.of - 1))
  <2> DEFINE d == sent \div 3
             r == sent % 3
  <2>1. d \in Int
    BY <1>1
  <2>2. r \in Int
    BY <1>1
  <2>3. sent = 3 * d + r
    BY <1>1
  <2>4. b.of = d + 1 /\ b.index = r + 1
    BY DEF Due
  <2> HIDE DEF d, r
  <2> QED BY <2>1, <2>2, <2>3, <2>4
<1>8. \A o \in Int : sent - 3 * (o - 1) - 2 = 0 => b.of = o
  <2> SUFFICES ASSUME NEW o \in Int, sent = 3 * (o - 1) + 2 PROVE (sent \div 3) + 1 = o
    BY <1>1 DEF Due
  <2> QED BY <1>1
<1> HIDE DEF p
<1>5. p > 0 => packet[1] \in Input!Byte /\ packet[1].of \in Int
  <2> SUFFICES ASSUME p > 0 PROVE packet[1] \in Input!Byte /\ packet[1].of \in Int
    OBVIOUS
  <2>1. packet[1] \in Input!Byte
    BY <1>2, <1>9
  <2> QED BY <2>1, InputAssumption DEF Input!Byte
<1>6. CASE lost' = lost + 1 /\ UNCHANGED <<packet, pointer, ready, spoiled, missed>>
  <2>1. p > 0 => Gap \in Int /\ Gap' = Gap + 1
    BY <1>1, <1>2, <1>5, <1>6 DEF Gap, p
  <2>2. plain => spoiled <= lost + 1
    BY <1>1 DEF PacketKept, p
  <2>3. ASSUME plain, p > 0
        PROVE  packet[1].index = 1 /\ Gap + 1 \in Nat /\ spoiled + (Gap + 1) <= lost + 1
    <3>1. packet[1].index = 1 /\ Gap \in Nat /\ spoiled + Gap <= lost
      BY <2>3 DEF PacketKept, p
    <3> QED BY <3>1, <1>1
  <2>4. PacketKept'
    BY <1>2, <1>6, <2>1, <2>2, <2>3 DEF PacketKept, p
  <2>5. PointerKept'
    BY <1>6, PointerUnchanged
  <2> QED BY <1>1, <1>3, <1>6, <2>4, <2>5
<1>7. CASE Input!Accept(b) /\ UNCHANGED lost
  <2>1. CASE ~Input!Synced(b)
    <3>1. UNCHANGED <<packet, pointer, ready, spoiled, missed>> /\ p = 0
      BY <1>2, <1>7, <2>1 DEF Input!Accept, Input!Synced, p
    <3>2. PacketKept'
      BY <1>2, <1>7, <3>1 DEF PacketKept, p
    <3>8. PointerKept'
      BY <3>1, PointerUnchanged
    <3> QED BY <1>1, <1>3, <1>7, <3>1, <3>2, <3>8
  <2>2. CASE p < 2 /\ Input!Synced(b)
    <3>1. packet' = Append(packet, b) /\ UNCHANGED <<pointer, ready, spoiled, missed>>
      BY <1>7, <2>2 DEF Input!Accept, p
    <3>2. /\ packet' \in Seq(Input!Byte) /\ Len(packet') = p + 1
          /\ p > 0 => packet'[1] = packet[1]
          /\ p = 0 => packet'[1] = b
      BY <1>2, <3>1 DEF p
    <3>6. Gap' = (sent + 1) - 3 * (packet'[1].of - 1) - (p + 1)
      BY <3>2 DEF Gap
    <3>3. ASSUME plain
          PROVE  packet'[1].index = 1 /\ Gap' \in Nat /\ spoiled + Gap' <= lost
      <4>1. CASE p = 0
        <5>1. b.index = 1
          BY <2>2, <3>3, <4>1 DEF Input!Synced, p
        <5>2. sent = 3 * (b.of - 1)
          BY <1>4, <5>1
        <5>3. Gap' = sent + 1 - 3 * (b.of - 1) - (p + 1)
          <6>1. packet'[1] = b
            BY <3>2, <4>1
          <6>2. packet'[1].of = b.of
            BY <6>1
          <6> QED BY <1>1, <1>2, <1>4, <3>6, <6>2
        <5>4. Gap' = 0
          BY <1>1, <1>4, <4>1, <5>2, <5>3
        <5>5. spoiled <= lost
          BY <3>3 DEF PacketKept, p
        <5> QED BY <1>1, <3>2, <4>1, <5>1, <5>4, <5>5
      <4>2. CASE p > 0
        <5>1. packet[1].index = 1 /\ Gap \in Nat /\ spoiled + Gap <= lost
          BY <3>3, <4>2 DEF PacketKept, p
        <5>2. Gap' = Gap
          <6> DEFINE base == 3 * (packet[1].of - 1)
          <6>1. Gap' = (sent + 1) - base - (p + 1)
            BY <3>2, <3>6, <4>2
          <6>2. Gap = sent - base - p
            BY DEF Gap, p
          <6>3. base \in Int
            BY <1>5, <4>2
          <6> HIDE DEF base, p
          <6> QED BY <1>1, <1>2, <6>1, <6>2, <6>3
        <5> QED BY <3>2, <4>2, <5>1, <5>2
      <4> QED BY <1>2, <4>1, <4>2
    <3>4. Len(packet') <= 2
      BY <1>2, <2>2, <3>2
    <3>5. PacketKept'
      BY <1>7, <3>1, <3>2, <3>3, <3>4 DEF PacketKept, p
    <3>8. PointerKept'
      BY <3>1, PointerUnchanged
    <3> QED BY <1>1, <1>3, <1>7, <3>1, <3>5, <3>8
  <2>3. CASE Input!Synced(b) /\ ~(p < 2)
    <3>1. p = 2
      BY <1>2, <2>3
    <3>2. /\ packet' = <<>> /\ ready' = TRUE
          /\ pointer' = [x |-> Input!Moved(packet[2].delta), pressed |-> packet[1].pressed]
          /\ missed' = (missed \/ polling = "clear ready")
          /\ spoiled' = IF packet[1].index = 1 /\ b.of = packet[1].of THEN spoiled ELSE spoiled + 1
      BY <1>7, <2>3 DEF Input!Accept, p
    <3>3. pointer' \in Mouse
      <4>1. packet[1] \in Input!Byte /\ packet[2] \in Input!Byte
        BY <1>9, <3>1
      <4>2. packet[1].pressed \in BOOLEAN /\ packet[2].delta \in Int /\ pointer.x \in Int
        BY <1>1, <4>1 DEF Input!Byte, Mouse
      <4>3. Input!Moved(packet[2].delta) \in Int
        <5>1. /\ pointer.x + packet[2].delta \in Int /\ PointerWidth - 1 \in Int
              /\ 0 \in Int
          BY <4>2, InputAssumption
        <5> DEFINE q == pointer.x + packet[2].delta
        <5>2. Input!Moved(packet[2].delta) = IF q < 0 THEN 0 ELSE IF q >= PointerWidth THEN PointerWidth - 1 ELSE q
          BY DEF Input!Moved
        <5> HIDE DEF q
        <5>3. q \in Int
          BY <5>1 DEF q
        <5> QED BY <5>1, <5>2, <5>3
      <4>4. \A v \in Int, w \in BOOLEAN : [x |-> v, pressed |-> w] \in Mouse
        BY DEF Mouse
      <4>5. pointer' = [x |-> Input!Moved(packet[2].delta), pressed |-> packet[1].pressed]
        BY <3>2
      <4> QED BY <4>2, <4>3, <4>4, <4>5, Zenon
    <3>4. ASSUME plain
          PROVE  spoiled' <= lost
      <4>1. packet[1].index = 1 /\ Gap \in Nat /\ spoiled + Gap <= lost
        BY <3>1, <3>4 DEF PacketKept, p
      <4>2. Gap = sent - 3 * (packet[1].of - 1) - 2 /\ packet[1].of \in Int
        BY <3>1, <1>5 DEF Gap, p
      <4>3. Gap = 0 => b.of = packet[1].of
        BY <4>2, <1>8
      <4>4. CASE Gap = 0
        <5>1. spoiled' = spoiled
          BY <3>2, <4>1, <4>3, <4>4
        <5>2. spoiled <= lost
          BY <3>4 DEF PacketKept
        <5> QED BY <5>1, <5>2
      <4>5. CASE Gap # 0
        <5>1. spoiled' \in {spoiled, spoiled + 1}
          BY <3>2
        <5>2. spoiled + 1 <= lost /\ spoiled <= lost
          BY <1>1, <4>1, <4>5
        <5> QED BY <5>1, <5>2
      <4> QED BY <4>4, <4>5
    <3>5. PacketKept'
      <4>1. Len(<<>>) = 0 /\ <<>> \in Seq(Input!Byte)
        OBVIOUS
      <4>2. ~(0 > 0) /\ 0 <= 2
        OBVIOUS
      <4>3. packet' = <<>> /\ UNCHANGED <<plain, lost>>
        BY <1>7, <3>2
      <4> QED BY <3>4, <4>1, <4>2, <4>3 DEF PacketKept
    <3>6. spoiled' \in Nat /\ missed' \in BOOLEAN /\ ready' \in BOOLEAN
      BY <1>1, <1>3, <3>2
    <3>7. PointerKept'
      BY <3>2, <1>1 DEF PointerKept
    <3> QED BY <1>1, <1>3, <1>7, <3>3, <3>5, <3>6, <3>7
  <2> QED BY <2>1, <2>2, <2>3
<1> QED BY <1>6, <1>7 DEF Arrives

\* Every step of the handlers and of the loop they interrupt keeps InputInv.
LEMMA InputStep ==
    ASSUME InputInv, Input!Next
    PROVE  InputInv'
<1>0. /\ InputTypes /\ RingKept /\ KeysRead /\ PointerKept /\ PacketKept
      /\ Input!RequestsServed
  BY DEF InputInv
<1> USE DEF Input!Goto, Input!keyVars, Input!mouseVars, Input!syncVars
<1>1. ASSUME NEW upper \in BOOLEAN, Input!Push(upper),
             UNCHANGED <<head, held, answers, clobbered, changes, Input!mouseVars, Input!syncVars, polling, load>>
      PROVE  InputInv'
  <2>1. /\ RingKept' /\ KeysRead'
        /\ ring' \in [0 .. RingSize - 1 -> Key] /\ tail' \in 0 .. RingSize - 1
        /\ count' \in Int /\ typed' \in Seq(BOOLEAN)
    BY <1>0, <1>1, PushKept
  <2>2. InputTypes'
    BY <1>0, <1>1, <2>1 DEF InputTypes
  <2>3. PointerKept' /\ PacketKept'
    BY <1>0, <1>1, PointerUnchanged, PacketUnchanged
  <2>4. Input!RequestsServed'
    BY <1>0, <1>1 DEF Input!RequestsServed
  <2> QED BY <2>1, <2>2, <2>3, <2>4 DEF InputInv
<1>2. CASE Input!Letter \/ Input!Special
  <2>1. (("shift" \in held) # ("caps" \in held)) \in BOOLEAN
    OBVIOUS
  <2> QED BY <1>1, <1>2, <2>1 DEF Input!Letter, Input!Special
<1>3. CASE Input!Modifier
  <2>1. UNCHANGED <<ring, head, tail, count, typed, answers, clobbered, Input!mouseVars, Input!syncVars, polling, load>>
    BY <1>3 DEF Input!Modifier
  <2>2. InputTypes' /\ Input!RequestsServed'
    BY <1>0, <2>1 DEF InputTypes, Input!RequestsServed
  <2>3. PointerKept' /\ PacketKept' /\ RingKept' /\ KeysRead'
    BY <1>0, <2>1, PointerUnchanged, PacketUnchanged, KeysUnchanged
  <2> QED BY <2>2, <2>3 DEF InputInv
<1>4. CASE Input!MouseByte
  <2>1. PICK b \in Input!Byte : Due(b) /\ Arrives(b)
    BY <1>4 DEF Input!MouseByte, Due, Arrives
  <2>2. sent' = sent + 1 /\ UNCHANGED <<plain, seen, Input!keyVars, Input!syncVars, polling, load>>
    BY <1>4 DEF Input!MouseByte
  <2>3. /\ PointerKept' /\ PacketKept'
        /\ pointer' \in Mouse /\ ready' \in BOOLEAN /\ missed' \in BOOLEAN
        /\ sent' \in Nat /\ lost' \in Nat /\ spoiled' \in Nat
    <3>1. plain' = plain /\ seen' = seen /\ polling' = polling /\ sent' = sent + 1
      BY <2>2
    <3> QED BY <1>0, <2>1, <3>1, AcceptKept
  <2>4. InputTypes' /\ Input!RequestsServed'
    BY <1>0, <2>2, <2>3 DEF InputTypes, Input!RequestsServed
  <2>5. RingKept' /\ KeysRead'
    BY <1>0, <2>2, KeysUnchanged
  <2> QED BY <2>3, <2>4, <2>5 DEF InputInv
<1>5. CASE Input!TimerRequest
  <2>1. pending' = TRUE /\ owed' = TRUE /\ UNCHANGED <<Input!keyVars, Input!mouseVars, polling, load>>
    BY <1>5 DEF Input!TimerRequest
  <2>2. InputTypes' /\ Input!RequestsServed'
    BY <1>0, <2>1 DEF InputTypes, Input!RequestsServed
  <2>3. PointerKept' /\ PacketKept' /\ RingKept' /\ KeysRead'
    BY <1>0, <2>1, PointerUnchanged, PacketUnchanged, KeysUnchanged
  <2> QED BY <2>2, <2>3 DEF InputInv
<1>6. CASE Input!TestFlag \/ Input!ClearFlag \/ Input!Sync
  <2>1. /\ UNCHANGED <<Input!keyVars, Input!mouseVars, load>>
        /\ polling \in {"flag", "clear flag", "sync"} /\ polling' \in {"clear flag", "mouse", "sync"}
    BY <1>6 DEF Input!TestFlag, Input!ClearFlag, Input!Sync
  <2>2. InputTypes'
    BY <1>0, <2>1 DEF InputTypes
  <2>3. Input!RequestsServed'
    BY <1>0, <1>6 DEF Input!RequestsServed, Input!TestFlag, Input!ClearFlag, Input!Sync
  <2>4. PacketKept' /\ RingKept' /\ KeysRead'
    BY <1>0, <2>1, PacketUnchanged, KeysUnchanged
  <2>5. PointerKept'
    BY <1>0, <2>1 DEF PointerKept
  <2> QED BY <2>2, <2>3, <2>4, <2>5 DEF InputInv
<1>7. CASE Input!CopyState
  <2>1. /\ polling = "mouse" /\ polling' = (IF ready THEN "clear ready" ELSE "keys")
        /\ seen' = IF ready THEN [seen EXCEPT !.pressed = pointer.pressed] ELSE seen
        /\ UNCHANGED <<packet, pointer, ready, sent, plain, lost, spoiled, missed, Input!keyVars, Input!syncVars, load>>
    BY <1>7 DEF Input!CopyState
  <2>2. seen \in Mouse /\ pointer \in Mouse
    BY <1>0 DEF InputTypes
  <2>3. seen' \in Mouse /\ (ready => seen'.pressed = pointer.pressed)
    BY <2>1, <2>2 DEF Mouse
  <2>4. InputTypes' /\ Input!RequestsServed'
    BY <1>0, <2>1, <2>3 DEF InputTypes, Input!RequestsServed
  <2>5. PacketKept' /\ RingKept' /\ KeysRead'
    BY <1>0, <2>1, PacketUnchanged, KeysUnchanged
  <2>6. PointerKept'
    BY <1>0, <2>1, <2>3 DEF PointerKept
  <2> QED BY <2>4, <2>5, <2>6 DEF InputInv
<1>8. CASE Input!ClearReady
  <2>1. /\ polling = "clear ready" /\ polling' = "position" /\ ready' = FALSE
        /\ UNCHANGED <<packet, pointer, sent, plain, lost, spoiled, seen, missed, Input!keyVars, Input!syncVars, load>>
    BY <1>8 DEF Input!ClearReady
  <2>2. InputTypes' /\ Input!RequestsServed'
    BY <1>0, <2>1 DEF InputTypes, Input!RequestsServed
  <2>3. PacketKept' /\ RingKept' /\ KeysRead'
    BY <1>0, <2>1, PacketUnchanged, KeysUnchanged
  <2>4. PointerKept'
    BY <1>0, <2>1 DEF PointerKept
  <2> QED BY <2>2, <2>3, <2>4 DEF InputInv
<1>9. CASE Input!ReadPosition
  <2>1. /\ polling = "position" /\ polling' = "keys" /\ seen' = [seen EXCEPT !.x = pointer.x]
        /\ UNCHANGED <<packet, pointer, ready, sent, plain, lost, spoiled, missed, Input!keyVars, Input!syncVars, load>>
    BY <1>9 DEF Input!ReadPosition
  <2>2. seen \in Mouse /\ pointer \in Mouse
    BY <1>0 DEF InputTypes
  <2>3. seen' \in Mouse /\ (seen.pressed = pointer.pressed => seen' = pointer)
    BY <2>1, <2>2 DEF Mouse
  <2>4. InputTypes' /\ Input!RequestsServed'
    BY <1>0, <2>1, <2>3 DEF InputTypes, Input!RequestsServed
  <2>5. PacketKept' /\ RingKept' /\ KeysRead'
    BY <1>0, <2>1, PacketUnchanged, KeysUnchanged
  <2>6. PointerKept'
    BY <1>0, <2>1, <2>3 DEF PointerKept
  <2> QED BY <2>4, <2>5, <2>6 DEF InputInv
<1>10. CASE Input!TakeKey
  <2>1. UNCHANGED <<ring, tail, count, held, typed, clobbered, changes, Input!mouseVars, Input!syncVars, load>>
    BY <1>10 DEF Input!TakeKey
  <2>2. /\ polling = "keys" /\ polling' = (IF count = 0 THEN "draw" ELSE "count")
        /\ IF count = 0
           THEN UNCHANGED <<answers, head>>
           ELSE answers' = Append(answers, ring[head]) /\ head' = (head + 1) % RingSize
    BY <1>10 DEF Input!TakeKey
  <2>3. PacketKept' /\ Input!RequestsServed' /\ PointerKept'
    BY <1>0, <2>1, <2>2, PacketUnchanged DEF Input!RequestsServed, PointerKept
  <2>4. CASE count = 0
    BY <1>0, <2>1, <2>2, <2>3, <2>4, KeysUnchanged DEF InputInv, InputTypes
  <2>5. CASE count # 0
    <3>1. /\ polling' = "count" /\ answers' = Append(answers, ring[head])
          /\ head' = (head + 1) % RingSize
      BY <2>2, <2>5
    <3>2. /\ ring \in [0 .. RingSize - 1 -> Key] /\ head \in 0 .. RingSize - 1
          /\ answers \in Seq(Key) /\ count \in Int /\ RingSize \in Nat
          /\ typed \in Seq(BOOLEAN)
      BY <1>0, InputAssumption DEF InputTypes
    <3>9. Len(typed) \in Nat
      BY <3>2
    <3> DEFINE a == Len(answers)
    <3>3. ring[head] \in Key
      BY <3>2
    <3>4. /\ answers' \in Seq(Key) /\ Len(answers') = a + 1 /\ answers'[a + 1] = ring[head]
          /\ \A i \in 1 .. a : answers'[i] = answers[i]
          /\ a \in Nat
      BY <3>1, <3>2, <3>3
    <3>5. head' = Wrap(head + 1) /\ head' \in 0 .. RingSize - 1 /\ Wrap(head) = head
      BY <3>1, <3>2, WrapIs
    <3>6. InputTypes'
      BY <1>0, <2>1, <3>1, <3>4, <3>5 DEF InputTypes
    <3>7. ASSUME ~clobbered
          PROVE  RingKept' /\ KeysRead'
      <4> DEFINE n == Len(typed) - a
      <4>1. /\ n \in 0 .. RingSize /\ tail = Wrap(head + n) /\ count = n
            /\ \A j \in 0 .. n - 1 : ring[Wrap(head + j)] = [key |-> a + 1 + j, upper |-> typed[a + 1 + j]]
        BY <1>0, <2>2, <3>7 DEF RingKept, Unread
      <4>2. n > 0 /\ n - 1 \in Nat /\ n \in Int
        BY <2>5, <4>1
      <4>3. Unread' = n - 1
        BY <2>1, <3>2, <3>9, <3>4 DEF Unread
      <4> HIDE DEF n, a
      <4>4. \A j \in 0 .. n - 1 : Wrap(head' + j) = Wrap(head + (j + 1))
        BY <3>2, <3>5, <4>1, <4>2 DEF Wrap
      <4>5. tail = Wrap(head' + (n - 1))
        <5>1. n - 1 \in 0 .. n - 1 /\ (n - 1) + 1 = n
          BY <4>2
        <5> QED BY <4>1, <4>4, <5>1
      <4>6. ASSUME NEW j \in 0 .. (n - 1) - 1
            PROVE  ring[Wrap(head' + j)] = [key |-> (a + 1) + 1 + j, upper |-> typed[(a + 1) + 1 + j]]
        <5>1. j \in 0 .. n - 1 /\ j + 1 \in 0 .. n - 1 /\ a + 1 + (j + 1) = (a + 1) + 1 + j
          BY <3>4, <4>2
        <5> QED BY <4>1, <4>4, <5>1
      <4>7. ring[head] = [key |-> a + 1, upper |-> typed[a + 1]]
        <5>1. 0 \in 0 .. n - 1 /\ head + 0 = head /\ a + 1 + 0 = a + 1
          BY <3>2, <3>4, <4>2
        <5> QED BY <3>5, <4>1, <5>1
      <4>8. RingKept'
        <5>1. n - 1 \in 0 .. RingSize /\ count = (n - 1) + 1
          BY <3>2, <4>1, <4>2
        <5> QED BY <2>1, <3>1, <3>4, <4>3, <4>5, <4>6, <5>1 DEF RingKept, Wrap
      <4>9. KeysRead'
        <5>1. \A i \in 1 .. a + 1 : i = a + 1 \/ i \in 1 .. a
          BY <3>4
        <5>2. \A i \in 1 .. a : answers[i] = [key |-> i, upper |-> typed[i]]
          BY <1>0, <3>7 DEF KeysRead, a
        <5>3. \A i \in 1 .. a + 1 : answers'[i] = [key |-> i, upper |-> typed[i]]
          BY <3>4, <4>7, <5>1, <5>2
        <5> QED BY <2>1, <3>4, <5>3 DEF KeysRead
      <4> QED BY <4>8, <4>9
    <3>8. clobbered => RingKept' /\ KeysRead'
      BY <2>1 DEF RingKept, KeysRead
    <3> QED BY <2>3, <3>6, <3>7, <3>8 DEF InputInv
  <2> QED BY <2>4, <2>5
<1>11. CASE Input!LoadCount
  <2>1. /\ polling = "count" /\ polling' = "store" /\ load' = count
        /\ UNCHANGED <<Input!keyVars, Input!mouseVars, Input!syncVars>>
    BY <1>11 DEF Input!LoadCount
  <2>2. InputTypes' /\ Input!RequestsServed' /\ PointerKept'
    BY <1>0, <2>1 DEF InputTypes, Input!RequestsServed, PointerKept
  <2>3. PacketKept' /\ RingKept' /\ KeysRead'
    BY <1>0, <2>1, PacketUnchanged, KeysUnchanged
  <2> QED BY <2>2, <2>3 DEF InputInv
<1>12. CASE Input!StoreCount \/ Input!LowerCount
  <2>1. /\ polling \in {"count", "store"} /\ polling' = "keys" /\ load' \in {load, 0}
        /\ UNCHANGED <<ring, head, tail, held, typed, answers, changes, Input!mouseVars, Input!syncVars>>
    BY <1>12 DEF Input!StoreCount, Input!LowerCount
  <2>2. /\ count' \in {load - 1, count - 1} /\ clobbered' \in BOOLEAN
        /\ ~clobbered' => ~clobbered /\ count' = count - 1
    <3>1. clobbered \in BOOLEAN
      BY <1>0 DEF InputTypes
    <3>2. CASE Input!StoreCount
      <4>1. count' = load - 1 /\ clobbered' = (clobbered \/ load # count)
        BY <3>2 DEF Input!StoreCount
      <4>2. clobbered' \in BOOLEAN /\ (~clobbered' => ~clobbered /\ load = count)
        BY <4>1
      <4> QED BY <4>1, <4>2
    <3>3. CASE Input!LowerCount
      BY <3>1, <3>3 DEF Input!LowerCount
    <3> QED BY <1>12, <3>2, <3>3
  <2>3. load' \in Int /\ count' \in Int
    <3>1. load \in Int /\ count \in Int
      BY <1>0 DEF InputTypes
    <3>2. load - 1 \in Int /\ count - 1 \in Int
      BY <3>1
    <3> QED BY <2>1, <2>2, <3>1, <3>2
  <2>4. InputTypes' /\ Input!RequestsServed' /\ PointerKept'
    BY <1>0, <2>1, <2>2, <2>3 DEF InputTypes, Input!RequestsServed, PointerKept
  <2>5. PacketKept'
    BY <1>0, <2>1, PacketUnchanged
  <2>6. KeysRead'
    BY <1>0, <2>1, <2>2 DEF KeysRead
  <2>7. ASSUME ~clobbered'
        PROVE  count' = Unread /\ UNCHANGED Unread /\ ~clobbered
    <3>1. ~clobbered /\ count' = count - 1 /\ count = Unread + 1 /\ Unread \in 0 .. RingSize
      BY <1>0, <2>1, <2>2, <2>7 DEF RingKept
    <3>2. UNCHANGED Unread
      BY <2>1 DEF Unread
    <3> QED BY <3>1, <3>2
  <2>8. RingKept'
    BY <1>0, <2>1, <2>7 DEF RingKept, Wrap
  <2> QED BY <2>4, <2>5, <2>6, <2>8 DEF InputInv
<1>13. CASE Input!Draw
  <2>1. PICK mixer \in BOOLEAN : ready' = (ready /\ ~mixer) /\ missed' = (missed \/ (ready /\ mixer))
    BY <1>13 DEF Input!Draw
  <2>2. /\ polling = "draw" /\ polling' = "flag"
        /\ UNCHANGED <<packet, pointer, sent, plain, lost, spoiled, seen, Input!keyVars, Input!syncVars, load>>
    BY <1>13 DEF Input!Draw
  <2>3. ready' \in BOOLEAN /\ missed' \in BOOLEAN
    BY <1>0, <2>1 DEF InputTypes
  <2>4. InputTypes' /\ Input!RequestsServed'
    BY <1>0, <2>2, <2>3 DEF InputTypes, Input!RequestsServed
  <2>5. PacketKept' /\ RingKept' /\ KeysRead'
    BY <1>0, <2>2, PacketUnchanged, KeysUnchanged
  <2>6. PointerKept'
    BY <1>0, <2>1, <2>2 DEF PointerKept
  <2> QED BY <2>4, <2>5, <2>6 DEF InputInv
<1> QED
  BY <1>2, <1>3, <1>4, <1>5, <1>6, <1>7, <1>8, <1>9, <1>10, <1>11, <1>12, <1>13
     DEF Input!Next, Input!Interrupt

\* What the desktop's loop is told by the handlers.
LEMMA InputImplies == ASSUME InputInv PROVE Input!InputSound
<1>0. InputTypes /\ RingKept /\ KeysRead /\ PointerKept /\ PacketKept /\ Input!RequestsServed
  BY DEF InputInv
<1>1. Input!KeysInOrder
  <2> SUFFICES ASSUME ~clobbered
               PROVE  /\ answers = [n \in DOMAIN answers |-> [key |-> n, upper |-> typed[n]]]
                      /\ polling \in {"flag", "mouse", "draw"} => Len(typed) = Len(answers) + count
    BY DEF Input!KeysInOrder
  <2>6. answers \in Seq(Key) /\ typed \in Seq(BOOLEAN)
    BY <1>0 DEF InputTypes
  <2>1. answers = [n \in DOMAIN answers |-> answers[n]] /\ DOMAIN answers = 1 .. Len(answers)
    BY <2>6
  <2>2. \A n \in DOMAIN answers : answers[n] = [key |-> n, upper |-> typed[n]]
    BY <1>0, <2>1 DEF KeysRead
  <2>3. Len(typed) \in Nat /\ Len(answers) \in Nat
    BY <2>6
  <2>4. polling \in {"flag", "mouse", "draw"} => count = Len(typed) - Len(answers)
    BY <1>0 DEF RingKept, Unread
  <2>5. polling \in {"flag", "mouse", "draw"} => Len(typed) = Len(answers) + count
    BY <2>3, <2>4
  <2> QED BY <2>1, <2>2, <2>5
<1>2. Input!PointerSeen
  BY <1>0 DEF PointerKept, Input!PointerSeen
<1>3. Input!Resynchronises
  BY <1>0 DEF PacketKept, Input!Resynchronises
<1> QED BY <1>0, <1>1, <1>2, <1>3 DEF Input!InputSound

\* A step that leaves the variables of this part alone keeps InputInv.
LEMMA InputUnchanged ==
    ASSUME InputInv, UNCHANGED inputVars
    PROVE  InputInv'
<1>1. UNCHANGED <<ring, head, tail, count, held, typed, answers, clobbered, changes>>
  BY DEF inputVars
<1>2. UNCHANGED <<packet, pointer, ready, sent, plain, lost, spoiled, seen, missed>>
  BY DEF inputVars
<1>3. UNCHANGED <<pending, requests, owed, polling, load>>
  BY DEF inputVars
<1>4. RingKept' /\ KeysRead'
  BY <1>1, <1>3, KeysUnchanged DEF InputInv
<1>5. PointerKept'
  BY <1>2, <1>3, PointerUnchanged DEF InputInv
<1>6. PacketKept'
  BY <1>2, PacketUnchanged DEF InputInv
<1>7. InputTypes'
  BY <1>1, <1>2, <1>3 DEF InputInv, InputTypes
<1>8. Input!RequestsServed'
  BY <1>3 DEF InputInv, Input!RequestsServed
<1> QED BY <1>4, <1>5, <1>6, <1>7, <1>8 DEF InputInv

-----------------------------------------------------------------------------
(* Sound: the slots of the mixer, the card, the speaker and the timer. *)

\* The mixer's and the card's view of a source.
Played == [active : BOOLEAN, samples : Int, total : Int, position : Int, loud : BOOLEAN,
           plays : Int]

SoundTypes ==
    /\ source \in [Sound!Slots -> Played]
    /\ buffer \in [Sound!Slots -> Int]
    /\ want \in [sound : Int, length : Int, slot : Int]
    /\ task \in {"idle", "generate", "play", "tone", "ticks", "arm"}
    /\ sounds \in Nat
    /\ tick \in 0 .. Ticks - 1 /\ stopTick \in 0 .. Ticks - 1
    /\ gate \in BOOLEAN /\ beeping \in BOOLEAN
    /\ muted \subseteq Sound!Slots /\ channel \in [Sound!Slots -> BOOLEAN]

\* The slot that was found stays free while its buffer is filled.
SlotKept ==
    task \in {"generate", "play"} => want.slot \in Sound!Slots /\ ~source[want.slot].active

\* Unless a sound was shifted, a source plays from its own buffer, which is
\* filled for no other sound before it ends.
OwnBuffer ==
    ~shifted =>
        /\ \A s \in Sound!Slots : source[s].active =>
              source[s].samples = s /\ buffer[s] = source[s].plays
        /\ task = "play" => buffer[want.slot] = want.sound

\* How far off the tick is that a tone ends at.
Armed(end) == Sound!Signed(end, tick) \in 0 .. MaxLength

ToneKept ==
    /\ task \in {"tone", "ticks"} => want.length \in 1 .. MaxLength
    /\ task = "arm" => want.length \in 0 .. Ticks - 1 /\ Armed(want.length)
    /\ task = "idle" /\ beeping => Armed(stopTick)
    /\ task = "idle" /\ gate => beeping

\* The card and the speaker have their own tasks.
BackendKept ==
    /\ backend \in {"card", "speaker"}
    /\ task \in {"generate", "play"} => backend = "card"
    /\ task \in {"tone", "ticks", "arm"} => backend = "speaker"
    /\ backend = "card" => ~gate /\ ~beeping

SoundInv == SoundTypes /\ BackendKept /\ SlotKept /\ OwnBuffer /\ ToneKept /\ Sound!MutedSilent

\* The difference of two readings, without the remainder.
LEMMA SignedIs ==
    ASSUME NEW a \in 0 .. Ticks - 1, NEW b \in 0 .. Ticks - 1
    PROVE  LET d == IF a >= b THEN a - b ELSE a - b + Ticks
           IN  Sound!Signed(a, b) = IF d < Ticks \div 2 THEN d ELSE d - Ticks
<1>1. Ticks \in Nat /\ Ticks > 0
  BY SoundAssumption
<1>2. (a - b) % Ticks = IF a >= b THEN a - b ELSE a - b + Ticks
  BY <1>1
<1> QED BY <1>2 DEF Sound!Signed

LEMMA SignedInt ==
    ASSUME NEW a \in 0 .. Ticks - 1, NEW b \in 0 .. Ticks - 1
    PROVE  Sound!Signed(a, b) \in Int
<1> DEFINE d == IF a >= b THEN a - b ELSE a - b + Ticks
<1>1. Ticks \in Int /\ d \in Int /\ d - Ticks \in Int
  BY SoundAssumption
<1>2. Sound!Signed(a, b) = d \/ Sound!Signed(a, b) = d - Ticks
  BY SignedIs
<1> HIDE DEF d
<1> QED BY <1>1, <1>2

\* A tone that is not over yet ends at the tick it is to end at, and not before.
LEMMA TickPasses ==
    ASSUME NEW end \in 0 .. Ticks - 1, NEW now \in 0 .. Ticks - 1,
           Sound!Signed(end, now) \in 0 .. MaxLength
    PROVE  LET after == (now + 1) % Ticks
           IN  /\ after \in 0 .. Ticks - 1
               /\ Sound!Signed(after, end) < 0 => Sound!Signed(end, after) \in 0 .. MaxLength
               /\ Sound!Signed(end, now) > 0 => Sound!Signed(end, after) \in 0 .. MaxLength
<1> DEFINE after == IF now + 1 = Ticks THEN 0 ELSE now + 1
           h == Ticks \div 2
<1>1. Ticks \in Nat /\ Ticks > 0 /\ MaxLength \in Nat /\ MaxLength >= 1 /\ MaxLength < h /\ h \in Nat /\ 2 * h <= Ticks
  BY SoundAssumption
<1>2. (now + 1) % Ticks = after /\ after \in 0 .. Ticks - 1
  BY <1>1
<1>3. Sound!Signed(end, now) = LET d == IF end >= now THEN end - now ELSE end - now + Ticks
                               IN  IF d < h THEN d ELSE d - Ticks
  BY SignedIs
<1>4. Sound!Signed(end, after) = LET d == IF end >= after THEN end - after ELSE end - after + Ticks
                                IN  IF d < h THEN d ELSE d - Ticks
  BY <1>2, SignedIs
<1>5. Sound!Signed(after, end) = LET d == IF after >= end THEN after - end ELSE after - end + Ticks
                                IN  IF d < h THEN d ELSE d - Ticks
  BY <1>2, SignedIs
<1> HIDE DEF h
<1>6. \A d \in 0 .. Ticks - 1 : d < h \/ d - Ticks < 0
  BY <1>1
<1>7. ASSUME end = now
      PROVE  Sound!Signed(end, now) = 0 /\ Sound!Signed(after, end) = 1
  BY <1>1, <1>3, <1>5, <1>7
<1>8. ASSUME end # now
      PROVE  Sound!Signed(end, after) = Sound!Signed(end, now) - 1 /\ Sound!Signed(end, now) >= 1
  <2> DEFINE d == IF end >= now THEN end - now ELSE end - now + Ticks
             e == IF end >= after THEN end - after ELSE end - after + Ticks
  <2>1. d \in 1 .. Ticks - 1 /\ e = d - 1
    BY <1>1, <1>2, <1>8
  <2>2. /\ Sound!Signed(end, now) = IF d < h THEN d ELSE d - Ticks
        /\ Sound!Signed(end, after) = IF e < h THEN e ELSE e - Ticks
    BY <1>3, <1>4
  <2> HIDE DEF d, e, after
  <2>3. d < h
    BY <1>1, <2>1, <2>2
  <2>4. e < h
    BY <1>1, <2>1, <2>3
  <2>5. Sound!Signed(end, now) = d /\ Sound!Signed(end, after) = e
    BY <2>2, <2>3, <2>4
  <2>6. d \in Int /\ d >= 1
    BY <1>1, <2>1
  <2> QED BY <2>1, <2>5, <2>6
<1> HIDE DEF after
<1>9. /\ Sound!Signed(after, end) < 0 => Sound!Signed(end, after) \in 0 .. MaxLength
      /\ Sound!Signed(end, now) > 0 => Sound!Signed(end, after) \in 0 .. MaxLength
  <2>1. CASE end = now
    <3>1. Sound!Signed(end, now) = 0 /\ Sound!Signed(after, end) = 1
      BY <1>7, <2>1
    <3>2. ~(1 < 0) /\ ~(0 > 0)
      OBVIOUS
    <3> QED BY <3>1, <3>2
  <2>2. CASE end # now
    BY <1>1, <1>8, <2>2
  <2> QED BY <2>1, <2>2
<1> QED BY <1>2, <1>9

\* A tone ends as far off as it is long.
LEMMA ToneEnds ==
    ASSUME NEW now \in 0 .. Ticks - 1, NEW length \in 1 .. MaxLength
    PROVE  LET end == (now + length) % Ticks
           IN  end \in 0 .. Ticks - 1 /\ Sound!Signed(end, now) \in 0 .. MaxLength
<1> DEFINE end == IF now + length >= Ticks THEN now + length - Ticks ELSE now + length
           h == Ticks \div 2
<1>1. Ticks \in Nat /\ Ticks > 0 /\ MaxLength \in Nat /\ MaxLength >= 1 /\ MaxLength < h /\ h \in Nat /\ 2 * h <= Ticks
  BY SoundAssumption
<1>2. end \in 0 .. Ticks - 1
  BY <1>1
<1>3. (now + length) % Ticks = end
  BY <1>1, <1>2
<1>4. Sound!Signed(end, now) = LET d == IF end >= now THEN end - now ELSE end - now + Ticks
                               IN  IF d < h THEN d ELSE d - Ticks
  BY <1>2, SignedIs
<1> HIDE DEF h
<1> QED BY <1>1, <1>2, <1>3, <1>4

\* The slot that is looked for is one of those that were asked for.
LEMMA LowestFound ==
    ASSUME NEW S \in SUBSET Sound!Slots, S # {}
    PROVE  Sound!Lowest(S) \in S
<1>1. S \subseteq Nat
  BY SoundAssumption DEF Sound!Slots
<1>2. PICK s \in S : TRUE
  OBVIOUS
<1>3. PICK m \in S : \A u \in S : ~ (<<u, m>> \in OpToRel(<, Nat))
  BY <1>1, <1>2, NatLessThanWellFounded, WFMin
<1>5. \A u \in S : ~ (u < m)
  BY <1>1, <1>3, Zenon DEF OpToRel
<1>4. \A u \in S : m <= u
  BY <1>1, <1>5
<1> QED BY <1>4 DEF Sound!Lowest

\* Nothing is played at first.
LEMMA SoundStart == ASSUME Sound!Init PROVE SoundInv
<1>1. \A s \in Sound!Slots : source[s] = Sound!Silent /\ buffer[s] = 0 /\ Sound!Silent \in Played
  BY SoundAssumption DEF Sound!Init, Sound!Silent, Played, Sound!NoSlot
<1>2. SoundTypes
  <2>1. source \in [Sound!Slots -> Played] /\ buffer \in [Sound!Slots -> Int]
    BY <1>1 DEF Sound!Init
  <2>2. want \in [sound : Int, length : Int, slot : Int]
    BY SoundAssumption DEF Sound!Init, Sound!NoSlot
  <2>3. tick \in 0 .. Ticks - 1 /\ stopTick = 0 /\ 0 \in 0 .. Ticks - 1
    BY SoundAssumption DEF Sound!Init
  <2>4. muted \subseteq Sound!Slots /\ channel \in [Sound!Slots -> BOOLEAN]
    BY DEF Sound!Init
  <2> QED BY <2>1, <2>2, <2>3, <2>4 DEF Sound!Init, SoundTypes
<1>3. \A s \in Sound!Slots : ~source[s].active
  BY <1>1 DEF Sound!Silent
<1>4. task = "idle" /\ gate = FALSE /\ beeping = FALSE /\ muted = {}
  BY DEF Sound!Init
<1>5. backend \in {"card", "speaker"}
  BY DEF Sound!Init
<1> QED BY <1>2, <1>3, <1>4, <1>5 DEF SoundInv, BackendKept, SlotKept, OwnBuffer, ToneKept, Sound!MutedSilent

\* A step that leaves the variables of SoundInv alone keeps it.
LEMMA SoundUnchanged ==
    ASSUME SoundInv,
           UNCHANGED <<backend, channel, muted, restarted, source, buffer, shifted>>,
           UNCHANGED <<tick, gate, beeping, stopTick, task, want, sounds>>
    PROVE  SoundInv'
<1> SUFFICES /\ SoundTypes' /\ BackendKept' /\ SlotKept' /\ OwnBuffer' /\ ToneKept'
             /\ Sound!MutedSilent'
  BY DEF SoundInv
<1> QED
  BY DEF SoundInv, SoundTypes, BackendKept, SlotKept, OwnBuffer, ToneKept, Armed, Sound!Signed,
         Sound!MutedSilent

\* Every step of mixer, card, speaker and timer keeps SoundInv.
LEMMA SoundStep ==
    ASSUME SoundInv, Sound!Next
    PROVE  SoundInv'
<1>0. SoundTypes /\ BackendKept /\ SlotKept /\ OwnBuffer /\ ToneKept /\ Sound!MutedSilent
  BY DEF SoundInv
<1>11. UNCHANGED <<backend, task, gate, beeping>> => BackendKept'
  BY <1>0 DEF BackendKept
<1>1. CASE Sound!CardInterrupt
  <2>1. /\ source' = [s \in Sound!Slots |-> Sound!Advance(source[s])]
        /\ UNCHANGED <<buffer, shifted, backend>>
    BY <1>1 DEF Sound!CardInterrupt
  <2>2. UNCHANGED <<task, want, masked, sounds, tick, gate, beeping, stopTick, muted, restarted, channel>>
    BY <1>1 DEF Sound!CardInterrupt, Sound!speakerVars, Sound!mixerVars, Sound!taskVars
  <2>3. ASSUME NEW s \in Sound!Slots
        PROVE  /\ source'[s] \in Played
               /\ source'[s].active => source[s].active
               /\ source'[s].samples = source[s].samples /\ source'[s].plays = source[s].plays
               /\ source'[s].loud = source[s].loud
    <3>1. source[s] \in Played /\ source'[s] = Sound!Advance(source[s])
      BY <1>0, <2>1 DEF SoundTypes
    <3>2. source[s].position \in Int /\ source[s].total \in Int
      BY <3>1 DEF Played
    <3>3. (source[s].position + 1 < source[s].total) \in BOOLEAN /\ source[s].position + 1 \in Int
      BY <3>2
    <3> QED BY <3>1, <3>3 DEF Sound!Advance, Played
  <2>4. SoundTypes'
    BY <1>0, <2>1, <2>2, <2>3 DEF SoundTypes
  <2>5. SlotKept' /\ OwnBuffer'
    BY <1>0, <2>1, <2>2, <2>3 DEF SlotKept, OwnBuffer
  <2>6. ToneKept'
    BY <1>0, <2>2 DEF ToneKept, Armed, Sound!Signed
  <2>7. Sound!MutedSilent'
    BY <1>0, <2>2, <2>3 DEF Sound!MutedSilent, SoundTypes
  <2> QED BY <1>11, <2>1, <2>2, <2>4, <2>5, <2>6, <2>7 DEF SoundInv
<1>2. CASE Sound!TimerInterrupt
  <2>1. /\ task = "arm" => Sound!Signed(want.length, tick) > 0
        /\ tick' = (tick + 1) % Ticks /\ Sound!Update(tick')
        /\ UNCHANGED <<source, buffer, shifted, muted, restarted, channel, task, want, sounds>>
    BY <1>2 DEF Sound!TimerInterrupt, Sound!cardVars, Sound!mixerVars, Sound!taskVars
  <2>2. tick \in 0 .. Ticks - 1 /\ stopTick \in 0 .. Ticks - 1 /\ gate \in BOOLEAN /\ beeping \in BOOLEAN
    BY <1>0 DEF SoundTypes
  <2>3. PICK now \in 0 .. Ticks - 1 : now = tick' /\ now = (tick + 1) % Ticks
    <3>1. Ticks \in Nat /\ Ticks > 0 /\ tick \in Int
      BY <2>2, SoundAssumption
    <3>2. (tick + 1) % Ticks \in 0 .. Ticks - 1
      BY <3>1
    <3> QED BY <2>1, <3>2
  <2>4. /\ gate' = (gate /\ ~Sound!Expired(now))
        /\ beeping' = (beeping /\ ~Sound!Expired(now))
        /\ stopTick' = IF Sound!Expired(now) THEN 0 ELSE stopTick
    BY <2>1, <2>3 DEF Sound!Update
  <2>5. gate' \in BOOLEAN /\ beeping' \in BOOLEAN
    BY <2>4
  <2>6. stopTick' \in 0 .. Ticks - 1
    <3>1. 0 \in 0 .. Ticks - 1
      BY SoundAssumption
    <3> QED BY <2>2, <2>4, <3>1
  <2>7. SoundTypes'
    BY <1>0, <2>1, <2>3, <2>5, <2>6 DEF SoundTypes
  <2>8. ASSUME task = "idle", beeping'
        PROVE  Sound!Signed(stopTick, now) \in 0 .. MaxLength /\ stopTick' = stopTick
    <3>1. beeping /\ ~Sound!Expired(now) /\ stopTick' = stopTick
      BY <2>4, <2>8
    <3>2. Sound!Signed(stopTick, tick) \in 0 .. MaxLength
      BY <1>0, <2>8, <3>1 DEF ToneKept, Armed
    <3>3. ~(Sound!Signed(now, stopTick) >= 0)
      BY <3>1 DEF Sound!Expired
    <3>4. Sound!Signed(now, stopTick) \in Int
      BY <2>2, SignedInt
    <3>5. Sound!Signed(now, stopTick) < 0
      BY <3>3, <3>4
    <3> QED BY <2>2, <2>3, <3>1, <3>2, <3>5, TickPasses
  <2>9. ASSUME task = "arm"
        PROVE  want.length \in 0 .. Ticks - 1 /\ Sound!Signed(want.length, now) \in 0 .. MaxLength
    <3>1. PICK end \in 0 .. Ticks - 1 : end = want.length
      BY <1>0, <2>9 DEF ToneKept
    <3>2. Sound!Signed(end, tick) \in 0 .. MaxLength /\ Sound!Signed(end, tick) > 0
      BY <1>0, <2>1, <2>9, <3>1 DEF ToneKept, Armed
    <3> QED BY <2>2, <2>3, <3>1, <3>2, TickPasses
  <2>10. task = "idle" /\ gate' => beeping'
    BY <1>0, <2>4 DEF ToneKept
  <2>11. ToneKept'
    BY <1>0, <2>1, <2>3, <2>8, <2>9, <2>10 DEF ToneKept, Armed, Sound!Signed
  <2>12. SlotKept' /\ OwnBuffer' /\ Sound!MutedSilent'
    BY <1>0, <2>1 DEF SlotKept, OwnBuffer, Sound!MutedSilent
  <2>13. BackendKept'
    BY <1>0, <1>2, <2>1 DEF BackendKept, Sound!TimerInterrupt
  <2> QED BY <2>7, <2>11, <2>12, <2>13 DEF SoundInv
<1>3. CASE Sound!Sound
  <2>1. PICK length \in 1 .. MaxLength, sys \in BOOLEAN : Sound!Ask(length, sys)
    BY <1>3 DEF Sound!Sound
  <2>2. UNCHANGED <<backend, source, buffer, shifted, tick, gate, beeping, stopTick, muted, restarted, channel>>
    BY <1>3 DEF Sound!Sound, Sound!cardVars, Sound!speakerVars, Sound!mixerVars
  <2> DEFINE free == {s \in Sound!Slots : Sound!Free(s)}
             slot == Sound!Lowest(free)
  <2>3. /\ task = "idle" /\ sounds' = sounds + 1
        /\ want' = [sound |-> sounds + 1, length |-> length,
                    slot |-> IF backend = "card" THEN slot ELSE Sound!NoSlot]
        /\ task' = IF backend = "speaker" THEN "tone"
                   ELSE IF slot = Sound!NoSlot THEN "idle" ELSE "generate"
    BY <2>1 DEF Sound!Ask
  <2>4. free # {} => slot \in free
    BY LowestFound
  <2>5. free = {} => slot = Sound!NoSlot
    BY DEF Sound!Lowest
  <2> HIDE DEF slot, free
  <2>6. slot \in Int /\ Sound!NoSlot \in Int /\ (slot # Sound!NoSlot => slot \in free)
    BY <2>4, <2>5, SoundAssumption DEF free, Sound!Slots, Sound!NoSlot
  <2>7. sounds \in Nat /\ sounds' \in Nat /\ sounds + 1 \in Int /\ length \in Int
    <3>1. sounds \in Nat
      BY <1>0 DEF SoundTypes
    <3> QED BY <2>3, <3>1
  <2>8. want' \in [sound : Int, length : Int, slot : Int] /\ want'.length = length
    BY <2>3, <2>6, <2>7
  <2>9. SoundTypes'
    BY <1>0, <2>2, <2>3, <2>7, <2>8 DEF SoundTypes
  <2>10. ASSUME task' \in {"generate", "play"}
         PROVE  task' = "generate" /\ (backend = "card" => want'.slot \in free)
    BY <2>3, <2>6, <2>10
  <2>16. task' \in {"generate", "play"} => backend = "card"
    BY <1>0, <2>3 DEF BackendKept
  <2>17. \A s \in free : s \in Sound!Slots /\ ~source[s].active
    BY DEF free, Sound!Free
  <2>11. SlotKept'
    BY <2>2, <2>10, <2>16, <2>17 DEF SlotKept
  <2>12. OwnBuffer'
    BY <1>0, <2>2, <2>3 DEF OwnBuffer
  <2>13. ToneKept'
    BY <1>0, <2>2, <2>3, <2>8 DEF ToneKept, Armed, Sound!Signed
  <2>14. Sound!MutedSilent'
    BY <1>0, <2>2 DEF Sound!MutedSilent
  <2>15. BackendKept'
    BY <1>0, <2>2, <2>3 DEF BackendKept
  <2> QED BY <2>9, <2>11, <2>12, <2>13, <2>14, <2>15 DEF SoundInv
<1>4. CASE Sound!Generate
  <2>1. /\ task = "generate" /\ task' = "play"
        /\ buffer' = [buffer EXCEPT ![want.slot] = want.sound]
        /\ UNCHANGED <<source, shifted, want, masked, sounds>>
        /\ UNCHANGED <<tick, gate, beeping, stopTick, muted, restarted, channel>>
    BY <1>4 DEF Sound!Generate, Sound!speakerVars, Sound!mixerVars
  <2>2. want.slot \in Sound!Slots /\ ~source[want.slot].active /\ want.sound \in Int
    BY <1>0, <2>1 DEF SlotKept, SoundTypes
  <2>3. /\ buffer' \in [Sound!Slots -> Int] /\ buffer'[want.slot] = want.sound
        /\ \A s \in Sound!Slots \ {want.slot} : buffer'[s] = buffer[s]
    BY <1>0, <2>1, <2>2 DEF SoundTypes
  <2>4. SoundTypes'
    BY <1>0, <2>1, <2>3 DEF SoundTypes
  <2>5. SlotKept' /\ Sound!MutedSilent'
    BY <2>1, <2>2, <1>0 DEF SlotKept, Sound!MutedSilent
  <2>6. OwnBuffer'
    BY <1>0, <2>1, <2>2, <2>3 DEF OwnBuffer
  <2>7. ToneKept'
    BY <2>1 DEF ToneKept
  <2>8. BackendKept'
    BY <1>0, <1>4, <2>1 DEF BackendKept, Sound!Generate
  <2> QED BY <2>4, <2>5, <2>6, <2>7, <2>8 DEF SoundInv
<1>5. CASE Sound!Play
  <2> DEFINE free == {s \in Sound!Slots : Sound!Free(s)}
             slot == Sound!Lowest(free)
             new == [active |-> TRUE, samples |-> want.slot, total |-> want.length,
                     position |-> 0, loud |-> TRUE, plays |-> want.sound]
  <2>1. /\ task = "play" /\ task' = "idle"
        /\ source' = [source EXCEPT ![slot] = new]
        /\ shifted' = (shifted \/ slot # want.slot)
        /\ restarted' = restarted \cup {slot}
        /\ UNCHANGED <<buffer, want, sounds, muted, channel>>
        /\ UNCHANGED <<tick, gate, beeping, stopTick>>
    BY <1>5 DEF Sound!Play, Sound!speakerVars
  <2>2. want.slot \in free
    BY <1>0, <2>1 DEF SlotKept, Sound!Free
  <2>3. slot \in Sound!Slots
    BY <2>2, LowestFound
  <2>4. new \in Played
    BY <1>0 DEF Played, SoundTypes
  <2>9. new.active /\ new.samples = want.slot /\ new.plays = want.sound
    OBVIOUS
  <2> HIDE DEF slot, free, new
  <2>5. /\ source' \in [Sound!Slots -> Played] /\ source'[slot] = new
        /\ \A s \in Sound!Slots \ {slot} : source'[s] = source[s]
    BY <1>0, <2>1, <2>3, <2>4 DEF SoundTypes
  <2>6. SoundTypes'
    BY <1>0, <2>1, <2>5 DEF SoundTypes
  <2>7. OwnBuffer'
    <3> SUFFICES ASSUME ~shifted'
                 PROVE  \A s \in Sound!Slots : source'[s].active =>
                            source'[s].samples = s /\ buffer[s] = source'[s].plays
      BY <2>1 DEF OwnBuffer
    <3>1. ~shifted /\ slot = want.slot
      BY <2>1
    <3>2. buffer[want.slot] = want.sound
      BY <1>0, <2>1, <3>1 DEF OwnBuffer
    <3> QED BY <1>0, <2>5, <2>9, <3>1, <3>2 DEF OwnBuffer
  <2>8. SlotKept' /\ Sound!MutedSilent'
    BY <1>0, <2>1, <2>5 DEF SlotKept, Sound!MutedSilent, SoundTypes
  <2>11. ~beeping /\ ~gate /\ UNCHANGED backend
    BY <1>0, <1>5, <2>1 DEF BackendKept, Sound!Play
  <2>10. ToneKept' /\ BackendKept'
    BY <1>0, <2>1, <2>11 DEF ToneKept, BackendKept
  <2> QED BY <2>6, <2>7, <2>8, <2>10 DEF SoundInv
<1>6. CASE Sound!Tone
  <2>1. /\ task = "tone" /\ task' = "ticks" /\ gate' = TRUE
        /\ UNCHANGED <<backend, want, sounds, tick, beeping, stopTick>>
        /\ UNCHANGED <<source, buffer, shifted, muted, restarted, channel>>
    BY <1>6 DEF Sound!Tone, Sound!cardVars, Sound!mixerVars
  <2>2. SoundTypes' /\ BackendKept'
    BY <1>0, <2>1 DEF SoundTypes, BackendKept
  <2>3. SlotKept' /\ OwnBuffer' /\ ToneKept' /\ Sound!MutedSilent'
    BY <1>0, <2>1 DEF SlotKept, OwnBuffer, ToneKept, Sound!MutedSilent
  <2> QED BY <2>2, <2>3 DEF SoundInv
<1>7. CASE Sound!ReadTicks
  <2>1. /\ task = "ticks" /\ task' = "arm"
        /\ want' = [want EXCEPT !.length = (tick + want.length) % Ticks]
        /\ UNCHANGED <<backend, sounds, tick, gate, beeping, stopTick>>
        /\ UNCHANGED <<source, buffer, shifted, muted, restarted, channel>>
    BY <1>7 DEF Sound!ReadTicks, Sound!cardVars, Sound!speakerVars, Sound!mixerVars
  <2>2. PICK length \in 1 .. MaxLength, now \in 0 .. Ticks - 1 : length = want.length /\ now = tick
    BY <1>0, <2>1 DEF ToneKept, SoundTypes
  <2>3. /\ (now + length) % Ticks \in 0 .. Ticks - 1
        /\ Sound!Signed((now + length) % Ticks, now) \in 0 .. MaxLength
    BY ToneEnds
  <2>4. want' \in [sound : Int, length : Int, slot : Int] /\ want'.length = (now + length) % Ticks
    BY <1>0, <2>1, <2>2, <2>3 DEF SoundTypes
  <2>5. SoundTypes' /\ BackendKept'
    BY <1>0, <2>1, <2>4 DEF SoundTypes, BackendKept
  <2>6. ToneKept'
    BY <2>1, <2>2, <2>3, <2>4 DEF ToneKept, Armed, Sound!Signed
  <2>7. SlotKept' /\ OwnBuffer' /\ Sound!MutedSilent'
    BY <1>0, <2>1 DEF SlotKept, OwnBuffer, Sound!MutedSilent
  <2> QED BY <2>5, <2>6, <2>7 DEF SoundInv
<1>8. CASE Sound!Arm
  <2>1. /\ task = "arm" /\ task' = "idle" /\ stopTick' = want.length /\ beeping' = TRUE
        /\ want' = [want EXCEPT !.length = 1]
        /\ UNCHANGED <<backend, sounds, tick, gate>>
        /\ UNCHANGED <<source, buffer, shifted, muted, restarted, channel>>
    BY <1>8 DEF Sound!Arm, Sound!cardVars, Sound!mixerVars
  <2>2. want.length \in 0 .. Ticks - 1 /\ Armed(want.length)
    BY <1>0, <2>1 DEF ToneKept
  <2>3. SoundTypes' /\ BackendKept'
    BY <1>0, <2>1, <2>2 DEF SoundTypes, BackendKept
  <2>4. ToneKept'
    BY <2>1, <2>2 DEF ToneKept, Armed, Sound!Signed
  <2>5. SlotKept' /\ OwnBuffer' /\ Sound!MutedSilent'
    BY <1>0, <2>1 DEF SlotKept, OwnBuffer, Sound!MutedSilent
  <2> QED BY <2>3, <2>4, <2>5 DEF SoundInv
<1>9. CASE Sound!Loop
  <2>1. /\ task = "idle" /\ gate' = FALSE /\ beeping' = FALSE /\ stopTick' = 0
        /\ UNCHANGED <<backend, tick, source, buffer, shifted, muted, restarted, channel, task, want, sounds>>
    BY <1>9 DEF Sound!Loop, Sound!Update, Sound!cardVars, Sound!mixerVars, Sound!taskVars
  <2>2. stopTick' \in 0 .. Ticks - 1
    BY <2>1, SoundAssumption
  <2>3. SoundTypes' /\ BackendKept'
    BY <1>0, <2>1, <2>2 DEF SoundTypes, BackendKept
  <2>4. SlotKept' /\ OwnBuffer' /\ ToneKept' /\ Sound!MutedSilent'
    BY <1>0, <2>1 DEF SlotKept, OwnBuffer, ToneKept, Sound!MutedSilent
  <2> QED BY <2>3, <2>4 DEF SoundInv
<1>10. CASE backend = "card" /\ (Sound!Open \/ Sound!ClickMute \/ Sound!ClickSlider \/ Sound!DragSlider)
  <2>1. ASSUME NEW levels, NEW mutes \in SUBSET Sound!Slots, Sound!Commit(levels, mutes), task = "idle",
               levels \in [Sound!Slots -> BOOLEAN]
        PROVE  SoundInv'
    <3>1. /\ restarted' = {} /\ muted' = mutes /\ channel' = levels
          /\ source' = [s \in Sound!Slots |-> [source[s] EXCEPT !.loud = s \notin mutes /\ levels[s]]]
          /\ UNCHANGED <<backend, buffer, shifted, tick, gate, beeping, stopTick, task, want, sounds>>
      BY <2>1 DEF Sound!Commit, Sound!speakerVars, Sound!taskVars
    <3>2. ASSUME NEW s \in Sound!Slots
          PROVE  /\ source'[s] \in Played
                 /\ source'[s].active = source[s].active
                 /\ source'[s].samples = source[s].samples /\ source'[s].plays = source[s].plays
                 /\ s \in mutes => ~source'[s].loud
      <4>1. source[s] \in Played /\ (s \notin mutes /\ levels[s]) \in BOOLEAN
        BY <1>0, <2>1 DEF SoundTypes
      <4>2. source'[s] = [source[s] EXCEPT !.loud = s \notin mutes /\ levels[s]]
        BY <3>1
      <4> QED BY <4>1, <4>2 DEF Played
    <3>3. SoundTypes' /\ BackendKept'
      BY <1>0, <2>1, <3>1, <3>2 DEF SoundTypes, BackendKept
    <3>4. SlotKept' /\ ToneKept' /\ OwnBuffer'
      BY <1>0, <2>1, <3>1, <3>2 DEF SlotKept, ToneKept, OwnBuffer, Armed, Sound!Signed
    <3>5. Sound!MutedSilent'
      BY <3>1, <3>2 DEF Sound!MutedSilent
    <3> QED BY <3>3, <3>4, <3>5 DEF SoundInv
  <2>2. muted \subseteq Sound!Slots /\ channel \in [Sound!Slots -> BOOLEAN]
    BY <1>0 DEF SoundTypes
  <2>3. CASE Sound!Open
    <3>1. [s \in Sound!Slots |-> TRUE] \in [Sound!Slots -> BOOLEAN] /\ {} \in SUBSET Sound!Slots
      OBVIOUS
    <3>2. task = "idle" /\ Sound!Commit([s \in Sound!Slots |-> TRUE], {})
      BY <2>3 DEF Sound!Open
    <3> QED BY <2>1, <3>1, <3>2
  <2>4. CASE Sound!ClickMute
    <3>1. task = "idle" /\ \E s \in Sound!Slots : Sound!Commit(channel, IF s \in muted THEN muted \ {s} ELSE muted \cup {s})
      BY <2>4 DEF Sound!ClickMute
    <3>2. PICK s \in Sound!Slots : Sound!Commit(channel, IF s \in muted THEN muted \ {s} ELSE muted \cup {s})
      BY <3>1
    <3>3. (IF s \in muted THEN muted \ {s} ELSE muted \cup {s}) \in SUBSET Sound!Slots
      BY <2>2
    <3> QED BY <2>1, <2>2, <3>1, <3>2, <3>3
  <2>5. CASE Sound!ClickSlider
    <3>1. task = "idle" /\ \E s \in Sound!Slots, on \in BOOLEAN : Sound!Commit([channel EXCEPT ![s] = on], muted)
      BY <2>5 DEF Sound!ClickSlider
    <3>2. PICK s \in Sound!Slots, on \in BOOLEAN : Sound!Commit([channel EXCEPT ![s] = on], muted)
      BY <3>1
    <3>3. [channel EXCEPT ![s] = on] \in [Sound!Slots -> BOOLEAN]
      BY <2>2
    <3> QED BY <2>1, <2>2, <3>1, <3>2, <3>3
  <2>6. CASE Sound!DragSlider
    <3>1. CASE \E on \in BOOLEAN : Sound!Commit([channel EXCEPT ![slider] = on], muted)
      <4>1. PICK on \in BOOLEAN : Sound!Commit([channel EXCEPT ![slider] = on], muted)
        BY <3>1
      <4>2. [channel EXCEPT ![slider] = on] \in [Sound!Slots -> BOOLEAN]
        BY <2>2
      <4> QED BY <2>1, <2>2, <2>6, <4>1, <4>2 DEF Sound!DragSlider
    <3>2. CASE ~ \E on \in BOOLEAN : Sound!Commit([channel EXCEPT ![slider] = on], muted)
      <4>1. /\ UNCHANGED <<backend, channel, muted, restarted, source, buffer, shifted>>
            /\ UNCHANGED <<tick, gate, beeping, stopTick, task, want, sounds>>
        BY <2>6, <3>2 DEF Sound!DragSlider, Sound!cardVars, Sound!speakerVars, Sound!taskVars
      <4> QED BY <4>1, SoundUnchanged
    <3> QED BY <3>1, <3>2
  <2> QED BY <1>10, <2>3, <2>4, <2>5, <2>6
<1> QED BY <1>1, <1>2, <1>3, <1>4, <1>5, <1>6, <1>7, <1>8, <1>9, <1>10 DEF Sound!Next

\* What the mixer, the card and the speaker are asked for.
LEMMA SoundImplies == ASSUME SoundInv PROVE Sound!SoundSound
<1>1. Sound!SoundsWhole
  BY DEF SoundInv, OwnBuffer, Sound!SoundsWhole
<1>2. Sound!BuffersApart
  BY DEF SoundInv, OwnBuffer, Sound!BuffersApart
<1>3. Sound!TonesEnd
  BY DEF SoundInv, ToneKept, Armed, Sound!TonesEnd
<1> QED BY <1>1, <1>2, <1>3 DEF SoundInv, Sound!SoundSound
=============================================================================
