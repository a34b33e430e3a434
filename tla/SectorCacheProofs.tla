------------------------- MODULE SectorCacheProofs -------------------------
(***************************************************************************)
(* Proofs about SectorCache for every set of devices, every disk size and  *)
(* every number of slots: type correctness, that clean slots are current,  *)
(* that a flush leaves nothing dirty behind it, and that the cache         *)
(* implements WriteBackStore.                                              *)
(***************************************************************************)
EXTENDS SectorCache, TLAPS

\* A slot only holds a sector whose number maps to it.
Placed == \A i \in Slots : tag[i] # Nothing => SlotOf(tag[i]) = i

\* No flush under way: the cursor is home; one under way has not answered.
AtRest ==
    /\ flushing = Nothing => cursor = 0
    /\ flushing # Nothing => ret = Idle

IInv == TypeOK /\ Placed /\ AtRest /\ CleanIsCurrent /\ FlushedBehind

-----------------------------------------------------------------------------
(* The slot of a sector, and what a write-back does. *)

LEMMA SlotOfType == \A s \in Sectors : SlotOf(s) \in Slots
BY CacheAssumption, SMT DEF Sectors, LBAs, SlotOf, Slots

LEMMA SectorFacts ==
    /\ CachedSectors \subseteq Sectors
    /\ DirectSectors \subseteq Sectors
    /\ CachedSectors \cap DirectSectors = {}
    /\ Nothing \notin Sectors
    /\ Nothing \notin Devices
    /\ \A s \in Sectors : s[1] \in Devices
BY CacheAssumption DEF Sectors, CachedSectors, DirectSectors, LBAs

\* A write-back touches at most the sector of its slot, with the slot's data,
\* and one that succeeds leaves that sector up to date.
LEMMA WriteBackFacts ==
    ASSUME TypeOK, CleanIsCurrent,
           NEW i \in Slots, NEW ok \in BOOLEAN, WriteBack(i, ok)
    PROVE  /\ disk' \in [Sectors -> Values]
           /\ \A s \in Sectors : s # tag[i] => disk'[s] = disk[s]
           /\ tag[i] # Nothing => disk'[tag[i]] \in {disk[tag[i]], data[i]}
           /\ tag[i] # Nothing /\ ok => disk'[tag[i]] = data[i]
<1>1. tag[i] \in CachedSectors \cup {Nothing} /\ data[i] \in Values
      /\ disk \in [Sectors -> Values]
  BY DEF TypeOK
<1>2. CASE tag[i] = Nothing \/ ~dirty[i]
  <2>1. disk' = disk
    BY <1>2 DEF WriteBack
  <2>2. tag[i] # Nothing => disk[tag[i]] = data[i]
    BY <1>2 DEF CleanIsCurrent
  <2> QED BY <1>1, <2>1, <2>2
<1>3. CASE ~(tag[i] = Nothing \/ ~dirty[i])
  <2>1. DeviceWrite(tag[i], data[i], ok)
    BY <1>3 DEF WriteBack
  <2>2. tag[i] \in Sectors
    BY <1>1, <1>3, SectorFacts
  <2>3. CASE disk' = [disk EXCEPT ![tag[i]] = data[i]]
    BY <1>1, <2>2, <2>3
  <2>4. CASE ~ok /\ disk' = disk
    BY <1>1, <2>2, <2>4
  <2> QED BY <2>1, <2>3, <2>4 DEF DeviceWrite
<1> QED BY <1>2, <1>3

-----------------------------------------------------------------------------
(* The invariant holds initially and is kept by every step. *)

LEMMA InitInv == Init => IInv
<1> SUFFICES ASSUME Init PROVE IInv
  OBVIOUS
<1>1. TypeOK
  BY CacheAssumption DEF Init, TypeOK, Answers
<1> QED
  BY <1>1 DEF Init, IInv, Placed, AtRest, CleanIsCurrent, FlushedBehind, Slots

\* Filling slot i, after its write-back, with sector s and content v: the
\* slot is clean only if v is what the device holds.
LEMMA FillKeeps ==
    ASSUME IInv, flushing = Nothing,
           NEW s \in CachedSectors, NEW v \in Values, NEW b \in BOOLEAN,
           WriteBack(SlotOf(s), TRUE) \/ (Hit(s) /\ UNCHANGED disk),
           tag' = [tag EXCEPT ![SlotOf(s)] = s],
           data' = [data EXCEPT ![SlotOf(s)] = v],
           dirty' = [dirty EXCEPT ![SlotOf(s)] = b],
           b = TRUE \/ (v = disk[s] /\ ~Hit(s)),
           UNCHANGED <<flushing, cursor>>, ret' \in Answers
    PROVE  IInv'
<1> DEFINE i == SlotOf(s)
<1>1. i \in Slots /\ s \in Sectors /\ s # Nothing
  BY SlotOfType, SectorFacts
<1>2. TypeOK /\ Placed /\ AtRest /\ CleanIsCurrent
  BY DEF IInv
<1>3. disk' \in [Sectors -> Values]
  <2>1. CASE WriteBack(i, TRUE)
    BY <1>1, <1>2, <2>1, WriteBackFacts
  <2>2. CASE UNCHANGED disk
    BY <1>2, <2>2 DEF TypeOK
  <2> QED BY <2>1, <2>2
<1>4. \A t \in Sectors : SlotOf(t) # i => disk'[t] = disk[t]
  <2>1. tag[i] # Nothing => SlotOf(tag[i]) = i
    BY <1>1, <1>2 DEF Placed
  <2>2. CASE WriteBack(i, TRUE)
    BY <1>1, <1>2, <2>1, <2>2, WriteBackFacts, SectorFacts
  <2>3. CASE UNCHANGED disk
    BY <2>3
  <2> QED BY <2>2, <2>3
<1>5. ~Hit(s) => disk'[s] = disk[s]
  <2> SUFFICES ASSUME ~Hit(s) PROVE disk'[s] = disk[s]
    OBVIOUS
  <2>1. WriteBack(i, TRUE) /\ tag[i] # s
    BY DEF Hit
  <2> QED BY <1>1, <1>2, <2>1, WriteBackFacts
<1> HIDE DEF i
<1>6. /\ tag \in [Slots -> CachedSectors \cup {Nothing}]
      /\ data \in [Slots -> Values]
      /\ dirty \in [Slots -> BOOLEAN]
  BY <1>2 DEF TypeOK
<1>7. /\ tag' = [tag EXCEPT ![i] = s]
      /\ data' = [data EXCEPT ![i] = v]
      /\ dirty' = [dirty EXCEPT ![i] = b]
  BY DEF i
<1>8. TypeOK'
  <2>1. Answers' = Answers
    BY DEF Answers
  <2>2. flushing' \in Devices \cup {Nothing} /\ cursor' \in 0 .. NSlots
    BY <1>2 DEF TypeOK
  <2>3. /\ tag' \in [Slots -> CachedSectors \cup {Nothing}]
        /\ data' \in [Slots -> Values]
        /\ dirty' \in [Slots -> BOOLEAN]
    <3>1. tag' \in [Slots -> CachedSectors \cup {Nothing}]
      BY <1>6, <1>7
    <3>2. data' \in [Slots -> Values]
      BY <1>6, <1>7
    <3>3. dirty' \in [Slots -> BOOLEAN]
      BY <1>6, <1>7, Zenon
    <3> QED BY <3>1, <3>2, <3>3
  <2> QED BY <1>3, <2>1, <2>2, <2>3 DEF TypeOK
<1>9. Placed'
  BY <1>1, <1>2, <1>6, <1>7 DEF Placed, SlotOf, i
<1>10. CleanIsCurrent'
  <2> SUFFICES ASSUME NEW j \in Slots, tag'[j] # Nothing, ~dirty'[j]
               PROVE  data'[j] = disk'[tag'[j]]
    BY DEF CleanIsCurrent
  <2>1. CASE j = i
    <3>1. tag'[j] = s /\ data'[j] = v /\ ~b
      BY <1>1, <1>6, <1>7, <2>1
    <3> QED BY <1>5, <3>1
  <2>2. CASE j # i
    <3>1. tag[j] = tag'[j] /\ data[j] = data'[j] /\ ~dirty[j]
      BY <1>1, <1>6, <1>7, <2>2
    <3>2. tag[j] \in Sectors /\ SlotOf(tag[j]) = j /\ data[j] = disk[tag[j]]
      BY <1>2, <1>6, <3>1, SectorFacts DEF Placed, CleanIsCurrent
    <3> QED BY <1>4, <2>2, <3>1, <3>2
  <2> QED BY <2>1, <2>2
<1>11. AtRest' /\ FlushedBehind'
  BY <1>2 DEF AtRest, FlushedBehind, Slots
<1> QED BY <1>8, <1>9, <1>10, <1>11 DEF IInv

\* Writing slot i back without reusing it; it becomes clean on success.
LEMMA WriteBackKeeps ==
    ASSUME IInv, NEW i \in Slots, NEW ok \in BOOLEAN, WriteBack(i, ok),
           dirty' = IF ok THEN [dirty EXCEPT ![i] = FALSE] ELSE dirty,
           UNCHANGED <<tag, data>>
    PROVE  /\ disk' \in [Sectors -> Values]
           /\ dirty' \in [Slots -> BOOLEAN]
           /\ \A j \in Slots : dirty'[j] => dirty[j]
           /\ CleanIsCurrent'
<1>1. TypeOK /\ Placed /\ CleanIsCurrent
  BY DEF IInv
<1>2. /\ tag \in [Slots -> CachedSectors \cup {Nothing}]
      /\ dirty \in [Slots -> BOOLEAN]
  BY <1>1 DEF TypeOK
<1>3. /\ disk' \in [Sectors -> Values]
      /\ \A s \in Sectors : s # tag[i] => disk'[s] = disk[s]
      /\ tag[i] # Nothing => disk'[tag[i]] \in {disk[tag[i]], data[i]}
      /\ tag[i] # Nothing /\ ok => disk'[tag[i]] = data[i]
  BY <1>1, WriteBackFacts
<1>4. dirty' \in [Slots -> BOOLEAN] /\ \A j \in Slots : dirty'[j] => dirty[j]
  BY <1>2
<1>5. CleanIsCurrent'
  <2> SUFFICES ASSUME NEW j \in Slots, tag[j] # Nothing, ~dirty'[j]
               PROVE  data[j] = disk'[tag[j]]
    BY DEF CleanIsCurrent
  <2>1. tag[j] \in Sectors
    BY <1>2, SectorFacts
  <2>2. CASE j = i
    <3>1. CASE ok
      BY <1>3, <2>2, <3>1
    <3>2. CASE ~ok
      <4>1. ~dirty[j]
        BY <3>2
      <4> QED BY <1>1, <1>3, <2>2, <4>1 DEF CleanIsCurrent
    <3> QED BY <3>1, <3>2
  <2>3. CASE j # i
    <3>1. ~dirty[j] /\ tag[j] # tag[i]
      <4>1. ~dirty[j]
        BY <1>2, <2>3
      <4>2. SlotOf(tag[j]) = j /\ (tag[i] # Nothing => SlotOf(tag[i]) = i)
        BY <1>1 DEF Placed
      <4> QED BY <2>3, <4>1, <4>2
    <3> QED BY <1>1, <1>3, <2>1, <3>1 DEF CleanIsCurrent
  <2> QED BY <2>2, <2>3
<1> QED BY <1>3, <1>4, <1>5

\* Type correctness of the answers.
LEMMA AnswerTypes ==
    /\ Idle \in Answers /\ Failed \in Answers
    /\ \A s \in Sectors, v \in Values :
          <<"read", s, v>> \in Answers /\ <<"device", s, v>> \in Answers
    /\ \A s \in Sectors : <<"wrote", s>> \in Answers
    /\ \A d \in Devices : <<"flushed", d>> \in Answers
    /\ Answers' = Answers
BY DEF Answers

\* A slot written back, successfully or not, with no flush under way: the
\* invariant holds whatever the call answers.
LEMMA WriteBackInv ==
    ASSUME IInv, flushing = Nothing,
           NEW i \in Slots, NEW ok \in BOOLEAN, WriteBack(i, ok),
           dirty' = IF ok THEN [dirty EXCEPT ![i] = FALSE] ELSE dirty,
           UNCHANGED <<tag, data, flushing, cursor>>, ret' \in Answers
    PROVE  IInv'
<1>1. /\ disk' \in [Sectors -> Values]
      /\ dirty' \in [Slots -> BOOLEAN]
      /\ CleanIsCurrent'
  BY WriteBackKeeps
<1>2. TypeOK'
  BY <1>1, AnswerTypes DEF IInv, TypeOK
<1>3. Placed' /\ AtRest' /\ FlushedBehind'
  BY DEF IInv, Placed, AtRest, FlushedBehind, Slots
<1> QED BY <1>1, <1>2, <1>3 DEF IInv

LEMMA FailsInv ==
    ASSUME IInv, flushing = Nothing, UNCHANGED <<flushing, cursor>>,
           NEW i \in Slots, Fails(i)
    PROVE  IInv'
<1>1. ret' \in Answers /\ UNCHANGED cacheVars /\ WriteBack(i, FALSE)
  BY AnswerTypes DEF Fails
<1> QED BY <1>1, WriteBackInv DEF cacheVars

LEMMA CacheReadInv ==
    ASSUME IInv, NEW s \in CachedSectors, CacheRead(s)
    PROVE  IInv'
<1> DEFINE i == SlotOf(s)
<1>1. i \in Slots /\ s \in Sectors
  BY SlotOfType, SectorFacts
<1>2. flushing = Nothing /\ UNCHANGED <<flushing, cursor>>
  BY DEF CacheRead
<1>3. CASE ReadHit(s)
  <2>1. ret' \in Answers
    <3>1. data[i] \in Values
      BY <1>1 DEF IInv, TypeOK
    <3> QED BY <1>1, <1>3, <3>1, AnswerTypes DEF ReadHit
  <2>2. UNCHANGED <<disk, tag, dirty, data>>
    BY <1>3 DEF ReadHit, cacheVars
  <2>3. TypeOK'
    BY <1>2, <2>1, <2>2, AnswerTypes DEF IInv, TypeOK
  <2> QED BY <1>2, <2>2, <2>3
          DEF IInv, Placed, AtRest, CleanIsCurrent, FlushedBehind, Owner
<1>4. CASE ReadMiss(s)
  <2>1. CASE Fails(i)
    BY <1>1, <1>2, <2>1, FailsInv
  <2>2. CASE /\ WriteBack(i, TRUE)
             /\ dirty' = [dirty EXCEPT ![i] = FALSE]
             /\ tag' = [tag EXCEPT ![i] = s]
             /\ data' = [data EXCEPT ![i] = disk[s]]
             /\ ret' = <<"read", s, disk[s]>>
    <3>1. disk[s] \in Values
      BY <1>1 DEF IInv, TypeOK
    <3>2. ret' \in Answers
      BY <1>1, <2>2, <3>1, AnswerTypes
    <3>3. ~Hit(s)
      BY <1>4 DEF ReadMiss
    <3> QED BY <1>2, <2>2, <3>1, <3>2, <3>3, FillKeeps
  <2>3. CASE /\ WriteBack(i, TRUE)
             /\ dirty' = [dirty EXCEPT ![i] = FALSE]
             /\ ret' = Failed
             /\ UNCHANGED <<tag, data>>
    <3>1. ret' \in Answers
      BY <2>3, AnswerTypes
    <3> QED BY <1>1, <1>2, <2>3, <3>1, WriteBackInv
  <2> QED BY <1>4, <2>1, <2>2, <2>3 DEF ReadMiss
<1> QED BY <1>3, <1>4 DEF CacheRead

LEMMA CacheWriteInv ==
    ASSUME IInv, NEW s \in CachedSectors, NEW v \in Values, CacheWrite(s, v)
    PROVE  IInv'
<1> DEFINE i == SlotOf(s)
<1>1. i \in Slots /\ s \in Sectors
  BY SlotOfType, SectorFacts
<1>2. flushing = Nothing /\ UNCHANGED <<flushing, cursor>>
  BY DEF CacheWrite
<1>3. CASE Fill(i, s, v) /\ (WriteBack(i, TRUE) \/ (Hit(s) /\ UNCHANGED disk))
  <2>1. ret' \in Answers
    BY <1>1, <1>3, AnswerTypes DEF Fill
  <2>2. /\ tag' = [tag EXCEPT ![i] = s]
        /\ data' = [data EXCEPT ![i] = v]
        /\ dirty' = [dirty EXCEPT ![i] = TRUE]
    BY <1>3 DEF Fill
  <2> QED BY <1>2, <1>3, <2>1, <2>2, FillKeeps
<1>4. CASE Fails(i)
  BY <1>1, <1>2, <1>4, FailsInv
<1> QED BY <1>3, <1>4 DEF CacheWrite

LEMMA FlushSlotInv ==
    ASSUME IInv, FlushSlot
    PROVE  IInv'
<1> DEFINE i == cursor
<1>1. i \in Slots /\ flushing \in Devices /\ flushing # Nothing
      /\ NSlots \in Nat /\ cursor \in 0 .. NSlots
  BY CacheAssumption DEF FlushSlot, Slots, IInv, TypeOK
<1>2. CASE /\ Owner(i) # flushing
           /\ cursor' = cursor + 1
           /\ UNCHANGED <<disk, cacheVars, flushing, ret>>
  <2>1. TypeOK'
    <3>1. cursor' \in 0 .. NSlots
      BY <1>1, <1>2 DEF Slots
    <3> QED BY <1>2, <3>1, AnswerTypes DEF IInv, TypeOK, cacheVars
  <2>2. Placed' /\ AtRest' /\ CleanIsCurrent'
    BY <1>1, <1>2 DEF IInv, Placed, AtRest, CleanIsCurrent, cacheVars
  <2>3. FlushedBehind'
    <3> SUFFICES ASSUME NEW j \in Slots, j < cursor', Owner(j) = flushing
                 PROVE  ~dirty[j]
      BY <1>2 DEF FlushedBehind, Slots, Owner, cacheVars
    <3>1. j # i
      BY <1>2
    <3>2. j < cursor
      BY <1>1, <1>2, <3>1 DEF Slots
    <3> QED BY <3>2 DEF IInv, FlushedBehind
  <2> QED BY <2>1, <2>2, <2>3 DEF IInv
<1>3. CASE /\ Owner(i) = flushing
           /\ WriteBack(i, TRUE)
           /\ dirty' = [dirty EXCEPT ![i] = FALSE]
           /\ cursor' = cursor + 1
           /\ UNCHANGED <<tag, data, flushing, ret>>
  <2>1. /\ disk' \in [Sectors -> Values]
        /\ dirty' \in [Slots -> BOOLEAN]
        /\ \A j \in Slots : dirty'[j] => dirty[j]
        /\ CleanIsCurrent'
    BY <1>1, <1>3, WriteBackKeeps
  <2>2. TypeOK'
    <3>1. cursor' \in 0 .. NSlots
      BY <1>1, <1>3 DEF Slots
    <3> QED BY <1>3, <2>1, <3>1, AnswerTypes DEF IInv, TypeOK
  <2>3. Placed' /\ AtRest'
    BY <1>1, <1>3 DEF IInv, Placed, AtRest
  <2>4. FlushedBehind'
    <3> SUFFICES ASSUME NEW j \in Slots, j < cursor', Owner(j) = flushing
                 PROVE  ~dirty'[j]
      BY <1>3 DEF FlushedBehind, Slots, Owner
    <3>1. CASE j = i
      BY <1>1, <1>3, <3>1 DEF IInv, TypeOK
    <3>2. CASE j # i
      <4>1. j < cursor
        BY <1>1, <1>3, <3>2 DEF Slots
      <4> QED BY <2>1, <4>1 DEF IInv, FlushedBehind
    <3> QED BY <3>1, <3>2
  <2> QED BY <2>1, <2>2, <2>3, <2>4 DEF IInv
<1>4. CASE /\ Owner(i) = flushing
           /\ Fails(i)
           /\ flushing' = Nothing
           /\ cursor' = 0
  <2>1. WriteBack(i, FALSE) /\ UNCHANGED <<tag, data, dirty>> /\ ret' \in Answers
    BY <1>4, AnswerTypes DEF Fails, cacheVars
  <2>2. disk' \in [Sectors -> Values] /\ CleanIsCurrent'
    BY <1>1, <2>1, WriteBackKeeps
  <2>3. TypeOK'
    BY <1>1, <1>4, <2>1, <2>2, AnswerTypes DEF IInv, TypeOK
  <2>4. Placed' /\ AtRest'
    BY <1>4, <2>1 DEF IInv, Placed, AtRest
  <2>5. FlushedBehind'
    BY <1>4 DEF FlushedBehind, Slots
  <2> QED BY <2>2, <2>3, <2>4, <2>5 DEF IInv
<1> QED BY <1>2, <1>3, <1>4 DEF FlushSlot

LEMMA WriteFSInfoInv ==
    ASSUME IInv, NEW s \in DirectSectors, NEW v \in Values, WriteFSInfo(s, v)
    PROVE  IInv'
<1>1. /\ s \in Sectors /\ s \notin CachedSectors
      /\ disk \in [Sectors -> Values]
      /\ tag \in [Slots -> CachedSectors \cup {Nothing}]
      /\ SlotOf(s) \in Slots /\ s # Nothing
  BY SectorFacts, SlotOfType DEF IInv, TypeOK
<1>2. disk' = [disk EXCEPT ![s] = v] \/ disk' = disk
  BY DEF WriteFSInfo, DeviceWrite
<1>3. UNCHANGED <<tag, dirty, data, flushing, cursor>> /\ flushing = Nothing
  <2>1. ~Hit(s)
    BY <1>1 DEF Hit
  <2> QED BY <2>1 DEF WriteFSInfo, Invalidate, cacheVars
<1>4. ret' \in Answers
  BY <1>1, AnswerTypes DEF WriteFSInfo
<1>5. disk' \in [Sectors -> Values] /\ \A t \in CachedSectors : disk'[t] = disk[t]
  BY <1>1, <1>2, SectorFacts
<1>6. TypeOK'
  BY <1>3, <1>4, <1>5, AnswerTypes DEF IInv, TypeOK
<1>7. CleanIsCurrent'
  BY <1>1, <1>3, <1>5 DEF IInv, CleanIsCurrent
<1> QED BY <1>3, <1>6, <1>7 DEF IInv, Placed, AtRest, FlushedBehind, Slots, Owner

\* The steps that leave the cache and the disk as they are.
LEMMA QuietInv ==
    ASSUME IInv, UNCHANGED <<disk, cacheVars>>, ret' \in Answers,
           \/ UNCHANGED <<flushing, cursor>> /\ (flushing = Nothing \/ ret' = ret)
           \/ /\ flushing' \in Devices \cup {Nothing} /\ cursor' = 0
              /\ flushing' = Nothing \/ ret' = Idle
    PROVE  IInv'
<1>1. TypeOK'
  BY CacheAssumption, AnswerTypes DEF IInv, TypeOK, cacheVars
<1>2. Placed' /\ AtRest' /\ CleanIsCurrent'
  BY DEF IInv, Placed, AtRest, CleanIsCurrent, cacheVars
<1>3. FlushedBehind'
  BY DEF IInv, FlushedBehind, Slots, Owner, cacheVars
<1> QED BY <1>1, <1>2, <1>3 DEF IInv

LEMMA CrashInv ==
    ASSUME IInv, Crash
    PROVE  IInv'
<1>1. TypeOK'
  BY CacheAssumption, AnswerTypes DEF Crash, IInv, TypeOK
<1> QED BY <1>1
        DEF Crash, IInv, Placed, AtRest, CleanIsCurrent, FlushedBehind, Slots

LEMMA StepInv == IInv /\ [Next]_vars => IInv'
<1> SUFFICES ASSUME IInv, [Next]_vars PROVE IInv'
  OBVIOUS
<1>1. ASSUME NEW s \in CachedSectors, CacheRead(s) PROVE IInv'
  BY <1>1, CacheReadInv
<1>2. ASSUME NEW s \in CachedSectors, NEW v \in Values, CacheWrite(s, v)
      PROVE IInv'
  BY <1>2, CacheWriteInv
<1>3. ASSUME NEW d \in Devices, FlushBegin(d) PROVE IInv'
  BY <1>3, QuietInv, AnswerTypes DEF FlushBegin
<1>4. CASE FlushSlot
  BY <1>4, FlushSlotInv
<1>5. CASE FlushEnd
  <2>1. flushing \in Devices
    BY <1>5 DEF FlushEnd, IInv, TypeOK
  <2> QED BY <1>5, <2>1, QuietInv, AnswerTypes DEF FlushEnd
<1>6. ASSUME NEW s \in DirectSectors, NEW v \in Values, WriteFSInfo(s, v)
      PROVE IInv'
  BY <1>6, WriteFSInfoInv
<1>7. ASSUME NEW s \in Sectors, ReadDevice(s) PROVE IInv'
  <2>1. disk[s] \in Values
    BY DEF IInv, TypeOK
  <2>2. ret' \in Answers
    BY <1>7, <2>1, AnswerTypes DEF ReadDevice
  <2> QED BY <1>7, <2>2, QuietInv DEF ReadDevice
<1>8. CASE Crash
  BY <1>8, CrashInv
<1>9. CASE UNCHANGED vars
  <2>1. ret' \in Answers
    BY <1>9 DEF IInv, TypeOK, vars
  <2> QED BY <1>9, <2>1, QuietInv DEF vars, cacheVars
<1> QED BY <1>1, <1>2, <1>3, <1>4, <1>5, <1>6, <1>7, <1>8, <1>9 DEF Next

\* The strengthened invariant holds in every reachable state.
THEOREM Invariance == Spec => []IInv
BY InitInv, StepInv, PTL DEF Spec

\* The table, the flush in progress and the answers keep their types.
THEOREM TypeCorrect == Spec => []TypeOK
BY Invariance, PTL DEF IInv

\* fat32.c's cache never holds a stale clean slot, so an eviction that skips
\* the write loses nothing.
THEOREM CleanSlotsCurrent == Spec => []CleanIsCurrent
BY Invariance, PTL DEF IInv

\* fat32_cache_flush leaves nothing dirty behind its cursor.
THEOREM FlushComplete == Spec => []FlushedBehind
BY Invariance, PTL DEF IInv

-----------------------------------------------------------------------------
(* The refinement. *)

LEMMA ViewFacts ==
    /\ View = [s \in Sectors |-> IF Hit(s) THEN data[SlotOf(s)] ELSE disk[s]]
    /\ View' = [s \in Sectors |->
                  IF tag'[SlotOf(s)] = s THEN data'[SlotOf(s)] ELSE disk'[s]]
BY DEF View, Hit, SlotOf, Sectors, LBAs

\* A write-back moves its sector to the device and leaves the view alone, be
\* the slot cleaned or not.
LEMMA WriteBackSettles ==
    ASSUME IInv, NEW i \in Slots, NEW ok \in BOOLEAN, WriteBack(i, ok)
    PROVE  /\ Abstract!Settle
           /\ UNCHANGED <<tag, data>> => UNCHANGED View
<1>1. TypeOK /\ Placed /\ CleanIsCurrent
  BY DEF IInv
<1>2. /\ disk' \in [Sectors -> Values]
      /\ \A s \in Sectors : s # tag[i] => disk'[s] = disk[s]
      /\ tag[i] # Nothing => disk'[tag[i]] \in {disk[tag[i]], data[i]}
  BY <1>1, WriteBackFacts
<1>3. \A s \in Sectors : disk'[s] \in {disk[s], View[s]}
  <2> SUFFICES ASSUME NEW s \in Sectors, s = tag[i] PROVE disk'[s] \in {disk[s], View[s]}
    BY <1>2
  <2>1. tag[i] # Nothing /\ SlotOf(s) = i /\ Hit(s)
    BY <1>1, SectorFacts DEF Placed, Hit
  <2>2. View[s] = data[i]
    BY <2>1, ViewFacts
  <2> QED BY <1>2, <2>1, <2>2
<1>4. Abstract!Settle
  BY <1>2, <1>3 DEF Abstract!Settle, Abstract!Sectors, Sectors
<1>5. UNCHANGED <<tag, data>> => UNCHANGED View
  <2> SUFFICES ASSUME UNCHANGED <<tag, data>> PROVE View' = View
    OBVIOUS
  <2>1. \A s \in Sectors : tag[SlotOf(s)] # s => disk'[s] = disk[s]
    <3> SUFFICES ASSUME NEW s \in Sectors, tag[SlotOf(s)] # s
                 PROVE  disk'[s] = disk[s]
      OBVIOUS
    <3>1. s # tag[i]
      BY <1>1, SectorFacts DEF Placed
    <3> QED BY <1>2, <3>1
  <2> QED BY <2>1, ViewFacts DEF Hit
<1> QED BY <1>4, <1>5

LEMMA QuietSettles == ASSUME IInv, UNCHANGED disk PROVE Abstract!Settle
BY DEF IInv, TypeOK, Abstract!Settle, Abstract!Sectors, Sectors

\* Putting sector s with content v in its slot, after the write-back: the view
\* changes at s only.
LEMMA FillView ==
    ASSUME IInv, NEW s \in CachedSectors, NEW v \in Values,
           WriteBack(SlotOf(s), TRUE) \/ (Hit(s) /\ UNCHANGED disk),
           tag' = [tag EXCEPT ![SlotOf(s)] = s],
           data' = [data EXCEPT ![SlotOf(s)] = v]
    PROVE  Abstract!Settle /\ View' = [View EXCEPT ![s] = v]
<1> DEFINE i == SlotOf(s)
<1>1. i \in Slots /\ s \in Sectors
  BY SlotOfType, SectorFacts
<1>2. /\ TypeOK /\ Placed /\ CleanIsCurrent
      /\ tag \in [Slots -> CachedSectors \cup {Nothing}]
      /\ data \in [Slots -> Values]
  BY DEF IInv, TypeOK
<1>3. Abstract!Settle
  BY <1>1, WriteBackSettles, QuietSettles
<1>4. \A t \in Sectors : t # s /\ SlotOf(t) = i => View[t] = disk'[t]
  <2> SUFFICES ASSUME NEW t \in Sectors, t # s, SlotOf(t) = i
               PROVE  View[t] = disk'[t]
    OBVIOUS
  <2>1. CASE Hit(s) /\ UNCHANGED disk
    <3>1. ~Hit(t)
      BY <2>1 DEF Hit
    <3> QED BY <2>1, <3>1, ViewFacts
  <2>2. CASE WriteBack(i, TRUE) /\ tag[i] = t
    <3>1. disk'[t] = data[i]
      BY <1>1, <1>2, <2>2, WriteBackFacts, SectorFacts
    <3>2. Hit(t)
      BY <2>2 DEF Hit
    <3> QED BY <3>1, <3>2, ViewFacts
  <2>3. CASE WriteBack(i, TRUE) /\ tag[i] # t
    <3>1. disk'[t] = disk[t]
      BY <1>1, <1>2, <2>3, WriteBackFacts
    <3>2. ~Hit(t)
      BY <2>3 DEF Hit
    <3> QED BY <3>1, <3>2, ViewFacts
  <2> QED BY <2>1, <2>2, <2>3
<1>5. \A t \in Sectors : SlotOf(t) # i /\ ~Hit(t) => disk'[t] = disk[t]
  <2>1. CASE UNCHANGED disk
    BY <2>1
  <2>2. CASE WriteBack(i, TRUE)
    <3> SUFFICES ASSUME NEW t \in Sectors, SlotOf(t) # i PROVE disk'[t] = disk[t]
      OBVIOUS
    <3>1. t # tag[i]
      BY <1>1, <1>2, SectorFacts DEF Placed
    <3> QED BY <1>1, <1>2, <2>2, <3>1, WriteBackFacts
  <2> QED BY <2>1, <2>2
<1>6. /\ \A t \in Sectors : SlotOf(t) = i =>
            /\ tag'[SlotOf(t)] = s
            /\ data'[SlotOf(t)] = v
      /\ \A t \in Sectors : SlotOf(t) # i =>
            /\ tag'[SlotOf(t)] = tag[SlotOf(t)]
            /\ data'[SlotOf(t)] = data[SlotOf(t)]
  BY <1>1, <1>2, SlotOfType
<1>7. \A t \in Sectors : View'[t] = IF t = s THEN v ELSE View[t]
  <2> SUFFICES ASSUME NEW t \in Sectors
               PROVE  View'[t] = IF t = s THEN v ELSE View[t]
    OBVIOUS
  <2>1. View'[t] = IF tag'[SlotOf(t)] = t THEN data'[SlotOf(t)] ELSE disk'[t]
    BY ViewFacts
  <2>2. CASE SlotOf(t) = i
    BY <1>4, <1>6, <2>1, <2>2
  <2>3. CASE SlotOf(t) # i
    <3>1. t # s
      BY <2>3
    <3>2. CASE Hit(t)
      BY <1>6, <2>1, <2>3, <3>1, <3>2, ViewFacts DEF Hit
    <3>3. CASE ~Hit(t)
      BY <1>5, <1>6, <2>1, <2>3, <3>1, <3>3, ViewFacts DEF Hit
    <3> QED BY <3>2, <3>3
  <2> QED BY <2>2, <2>3
<1> QED BY <1>3, <1>7, ViewFacts

\* The abstract sets are the concrete ones.
LEMMA AbstractSets ==
    /\ Abstract!Sectors = Sectors
    /\ Abstract!CachedSectors = CachedSectors
    /\ Abstract!DirectSectors = DirectSectors
    /\ Abstract!Idle = Idle /\ Abstract!Failed = Failed
BY DEF Abstract!Sectors, Abstract!CachedSectors, Abstract!DirectSectors,
       Abstract!Idle, Abstract!Failed, Sectors, CachedSectors, DirectSectors,
       Idle, Failed

LEMMA InitRefines == Init => Abstract!Init
<1> SUFFICES ASSUME Init PROVE Abstract!Init
  OBVIOUS
<1>1. \A s \in Sectors : ~Hit(s)
  BY SlotOfType, SectorFacts DEF Init, Hit
<1>2. View = disk
  BY <1>1 DEF Init, View
<1> QED BY <1>2, AbstractSets DEF Init, Abstract!Init

\* A slot written back, with the tags and the data left alone.
LEMMA FailsRefines ==
    ASSUME IInv, NEW i \in Slots, Fails(i)
    PROVE  Abstract!Settle /\ UNCHANGED View /\ ret' = Abstract!Failed
BY WriteBackSettles, AbstractSets DEF Fails, cacheVars

LEMMA CacheReadRefines ==
    ASSUME IInv, NEW s \in CachedSectors, CacheRead(s)
    PROVE  Abstract!Read(s)
<1> DEFINE i == SlotOf(s)
<1>1. i \in Slots /\ s \in Sectors
  BY SlotOfType, SectorFacts
<1>2. CASE ReadHit(s)
  <2>1. Abstract!Settle
    BY <1>2, QuietSettles DEF ReadHit
  <2>2. UNCHANGED View /\ View[s] = data[i]
    BY <1>1, <1>2, ViewFacts DEF ReadHit, cacheVars, Hit
  <2>3. ret' = <<"read", s, View[s]>>
    BY <1>2, <2>2 DEF ReadHit
  <2> QED BY <2>1, <2>2, <2>3 DEF Abstract!Read
<1>3. CASE ReadMiss(s)
  <2>1. ~Hit(s) /\ View[s] = disk[s]
    BY <1>1, <1>3, ViewFacts DEF ReadMiss
  <2>2. CASE Fails(i)
    BY <1>1, <2>2, FailsRefines DEF Abstract!Read
  <2>3. CASE /\ WriteBack(i, TRUE)
             /\ tag' = [tag EXCEPT ![i] = s]
             /\ data' = [data EXCEPT ![i] = disk[s]]
             /\ ret' = <<"read", s, disk[s]>>
    <3>1. disk[s] \in Values
      BY <1>1 DEF IInv, TypeOK
    <3>2. Abstract!Settle /\ View' = [View EXCEPT ![s] = disk[s]]
      BY <2>3, <3>1, FillView
    <3>3. UNCHANGED View
      BY <1>1, <2>1, <3>2, ViewFacts
    <3> QED BY <2>1, <2>3, <3>2, <3>3 DEF Abstract!Read
  <2>4. CASE /\ WriteBack(i, TRUE)
             /\ ret' = Failed
             /\ UNCHANGED <<tag, data>>
    <3>1. Abstract!Settle /\ UNCHANGED View
      BY <1>1, <2>4, WriteBackSettles
    <3> QED BY <2>4, <3>1, AbstractSets DEF Abstract!Read
  <2> QED BY <1>3, <2>2, <2>3, <2>4 DEF ReadMiss
<1> QED BY <1>2, <1>3 DEF CacheRead

LEMMA CacheWriteRefines ==
    ASSUME IInv, NEW s \in CachedSectors, NEW v \in Values, CacheWrite(s, v)
    PROVE  Abstract!Write(s, v)
<1> DEFINE i == SlotOf(s)
<1>1. i \in Slots /\ s \in Sectors
  BY SlotOfType, SectorFacts
<1>2. CASE Fill(i, s, v) /\ (WriteBack(i, TRUE) \/ (Hit(s) /\ UNCHANGED disk))
  <2>1. Abstract!Settle /\ View' = [View EXCEPT ![s] = v]
    BY <1>2, FillView DEF Fill
  <2> QED BY <1>2, <2>1 DEF Fill, Abstract!Write
<1>3. CASE Fails(i)
  BY <1>1, <1>3, FailsRefines DEF Abstract!Write
<1> QED BY <1>2, <1>3 DEF CacheWrite

LEMMA FlushSlotRefines ==
    ASSUME IInv, FlushSlot
    PROVE  Abstract!Persist \/ UNCHANGED Abstract!vars
<1>1. cursor \in Slots
  BY CacheAssumption DEF FlushSlot, Slots, IInv, TypeOK
<1>2. CASE UNCHANGED <<disk, cacheVars, ret>>
  <2>1. UNCHANGED View
    BY <1>2, ViewFacts DEF cacheVars, Hit
  <2> QED BY <1>2, <2>1 DEF Abstract!vars
<1>3. CASE WriteBack(cursor, TRUE) /\ UNCHANGED <<tag, data, ret>>
  <2>1. Abstract!Settle /\ UNCHANGED View
    BY <1>1, <1>3, WriteBackSettles
  <2>2. ret = Idle
    BY DEF FlushSlot, IInv, AtRest
  <2> QED BY <1>3, <2>1, <2>2, AbstractSets DEF Abstract!Persist
<1>4. CASE Fails(cursor)
  BY <1>1, <1>4, FailsRefines DEF Abstract!Persist
<1> QED BY <1>2, <1>3, <1>4 DEF FlushSlot

LEMMA FlushEndRefines ==
    ASSUME IInv, FlushEnd
    PROVE  \E d \in Devices : Abstract!Flushed(d)
<1>1. flushing \in Devices /\ flushing # Nothing
  BY DEF FlushEnd, IInv, TypeOK
<1>2. \A s \in Sectors : s[1] = flushing => View[s] = disk[s]
  <2> SUFFICES ASSUME NEW s \in Sectors, s[1] = flushing, Hit(s)
               PROVE  View[s] = disk[s]
    BY ViewFacts
  <2> DEFINE i == SlotOf(s)
  <2>1. i \in Slots /\ tag[i] = s /\ s # Nothing /\ i < cursor
    BY CacheAssumption, SlotOfType, SectorFacts DEF Hit, FlushEnd, Slots
  <2>2. Owner(i) = flushing
    BY <2>1 DEF Owner
  <2>3. ~dirty[i]
    BY <2>1, <2>2 DEF IInv, FlushedBehind
  <2>4. data[i] = disk[s]
    BY <2>1, <2>3 DEF IInv, CleanIsCurrent
  <2> QED BY <2>4, ViewFacts
<1>3. UNCHANGED <<View, disk>> /\ ret' = <<"flushed", flushing>>
  BY ViewFacts DEF FlushEnd, cacheVars, Hit
<1> QED BY <1>1, <1>2, <1>3, AbstractSets DEF Abstract!Flushed

LEMMA WriteFSInfoRefines ==
    ASSUME IInv, NEW s \in DirectSectors, NEW v \in Values, WriteFSInfo(s, v)
    PROVE  Abstract!WriteThrough(s, v)
<1>1. /\ s \in Sectors /\ SlotOf(s) \in Slots
      /\ disk \in [Sectors -> Values]
      /\ tag \in [Slots -> CachedSectors \cup {Nothing}]
  BY SectorFacts, SlotOfType DEF IInv, TypeOK
<1>2. ~Hit(s)
  BY <1>1, SectorFacts DEF Hit
<1>3. UNCHANGED <<tag, data>>
  BY <1>2 DEF WriteFSInfo, Invalidate, cacheVars
<1>4. CASE disk' = [disk EXCEPT ![s] = v]
  <2>1. View' = [View EXCEPT ![s] = v]
    <3>1. \A t \in Sectors : View'[t] = IF t = s THEN v ELSE View[t]
      BY <1>1, <1>2, <1>3, <1>4, ViewFacts DEF Hit
    <3> QED BY <3>1, ViewFacts
  <2> QED BY <1>4, <2>1, AbstractSets DEF WriteFSInfo, Abstract!WriteThrough
<1>5. CASE disk' = disk /\ ret' = Failed
  <2>1. UNCHANGED View
    BY <1>3, <1>5, ViewFacts DEF Hit
  <2> QED BY <1>5, <2>1, AbstractSets DEF Abstract!WriteThrough
<1> QED BY <1>4, <1>5 DEF WriteFSInfo, DeviceWrite

LEMMA CrashRefines == ASSUME IInv, Crash PROVE Abstract!Crash
<1>1. \A s \in Sectors : tag'[SlotOf(s)] # s
  BY SlotOfType, SectorFacts DEF Crash
<1>2. disk = [s \in Sectors |-> disk[s]] /\ disk' = disk
  BY DEF Crash, IInv, TypeOK
<1>3. View' = disk
  BY <1>1, <1>2, ViewFacts
<1> QED BY <1>3, AbstractSets DEF Crash, Abstract!Crash

LEMMA StepRefines ==
    IInv /\ [Next]_vars => [Abstract!Next]_(Abstract!vars)
<1> SUFFICES ASSUME IInv, [Next]_vars
             PROVE  Abstract!Next \/ UNCHANGED Abstract!vars
  OBVIOUS
<1>1. ASSUME NEW s \in CachedSectors, CacheRead(s) PROVE Abstract!Next
  BY <1>1, CacheReadRefines, AbstractSets DEF Abstract!Next
<1>2. ASSUME NEW s \in CachedSectors, NEW v \in Values, CacheWrite(s, v)
      PROVE  Abstract!Next
  BY <1>2, CacheWriteRefines, AbstractSets DEF Abstract!Next
<1>3. ASSUME NEW d \in Devices, FlushBegin(d) PROVE Abstract!Next
  <2>1. Abstract!Settle /\ UNCHANGED View /\ ret' = Idle
    BY <1>3, QuietSettles, ViewFacts DEF FlushBegin, cacheVars, Hit
  <2> QED BY <2>1, AbstractSets DEF Abstract!Next, Abstract!Persist
<1>4. CASE FlushSlot
  BY <1>4, FlushSlotRefines DEF Abstract!Next
<1>5. CASE FlushEnd
  BY <1>5, FlushEndRefines DEF Abstract!Next
<1>6. ASSUME NEW s \in DirectSectors, NEW v \in Values, WriteFSInfo(s, v)
      PROVE  Abstract!Next
  BY <1>6, WriteFSInfoRefines, AbstractSets DEF Abstract!Next
<1>7. ASSUME NEW s \in Sectors, ReadDevice(s) PROVE Abstract!Next
  <2>1. UNCHANGED <<View, disk>>
    BY <1>7, ViewFacts DEF ReadDevice, cacheVars, Hit
  <2>2. Abstract!ReadDevice(s)
    BY <1>7, <2>1, AbstractSets DEF ReadDevice, Abstract!ReadDevice
  <2> QED BY <2>2, AbstractSets DEF Abstract!Next
<1>8. CASE Crash
  BY <1>8, CrashRefines DEF Abstract!Next
<1>9. CASE UNCHANGED vars
  BY <1>9, ViewFacts DEF vars, Abstract!vars, Hit
<1> QED BY <1>1, <1>2, <1>3, <1>4, <1>5, <1>6, <1>7, <1>8, <1>9 DEF Next

\* The cache of fat32.c is a write-back store: reads see the last write, a
\* flush reports success only when the device holds everything, and a crash
\* takes the content back to what the device holds.
THEOREM Refinement == Spec => ImplementsWriteBackStore
BY InitRefines, StepRefines, Invariance, PTL
   DEF Spec, ImplementsWriteBackStore, Abstract!Spec
=============================================================================
