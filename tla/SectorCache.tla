---------------------------- MODULE SectorCache ----------------------------
(***************************************************************************)
(* The write-back sector cache of fs/fat32.c: a direct-mapped table shared *)
(* by all volumes, where sector number "lba" of any device can only live   *)
(* in slot lba % FAT32_CACHE_BLOCKS.  A miss evicts the slot's sector,     *)
(* writing it first when it is dirty; a flush walks the slots in order and *)
(* writes the dirty ones of one device.  The two FSInfo sectors are        *)
(* written directly, and the VFS reads directory and FAT sectors directly. *)
(*                                                                         *)
(* The device may refuse any transfer.  A refused write may still have     *)
(* reached the disk: ata_block_write also fails when the drive's answer to *)
(* its final flush command does not come.  A refused read leaves the       *)
(* caller's buffer as it was.                                              *)
(***************************************************************************)
EXTENDS Naturals

CONSTANTS
    Devices,    \* the block devices volumes are mounted on
    NLba,       \* sectors 0 .. NLba-1 of a device are modelled
    NSlots,     \* FAT32_CACHE_BLOCKS
    Direct,     \* sector numbers only written past the cache (FSInfo)
    Values,     \* contents of a sector
    Zero,       \* the content of memory at boot
    Nothing     \* the owner of an invalid slot

ASSUME CacheAssumption ==
    /\ NLba \in Nat \ {0}
    /\ NSlots \in Nat \ {0}
    /\ Direct \subseteq 0 .. NLba - 1
    /\ Zero \in Values
    /\ Nothing \notin Devices \X (0 .. NLba - 1)
    /\ Nothing \notin Devices

LBAs == 0 .. NLba - 1
Sectors == Devices \X LBAs
CachedSectors == Devices \X (LBAs \ Direct)
DirectSectors == Devices \X Direct
Slots == 0 .. NSlots - 1

VARIABLES
    disk,       \* disk[s]: what the device holds
    tag,        \* tag[i]: the sector in slot i (valid, lba and owner)
    dirty,      \* dirty[i]
    data,       \* data[i]
    flushing,   \* the device a flush is walking the slots for
    cursor,     \* the next slot it looks at
    ret         \* what the last call answered

cacheVars == <<tag, dirty, data>>
vars == <<disk, tag, dirty, data, flushing, cursor, ret>>

Idle == <<"none">>
Failed == <<"failed">>

SlotOf(s) == s[2] % NSlots

\* Mutant: sectors of two devices with the same number are taken for one.
HitAnyDevice(s) == LET t == tag[SlotOf(s)] IN t # Nothing /\ t[2] = s[2]

Hit(s) == tag[SlotOf(s)] = s

Init ==
    /\ disk \in [Sectors -> Values]
    /\ tag = [i \in Slots |-> Nothing]
    /\ dirty = [i \in Slots |-> FALSE]
    /\ data = [i \in Slots |-> Zero]
    /\ flushing = Nothing
    /\ cursor = 0
    /\ ret = Idle

-----------------------------------------------------------------------------
(* Transfers. *)

\* A write of v to sector s that the device accepts or refuses.
DeviceWrite(s, v, ok) ==
    \/ disk' = [disk EXCEPT ![s] = v]
    \/ ~ok /\ disk' = disk

\* cache_flush_slot: only a valid dirty slot is written.
WriteBack(i, ok) ==
    IF tag[i] = Nothing \/ ~dirty[i]
      THEN ok /\ disk' = disk
      ELSE DeviceWrite(tag[i], data[i], ok)

\* Slot i is about to take in sector s: the outcome of writing it back, then
\* the outcome of the transfer that fills it.
Fails(i) ==
    /\ WriteBack(i, FALSE)
    /\ ret' = Failed
    /\ UNCHANGED cacheVars

-----------------------------------------------------------------------------
(* Cached accesses; no flush is under way in any of them. *)

ReadHit(s) ==
    /\ Hit(s)
    /\ ret' = <<"read", s, data[SlotOf(s)]>>
    /\ UNCHANGED <<disk, cacheVars>>

ReadMiss(s) ==
    LET i == SlotOf(s)
    IN  /\ ~Hit(s)
        /\ \/ Fails(i)
           \/ /\ WriteBack(i, TRUE)
              /\ dirty' = [dirty EXCEPT ![i] = FALSE]
              /\ \/ /\ tag' = [tag EXCEPT ![i] = s]
                    /\ data' = [data EXCEPT ![i] = disk[s]]
                    /\ ret' = <<"read", s, disk[s]>>
                 \/ /\ ret' = Failed
                    /\ UNCHANGED <<tag, data>>

CacheRead(s) ==
    /\ flushing = Nothing
    /\ ReadHit(s) \/ ReadMiss(s)
    /\ UNCHANGED <<flushing, cursor>>

\* Mutant: the slot keeps the owner of the sector it held before.
FillKeepsOwner(i, s, v) ==
    /\ tag' = [tag EXCEPT ![i] =
                 <<IF @ = Nothing THEN Nothing ELSE @[1], s[2]>>]
    /\ data' = [data EXCEPT ![i] = v]
    /\ dirty' = [dirty EXCEPT ![i] = TRUE]
    /\ ret' = <<"wrote", s>>

\* Mutant: the slot taken over by a write keeps its old dirty bit.
FillClean(i, s, v) ==
    /\ tag' = [tag EXCEPT ![i] = s]
    /\ data' = [data EXCEPT ![i] = v]
    /\ ret' = <<"wrote", s>>
    /\ UNCHANGED dirty

Fill(i, s, v) ==
    /\ tag' = [tag EXCEPT ![i] = s]
    /\ data' = [data EXCEPT ![i] = v]
    /\ dirty' = [dirty EXCEPT ![i] = TRUE]
    /\ ret' = <<"wrote", s>>

CacheWrite(s, v) ==
    LET i == SlotOf(s)
    IN  /\ flushing = Nothing
        /\ \/ Hit(s) /\ Fill(i, s, v) /\ UNCHANGED disk
           \/ ~Hit(s) /\ WriteBack(i, TRUE) /\ Fill(i, s, v)
           \/ ~Hit(s) /\ Fails(i)
        /\ UNCHANGED <<flushing, cursor>>

-----------------------------------------------------------------------------
(* fat32_cache_flush, one slot at a time. *)

FlushBegin(d) ==
    /\ flushing = Nothing
    /\ flushing' = d
    /\ cursor' = 0
    /\ ret' = Idle
    /\ UNCHANGED <<disk, cacheVars>>

Owner(i) == IF tag[i] = Nothing THEN Nothing ELSE tag[i][1]

\* Mutant: the walk goes on past a slot the device refused.
FlushSlotSkips ==
    /\ flushing # Nothing /\ cursor < NSlots
    /\ \/ Owner(cursor) # flushing /\ UNCHANGED <<disk, dirty>>
       \/ /\ Owner(cursor) = flushing
          /\ \E ok \in BOOLEAN :
                /\ WriteBack(cursor, ok)
                /\ dirty' = [dirty EXCEPT ![cursor] = @ /\ ~ok]
    /\ cursor' = cursor + 1
    /\ UNCHANGED <<tag, data, flushing, ret>>

FlushSlot ==
    /\ flushing # Nothing /\ cursor < NSlots
    /\ \/ /\ Owner(cursor) # flushing
          /\ cursor' = cursor + 1
          /\ UNCHANGED <<disk, cacheVars, flushing, ret>>
       \/ /\ Owner(cursor) = flushing
          /\ WriteBack(cursor, TRUE)
          /\ dirty' = [dirty EXCEPT ![cursor] = FALSE]
          /\ cursor' = cursor + 1
          /\ UNCHANGED <<tag, data, flushing, ret>>
       \/ /\ Owner(cursor) = flushing
          /\ Fails(cursor)
          /\ flushing' = Nothing
          /\ cursor' = 0

FlushEnd ==
    /\ flushing # Nothing /\ cursor = NSlots
    /\ ret' = <<"flushed", flushing>>
    /\ flushing' = Nothing
    /\ cursor' = 0
    /\ UNCHANGED <<disk, cacheVars>>

-----------------------------------------------------------------------------
(* Accesses past the cache. *)

Invalidate(s) ==
    LET i == SlotOf(s)
    IN  IF Hit(s)
          THEN /\ tag' = [tag EXCEPT ![i] = Nothing]
               /\ dirty' = [dirty EXCEPT ![i] = FALSE]
               /\ UNCHANGED data
          ELSE UNCHANGED cacheVars

\* One of the two sector writes of fat32_update_fsinfo.
WriteFSInfo(s, v) ==
    /\ flushing = Nothing
    /\ \/ DeviceWrite(s, v, TRUE) /\ Invalidate(s) /\ ret' = <<"wrote", s>>
       \/ DeviceWrite(s, v, FALSE) /\ UNCHANGED cacheVars /\ ret' = Failed
    /\ UNCHANGED <<flushing, cursor>>

\* The direct reads of fat32_update_fsinfo and of the VFS.
ReadDevice(s) ==
    /\ flushing = Nothing
    /\ ret' \in {<<"device", s, disk[s]>>, Failed}
    /\ UNCHANGED <<disk, cacheVars, flushing, cursor>>

\* Power failure and reboot: the cache is memory.
Crash ==
    /\ tag' = [i \in Slots |-> Nothing]
    /\ dirty' = [i \in Slots |-> FALSE]
    /\ data' = [i \in Slots |-> Zero]
    /\ flushing' = Nothing
    /\ cursor' = 0
    /\ ret' = Idle
    /\ UNCHANGED disk

Next ==
    \/ \E s \in CachedSectors : CacheRead(s) \/ \E v \in Values : CacheWrite(s, v)
    \/ \E d \in Devices : FlushBegin(d)
    \/ FlushSlot
    \/ FlushEnd
    \/ \E s \in DirectSectors, v \in Values : WriteFSInfo(s, v)
    \/ \E s \in Sectors : ReadDevice(s)
    \/ Crash

Spec == Init /\ [][Next]_vars

-----------------------------------------------------------------------------
(* Properties. *)

Answers ==
    {Idle, Failed}
      \cup {<<"read", s, v>> : s \in Sectors, v \in Values}
      \cup {<<"device", s, v>> : s \in Sectors, v \in Values}
      \cup {<<"wrote", s>> : s \in Sectors}
      \cup {<<"flushed", d>> : d \in Devices}

TypeOK ==
    /\ disk \in [Sectors -> Values]
    /\ tag \in [Slots -> CachedSectors \cup {Nothing}]
    /\ dirty \in [Slots -> BOOLEAN]
    /\ data \in [Slots -> Values]
    /\ flushing \in Devices \cup {Nothing}
    /\ cursor \in 0 .. NSlots
    /\ ret \in Answers

\* A slot whose dirty bit is clear holds what the device holds: whatever
\* sequence of evictions, refused transfers and direct writes led there, no
\* eviction can lose an update, and no clean slot is stale.
CleanIsCurrent ==
    \A i \in Slots : tag[i] # Nothing /\ ~dirty[i] => data[i] = disk[tag[i]]

\* A flush leaves no dirty slot of its device behind its cursor, although it
\* looks at the slots one by one and the device may refuse each write.
FlushedBehind ==
    \A i \in Slots : i < cursor /\ Owner(i) = flushing => ~dirty[i]

\* The cache implements WriteBackStore: a read sees the last write, a flush
\* that reports success left everything on the device, a crash loses at most
\* what was not flushed.
View == [s \in Sectors |-> IF Hit(s) THEN data[SlotOf(s)] ELSE disk[s]]

Abstract == INSTANCE WriteBackStore WITH content <- View, durable <- disk

ImplementsWriteBackStore == Abstract!Spec
=============================================================================
