------------------------------ MODULE Storage ------------------------------
(***************************************************************************)
(* Which device the system comes up on, and where what is saved goes: the  *)
(* storage part of kmain with ata_init, mbr_register_partitions, the       *)
(* registry of fs/blkdev.c and drivers/ramdisk.c, over power cycles.       *)
(*                                                                         *)
(* The content of a volume is the number of the last save it holds whole,  *)
(* or Mixed when sectors of several saves are on it; a new volume holds    *)
(* save 0.  A drive may refuse to answer at any moment.  The RAM disk is a *)
(* copy of the image the boot loader left in memory, and is copied back    *)
(* over it at each synchronisation.                                        *)
(***************************************************************************)
EXTENDS Naturals, Sequences, Functions

CONSTANTS
    Layouts,    \* where the drive has a FAT32 volume: "whole", "first" or "second"
                \* partition, "nowhere", "crowded" (four partitions, none formatted), "no drive"
    Images,     \* the boot loader's disk image: {"none", "too large", "blank", "volume"}
    MaxDevices, \* MAX_BLKDEVS
    MaxSaves,   \* bound on saves
    MaxBoots,   \* bound on power cycles
    Blank,      \* the content of what is not a volume
    Mixed       \* the content of a volume that holds some saves in part

VARIABLES
    at,         \* where kmain stands
    layout, image,
    disk,       \* what the drive's volume holds
    module,     \* what the image in memory holds
    ram,        \* what the RAM disk holds
    preloaded,  \* ramdisk_preloaded
    registry,   \* blkdev_table
    volume,     \* the device of volume 0; "" when none is mounted
    cached,     \* what the mounted volume holds, sector cache included
    saves, boots,
    failed,     \* history: something failed since power came on
    kept        \* history: the last save that was flushed whole to the drive

vars == <<at, layout, image, disk, module, ram, preloaded, registry, volume, cached,
          saves, boots, failed, kept>>
config == <<layout, image, saves, boots, kept>>

Contents == 0 .. MaxSaves
Steps == <<"ata", "mbr", "ramdisk", "hd0p1", "hd0", "ram0", "fsck", "up">>
After(step) == Steps[CHOOSE i \in 2 .. Len(Steps) : Steps[i - 1] = step]
Goto(step) == at' = step
HasDrive == layout # "no drive"
Registered(name) == name \in Range(registry)

Init ==
    /\ layout \in Layouts /\ image \in Images
    /\ at = "off" /\ disk = (IF layout \in {"no drive", "nowhere", "crowded"} THEN Blank ELSE 0)
    /\ module = Blank /\ ram = Blank /\ preloaded = FALSE
    /\ registry = <<>> /\ volume = "" /\ cached = Blank
    /\ saves = 0 /\ boots = 0 /\ failed = FALSE /\ kept = disk

-----------------------------------------------------------------------------
(* kmain. *)

\* The boot loader, scan_multiboot_modules, blkdev_init
PowerOn ==
    /\ at = "off" /\ boots < MaxBoots /\ boots' = boots + 1
    /\ Goto("ata")
    /\ module' = (IF image = "volume" THEN 0 ELSE Blank)
    /\ ram' = Blank /\ preloaded' = FALSE /\ registry' = <<>>
    /\ volume' = "" /\ cached' = Blank /\ failed' = FALSE
    /\ UNCHANGED <<layout, image, disk, saves, kept>>

\* A step that asks the drive may fail and then does nothing.
Refused ==
    /\ at \in {"ata", "mbr", "hd0p1", "hd0"} /\ HasDrive
    /\ Goto(After(at)) /\ failed' = TRUE
    /\ UNCHANGED <<disk, module, ram, preloaded, registry, volume, cached, config>>

\* blkdev_register refuses what no longer fits.
WithDevices(names) ==
    LET all == registry \o names
    IN  SubSeq(all, 1, IF Len(all) < MaxDevices THEN Len(all) ELSE MaxDevices)

Register(names) ==
    /\ registry' = WithDevices(names) /\ Goto(After(at))
    /\ UNCHANGED <<disk, module, ram, preloaded, volume, cached, failed, config>>

AtaInit == at = "ata" /\ Register(IF HasDrive THEN <<"hd0">> ELSE <<>>)

\* The entries of the partition table that are of a FAT32 type.
Partitions ==
    CASE layout = "first" -> <<"hd0p1">>
      [] layout = "second" -> <<"hd0p2">>
      [] layout = "crowded" -> <<"hd0p1", "hd0p2", "hd0p3", "hd0p4">>
      [] OTHER -> <<>>

RegisterPartitions == at = "mbr" /\ Register(IF Registered("hd0") THEN Partitions ELSE <<>>)

\* ramdisk_init: without memory, or with an image larger than the RAM disk,
\* no device is registered.
RamdiskInit ==
    /\ at = "ramdisk" /\ Goto(After(at))
    /\ \E memory \in BOOLEAN :
        IF memory /\ image # "too large" /\ Len(registry) < MaxDevices
          THEN /\ ram' = module /\ preloaded' = (image # "none")
               /\ registry' = Append(registry, "ram0") /\ UNCHANGED failed
          ELSE failed' = TRUE /\ UNCHANGED <<ram, preloaded, registry>>
    /\ UNCHANGED <<disk, module, volume, cached, config>>

\* fat32_mount: what the first sector of the device says.
Holds(dev) ==
    CASE dev = "ram0" -> ram
      [] dev = "hd0p1" /\ layout = "first" -> disk
      [] dev = "hd0" /\ layout = "whole" -> disk
      [] OTHER -> Blank

Mount(dev) == volume' = dev /\ cached' = Holds(dev) /\ Goto("fsck")

MountDrive ==
    /\ at \in {"hd0p1", "hd0"}
    /\ IF Registered(at) /\ Holds(at) # Blank THEN Mount(at)
       ELSE Goto(After(at)) /\ UNCHANGED <<volume, cached>>
    /\ UNCHANGED <<disk, module, ram, preloaded, registry, failed, config>>

\* Mutant: the drive is formatted when nothing on it could be mounted.
MountRamOrFormatDrive ==
    /\ at = "ram0" /\ Goto("fsck")
    /\ IF Registered("hd0")
         THEN disk' = 0 /\ cached' = 0 /\ volume' = "hd0" /\ UNCHANGED ram
         ELSE ram' = 0 /\ cached' = 0 /\ volume' = "ram0" /\ UNCHANGED disk
    /\ UNCHANGED <<module, preloaded, registry, failed, config>>

\* The RAM disk keeps its image when that mounts, and is formatted otherwise.
MountRam ==
    /\ at = "ram0" /\ Goto("fsck")
    /\ IF Registered("ram0")
         THEN /\ ram' = (IF preloaded /\ ram # Blank THEN ram ELSE 0)
              /\ cached' = ram' /\ volume' = "ram0"
         ELSE UNCHANGED <<ram, volume, cached>>
    /\ UNCHANGED <<disk, module, preloaded, registry, failed, config>>

\* fat32_fsck repairs what Fat32 has in detail; its result is only reported.
Checked ==
    /\ at = "fsck" /\ Goto("up")
    /\ UNCHANGED <<disk, module, ram, preloaded, registry, volume, cached, failed, config>>

-----------------------------------------------------------------------------
(* The session. *)

\* fat32_cache_flush of what the volume holds with its cache: sector by sector,
\* until the device refuses one.  The RAM disk never does.
Flushed(content, refused) ==
    \E reached \in (IF Holds(volume) = content THEN {content} ELSE {content, Mixed, Holds(volume)}) :
        /\ volume = "ram0" => reached = content /\ ~refused
        /\ ram' = (IF volume = "ram0" THEN reached ELSE ram)
        /\ disk' = (IF volume \in {"hd0", "hd0p1"} THEN reached ELSE disk)
        /\ kept' = (IF volume \in {"hd0", "hd0p1"} /\ reached = content /\ content # Mixed
                      THEN content ELSE kept)
        /\ failed' = (failed \/ refused \/ reached # content)

\* vfs_write: a transfer that is refused on the way leaves half a save in the
\* cache; what is there is flushed before it returns.
Save ==
    /\ at = "up" /\ volume # "" /\ saves < MaxSaves /\ saves' = saves + 1
    /\ \E refused \in BOOLEAN :
          /\ cached' = (IF refused THEN Mixed ELSE saves + 1)
          /\ Flushed(cached', refused)
    /\ UNCHANGED <<at, layout, image, module, preloaded, registry, volume, boots>>

\* ramdisk_sync_backing_store: the RAM disk goes back over the image.
Stored == module' = (IF preloaded THEN ram' ELSE module)

\* The deferred synchronisation of the desktop and the shell, and cmd_sync.
Sync ==
    /\ at = "up" /\ Flushed(cached, FALSE) /\ Stored
    /\ UNCHANGED <<at, layout, image, preloaded, registry, volume, cached, saves, boots>>

\* cmd_reboot synchronises and resets the machine.
Reboot ==
    /\ at = "up" /\ at' = "off" /\ Flushed(cached, FALSE) /\ Stored
    /\ UNCHANGED <<layout, image, preloaded, registry, volume, cached, saves, boots>>

PowerFailure ==
    /\ at # "off" /\ at' = "off"
    /\ UNCHANGED <<disk, module, ram, preloaded, registry, volume, cached, failed, config>>

Next ==
    \/ PowerOn \/ Refused \/ AtaInit \/ RegisterPartitions \/ RamdiskInit
    \/ MountDrive \/ MountRam \/ Checked
    \/ Save \/ Sync \/ Reboot \/ PowerFailure

Spec == Init /\ [][Next]_vars

-----------------------------------------------------------------------------
(* Properties. *)

TypeOK ==
    /\ at \in Range(Steps) \cup {"off"} /\ layout \in Layouts /\ image \in Images
    /\ {disk, module, ram, cached, kept} \subseteq Contents \cup {Blank, Mixed}
    /\ Range(registry) \subseteq {"hd0", "hd0p1", "hd0p2", "hd0p3", "hd0p4", "ram0"}
    /\ Len(registry) <= MaxDevices
    /\ volume \in Range(registry) \cup {""}
    /\ saves \in Contents /\ boots \in 0 .. MaxBoots
    /\ preloaded \in BOOLEAN /\ failed \in BOOLEAN

\* Whatever failed at boot and whatever the system fell back to, the drive holds
\* the last save that was flushed to it whole, or saves that were broken off since
\* have left their sectors among it.  A boot without failures comes up on the
\* drive's volume, with that save or a later one, and where there is none to be
\* found, on the RAM disk, which holds whole saves only.
DriveKept ==
    /\ disk \in {kept, Mixed} /\ Mixed \notin {kept, ram, module}
    /\ at = "up" /\ ~failed /\ layout \in {"whole", "first"} =>
          /\ volume = (IF layout = "whole" THEN "hd0" ELSE "hd0p1")
          /\ cached = Mixed \/ cached >= kept
    /\ at = "up" /\ ~failed /\ layout \notin {"whole", "first"} => volume = "ram0"
=============================================================================
