----------------------------- MODULE KernelParts -----------------------------
(***************************************************************************)
(* The parts of the kernel and its drivers that keep no state in common:   *)
(* memory, processes, names, storage, and the devices of input and sound.  *)
(***************************************************************************)
EXTENDS Naturals, Sequences, FiniteSets

CONSTANTS
    None, Blank, Mixed,
    SpaceFrames, HeapPages, UserDirs, Kernel,                   \* AddressSpace
    StackPages, LastPage, MaxFrames, ProcessMax, MaxStarts, Modulus, \* Userland
    LongNames, ShortNames, Cut, Subs, Root, MaxSlots, MaxList, Ids, \* Directory
    Layouts, Images, MaxDevices, MaxSaves, MaxBoots,            \* Storage
    RingSize, PointerWidth, MaxKeys, MaxChanges, MaxPackets,    \* Input
    MaxLost, MaxRequests, MaxInterrupts,
    MaxSources, Ticks, MaxLength, MaxSounds, MaxClicks          \* Sound

\* What the proofs take of the constants: frames, pages and names that are not
\* mistaken for each other or for None; room for a program's segments below its
\* stack; a registry with room for the drive and the RAM disk; a listing, a
\* ring, a screen and a tick counter that are not empty, and tones that end
\* before half the counter has passed.
ASSUME SpaceAssumption ==
    /\ SpaceFrames \in Nat /\ HeapPages \in Nat /\ IsFiniteSet(UserDirs)
    /\ None # Kernel /\ None \notin 1 .. SpaceFrames /\ Kernel \notin 1 .. SpaceFrames
ASSUME UserAssumption ==
    /\ LastPage \in Nat /\ LastPage >= 3 /\ StackPages \subseteq 1 .. LastPage
    /\ MaxFrames \in Nat /\ ProcessMax \in Nat /\ Modulus \in Nat \ {0}
    /\ None \notin [frame : Nat, writable : BOOLEAN]
ASSUME NamesAssumption ==
    /\ LongNames \cap ShortNames = {} /\ Cut \in [LongNames -> ShortNames] /\ Root \notin Subs \cup Ids
    /\ None \notin Ids /\ MaxList \in Nat \ {0}
ASSUME StorageAssumption ==
    MaxSaves \in Nat /\ MaxDevices \in Nat /\ MaxDevices >= 2
    /\ Blank \notin Nat /\ Mixed \notin Nat \cup {Blank}
ASSUME InputAssumption ==
    RingSize \in Nat \ {0} /\ PointerWidth \in Nat \ {0} /\ MaxPackets \in Nat
ASSUME SoundAssumption ==
    /\ MaxSources \in Nat /\ MaxLength \in Nat \ {0}
    /\ Ticks \in Nat /\ MaxLength < Ticks \div 2

Segment(first, last, writable, sound) ==
    [first |-> first, last |-> last, writable |-> writable, sound |-> sound]

\* Text and data; segments that overlap; an image that ends too early.
Programs ==
    { <<Segment(1, 1, FALSE, TRUE), Segment(2, 3, TRUE, TRUE)>>,
      <<Segment(1, 2, FALSE, TRUE), Segment(2, 2, TRUE, TRUE)>>,
      <<Segment(1, 1, TRUE, FALSE)>> }

VARIABLES
    refs, data, root, heapTable, scratch, pte, state, cur, written, panic,
    pc, program, next, cr3, pd, pages, used, content, process, current, tss, pids,
    wrapped,
    slots, named, adopted,
    at, layout, image, disk, module, ram, preloaded, registry, volume, cached,
    saves, boots, failed, kept,
    ring, head, tail, count, held, typed, answers, clobbered, changes,
    packet, pointer, ready, sent, plain, lost, spoiled, seen, missed,
    pending, requests, owed, polling, load,
    backend, source, buffer, shifted, tick, gate, beeping, stopTick,
    channel, muted, slider, restarted, clicks, task, want, masked, sounds

Space == INSTANCE AddressSpace WITH MaxFrames <- SpaceFrames
User == INSTANCE Userland
Names == INSTANCE Directory
Store == INSTANCE Storage
Input == INSTANCE Input WITH Width <- PointerWidth, mixed <- spoiled, pc <- polling
Sound == INSTANCE Sound WITH drag <- slider

spaceVars == <<refs, data, root, heapTable, scratch, pte, state, cur, written, panic>>
userVars == <<pc, program, next, cr3, pd, pages, used, content, process, current, tss, pids,
              wrapped>>
namesVars == <<slots, named, adopted>>
storeVars == <<at, layout, image, disk, module, ram, preloaded, registry, volume, cached,
               saves, boots, failed, kept>>
inputVars == <<ring, head, tail, count, held, typed, answers, clobbered, changes, packet,
               pointer, ready, sent, plain, lost, spoiled, seen, missed, pending, requests,
               owed, polling, load>>
soundVars == <<backend, source, buffer, shifted, tick, gate, beeping, stopTick, channel,
               muted, slider, restarted, clicks, task, want, masked, sounds>>
=============================================================================
