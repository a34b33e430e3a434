--------------------------- MODULE WriteBackStore ---------------------------
(***************************************************************************)
(* What the sector cache of fs/fat32.c promises the file system above it:  *)
(* a store with two views.  "content" is what a cached read sees at once   *)
(* after a cached write; "durable" is what the device holds and what is    *)
(* left after a power failure.  Any sector may move from the first view to *)
(* the second at any moment, a successful flush of a device means that the *)
(* two views of it agree, and direct device accesses see "durable" only.   *)
(***************************************************************************)
EXTENDS Naturals

CONSTANTS
    Devices,    \* the block devices
    LBAs,       \* sector numbers on a device
    Direct,     \* the sector numbers written past the cache (FSInfo)
    Values      \* contents of a sector

Sectors == Devices \X LBAs
CachedSectors == Devices \X (LBAs \ Direct)
DirectSectors == Devices \X Direct

VARIABLES content, durable, ret

vars == <<content, durable, ret>>

Idle == <<"none">>
Failed == <<"failed">>

Init ==
    /\ durable \in [Sectors -> Values]
    /\ content = durable
    /\ ret = Idle

\* Any sectors reach the device.
Settle ==
    durable' \in {f \in [Sectors -> Values] :
                    \A s \in Sectors : f[s] \in {durable[s], content[s]}}

Read(s) ==
    /\ Settle
    /\ ret' \in {<<"read", s, content[s]>>, Failed}
    /\ UNCHANGED content

Write(s, v) ==
    /\ Settle
    /\ \/ content' = [content EXCEPT ![s] = v] /\ ret' = <<"wrote", s>>
       \/ UNCHANGED content /\ ret' = Failed

\* Both views change at once; a failed write may have reached the device.
WriteThrough(s, v) ==
    \/ /\ content' = [content EXCEPT ![s] = v]
       /\ durable' = [durable EXCEPT ![s] = v]
       /\ ret' \in {<<"wrote", s>>, Failed}
    \/ UNCHANGED <<content, durable>> /\ ret' = Failed

ReadDevice(s) ==
    /\ ret' \in {<<"device", s, durable[s]>>, Failed}
    /\ UNCHANGED <<content, durable>>

Persist ==
    /\ Settle
    /\ ret' \in {Idle, Failed}
    /\ UNCHANGED content

Flushed(d) ==
    /\ \A s \in Sectors : s[1] = d => content[s] = durable[s]
    /\ ret' = <<"flushed", d>>
    /\ UNCHANGED <<content, durable>>

Crash ==
    /\ content' = durable
    /\ ret' = Idle
    /\ UNCHANGED durable

Next ==
    \/ \E s \in CachedSectors : Read(s) \/ \E v \in Values : Write(s, v)
    \/ \E s \in DirectSectors, v \in Values : WriteThrough(s, v)
    \/ \E s \in Sectors : ReadDevice(s)
    \/ \E d \in Devices : Flushed(d)
    \/ Persist
    \/ Crash

Spec == Init /\ [][Next]_vars
=============================================================================
