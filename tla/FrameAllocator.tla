--------------------------- MODULE FrameAllocator ---------------------------
(***************************************************************************)
(* What the physical page allocator of mem/pmm.c promises to the rest of   *)
(* the kernel, without saying how a page is found.  A page is free,        *)
(* reserved by the boot map (nobody counts references to it), or held,     *)
(* with the number of references its holders own.                          *)
(***************************************************************************)
EXTENDS Naturals

CONSTANTS
    NPages,     \* pages 0 .. NPages-1 can be described
    None        \* the null address a failed allocation returns

Pages == 0 .. NPages - 1

VARIABLES
    free,       \* pages an allocation may return
    reserved,   \* pages the boot code set aside and nobody has claimed
    held,       \* held[p]: references the clients own to page p
    ret         \* the last allocation: the limit asked for, the page returned

vars == <<free, reserved, held, ret>>

Init ==
    /\ free \in SUBSET Pages
    /\ reserved \in SUBSET (Pages \ free)
    /\ held = [p \in Pages |-> 0]
    /\ ret = [limit |-> 0, page |-> None]

\* An allocation below a limit hands out a free page to one holder, and fails
\* only when no page below the limit is free.
Alloc(limit) ==
    \/ \E p \in free :
          /\ p < limit
          /\ ret' = [limit |-> limit, page |-> p]
          /\ free' = free \ {p}
          /\ held' = [held EXCEPT ![p] = 1]
          /\ UNCHANGED reserved
    \/ /\ \A p \in free : p >= limit
       /\ ret' = [limit |-> limit, page |-> None]
       /\ UNCHANGED <<free, reserved, held>>

\* Dropping a reference frees the page exactly when it was the last one.
Drop(p) ==
    /\ held[p] > 0
    /\ held' = [held EXCEPT ![p] = @ - 1]
    /\ free' = IF held[p] = 1 THEN free \cup {p} ELSE free
    /\ UNCHANGED <<reserved, ret>>

Share(p) ==
    /\ held[p] > 0
    /\ held' = [held EXCEPT ![p] = @ + 1]
    /\ UNCHANGED <<free, reserved, ret>>

\* Boot code takes a page nobody holds, reserved or free, for itself.
Claim(p) ==
    /\ held[p] = 0
    /\ held' = [held EXCEPT ![p] = 1]
    /\ free' = free \ {p}
    /\ reserved' = reserved \ {p}
    /\ UNCHANGED ret

Next ==
    \/ \E limit \in 0 .. NPages : Alloc(limit)
    \/ \E p \in Pages : Drop(p) \/ Share(p) \/ Claim(p)

Spec == Init /\ [][Next]_vars
=============================================================================
