-------------------------------- MODULE Pmm --------------------------------
(***************************************************************************)
(* The physical page manager, mem/pmm.c: a bitmap with one bit per page    *)
(* (here the set "used" of pages whose bit is 1), a reference count per    *)
(* page, a count of used pages and the index of the lowest page that may   *)
(* still be free, from which allocations start to scan.                    *)
(*                                                                         *)
(* The scan is kept at the granularity of the code: a first pass over the  *)
(* words of the bitmap from the hint's word on, ignoring the bits below    *)
(* the hint, and a second pass over the words before the hint's word only. *)
(* The bits of the hint's own word that lie below the hint are never       *)
(* looked at, so finding a free page rests on where the hint points.       *)
(*                                                                         *)
(* reserved, held and ret are history: what the boot code set aside, the   *)
(* references the callers of the allocator own, and its last answer.       *)
(***************************************************************************)
EXTENDS Naturals, FiniteSets

CONSTANTS
    NPages,       \* MAX_PAGES, a multiple of the word size
    WordBits,     \* pages per word of the bitmap (32)
    RefMax,       \* the largest reference count a uint16_t holds (0xFFFF)
    ClientRefs,   \* references the callers may own to one page
    None          \* the null address

ASSUME PmmAssumption ==
    /\ NPages \in Nat \ {0}
    /\ WordBits \in Nat \ {0}
    /\ RefMax \in Nat \ {0}
    /\ ClientRefs \in 1 .. RefMax
    /\ None \notin Nat

Pages == 0 .. NPages - 1

VARIABLES
    used,         \* bitmap: the pages whose bit is set
    refcount,     \* refcount[p]
    totalPages,   \* total_pages
    usedPages,    \* used_pages
    hint,         \* first_free_hint
    reserved, held, ret

pmmVars == <<used, refcount, totalPages, usedPages, hint>>
vars == <<used, refcount, totalPages, usedPages, hint, reserved, held, ret>>

-----------------------------------------------------------------------------
(* Scanning the bitmap. *)

Word(p) == p \div WordBits

Clear(bits) == Pages \ bits

Lowest(S) == CHOOSE p \in S : \A q \in S : p <= q
Highest(S) == CHOOSE p \in S : \A q \in S : p >= q

\* The clear bits the first and the second pass can see below a limit.
FirstPass(bits, start, limit) ==
    {p \in Clear(bits) : p >= start /\ p < limit}

SecondPass(bits, start, limit) ==
    {p \in Clear(bits) : Word(p) < Word(start) /\ p < limit}

\* The page both allocation loops settle on.
Scan(bits, start, limit) ==
    IF FirstPass(bits, start, limit) # {}
      THEN Lowest(FirstPass(bits, start, limit))
    ELSE IF SecondPass(bits, start, limit) # {}
      THEN Lowest(SecondPass(bits, start, limit))
    ELSE None

\* pmm_alloc_page_below restarts at page 0 when the hint is past the limit.
ScanBelow(limit) ==
    Scan(used, IF hint >= limit THEN 0 ELSE hint, limit)

\* pmm_alloc_page gives up at the first clear bit past the end of memory.
ScanAny ==
    LET p == Scan(used, hint, NPages)
    IN  IF p # None /\ p < totalPages THEN p ELSE None

-----------------------------------------------------------------------------
(* pmm_init: every bit is set, the usable regions of the boot map are      *)
(* cleared, the end of the highest region becomes the end of memory (all   *)
(* of the 32-bit space when a region lies above it), and the first         *)
(* megabyte (which holds page 0), the kernel image and the boot structures *)
(* are set again, with no reference counted.                               *)

\* Mutant: without the fallback for a boot map that names no usable region.
EndOfMemoryNoFallback(usable) ==
    IF usable = {} THEN 0 ELSE Highest(usable) + 1

EndOfMemory(usable) ==
    IF usable = {} THEN NPages
    ELSE Highest(usable) + 1

PmmInit(usable, keep) ==
    /\ totalPages \in {EndOfMemory(usable), NPages}
    /\ used = (Pages \ usable) \cup {p \in keep : p < totalPages}
    /\ usedPages = Cardinality({p \in used : p < totalPages})
    /\ refcount = [p \in Pages |-> 0]
    /\ hint = 0

Init ==
    /\ \E usable, keep \in SUBSET Pages : 0 \in keep /\ PmmInit(usable, keep)
    /\ reserved = used
    /\ held = [p \in Pages |-> 0]
    /\ ret = [limit |-> 0, page |-> None]

-----------------------------------------------------------------------------
(* Allocation. *)

\* Take page p: the common tail of the four places a scan succeeds in.
Take(p) ==
    /\ used' = used \cup {p}
    /\ usedPages' = usedPages + 1
    /\ refcount' = [refcount EXCEPT ![p] = 1]
    /\ hint' = p + 1
    /\ held' = [held EXCEPT ![p] = 1]
    /\ UNCHANGED <<totalPages, reserved>>

Answer(limit, p) ==
    /\ ret' = [limit |-> limit, page |-> p]
    /\ IF p = None THEN UNCHANGED <<pmmVars, reserved, held>> ELSE Take(p)

AllocPage == Answer(NPages, ScanAny)

AllocPageBelow(limit) ==
    Answer(limit, IF limit = 0 THEN None ELSE ScanBelow(limit))

-----------------------------------------------------------------------------
(* References. *)

\* Mutant: the freed page does not pull the hint back.
ReleaseKeepsHint(p) ==
    /\ refcount' = [refcount EXCEPT ![p] = 0]
    /\ used' = used \ {p}
    /\ usedPages' = usedPages - 1
    /\ UNCHANGED <<totalPages, hint>>

\* The last reference is gone: clear the bit and let the hint fall back.
Release(p) ==
    /\ refcount' = [refcount EXCEPT ![p] = 0]
    /\ used' = used \ {p}
    /\ usedPages' = usedPages - 1
    /\ hint' = IF p < hint THEN p ELSE hint
    /\ UNCHANGED totalPages

\* Mutant: a page with no counted reference is released like the last one.
DropRefUncounted(p) ==
    IF p >= totalPages \/ p \notin used
      THEN UNCHANGED pmmVars
    ELSE IF refcount[p] > 1
      THEN /\ refcount' = [refcount EXCEPT ![p] = @ - 1]
           /\ UNCHANGED <<used, totalPages, usedPages, hint>>
    ELSE Release(p)

\* The body of pmm_free_page and pmm_ref_dec, which differ in the order of
\* the tests only: nothing happens to a page out of range, clear or reserved.
DropRef(p) ==
    IF p >= totalPages \/ p \notin used \/ refcount[p] = 0
      THEN UNCHANGED pmmVars
    ELSE IF refcount[p] > 1
      THEN /\ refcount' = [refcount EXCEPT ![p] = @ - 1]
           /\ UNCHANGED <<used, totalPages, usedPages, hint>>
    ELSE Release(p)

FreePage(p) ==
    /\ held[p] > 0
    /\ DropRef(p)
    /\ held' = [held EXCEPT ![p] = @ - 1]
    /\ UNCHANGED <<reserved, ret>>

\* A stray or repeated free of a page nobody holds.
StrayFree(p) ==
    /\ held[p] = 0
    /\ DropRef(p)
    /\ UNCHANGED <<reserved, held, ret>>

\* Mutant: the second owner of a page is not counted.
RefIncForgotten(p) ==
    /\ held[p] \in 1 .. ClientRefs - 1
    /\ held' = [held EXCEPT ![p] = @ + 1]
    /\ UNCHANGED <<pmmVars, reserved, ret>>

\* pmm_ref_inc, called by an owner of the page; the count saturates.
RefInc(p) ==
    /\ held[p] \in 1 .. ClientRefs - 1
    /\ IF p >= totalPages \/ p \notin used
         THEN UNCHANGED refcount
         ELSE refcount' =
                [refcount EXCEPT ![p] = IF @ < RefMax THEN @ + 1 ELSE RefMax]
    /\ held' = [held EXCEPT ![p] = @ + 1]
    /\ UNCHANGED <<used, totalPages, usedPages, hint, reserved, ret>>

\* pmm_mark_used, which scan_multiboot_modules calls for the pages of every
\* boot module; pages past the end of memory are ignored.
MarkUsed(p) ==
    /\ p < totalPages
    /\ held[p] = 0
    /\ used' = used \cup {p}
    /\ usedPages' = IF p \in used THEN usedPages ELSE usedPages + 1
    /\ refcount' = [refcount EXCEPT ![p] = IF @ = 0 THEN 1 ELSE @]
    /\ hint' = IF p = hint THEN p + 1 ELSE hint
    /\ held' = [held EXCEPT ![p] = 1]
    /\ reserved' = reserved \ {p}
    /\ UNCHANGED <<totalPages, ret>>

Next ==
    \/ AllocPage
    \/ \E limit \in 0 .. NPages : AllocPageBelow(limit)
    \/ \E p \in Pages : FreePage(p) \/ StrayFree(p) \/ RefInc(p) \/ MarkUsed(p)

Spec == Init /\ [][Next]_vars

-----------------------------------------------------------------------------
(* Properties. *)

TypeOK ==
    /\ used \subseteq Pages
    /\ refcount \in [Pages -> 0 .. RefMax]
    /\ totalPages \in 1 .. NPages
    /\ usedPages \in Nat
    /\ hint \in 0 .. NPages
    /\ reserved \subseteq Pages
    /\ held \in [Pages -> 0 .. ClientRefs]
    /\ ret \in [limit : 0 .. NPages, page : Pages \cup {None}]

\* The scans only look at part of the bitmap: they are complete because no
\* page below first_free_hint is ever free, whatever sequence of bounded
\* allocations, frees and boot-time claims moved the hint (pmm.c:333, :452).
HintSound == \A p \in Pages : p < hint => p \in used

\* used_pages counts the set bits below the end of memory (pmm.c:442).
Counted == {p \in used : p < totalPages}
UsedCount == usedPages = Cardinality(Counted)

\* The bit, the count and the owners of a page agree: a page past the end of
\* memory or reserved at boot is in use with no owner, a page whose bit is
\* clear has no reference, and the count of any other page is the number of
\* references its owners hold.
PageStates ==
    \A p \in Pages :
        /\ p >= totalPages => p \in used /\ held[p] = 0
        /\ p \in reserved => p \in used /\ held[p] = 0
        /\ p \in used /\ held[p] = 0 => p \in reserved
        /\ p \notin used => held[p] = 0
        /\ refcount[p] = held[p]

\* The three records of what is in use, kept by different routines, agree.
Accounting == UsedCount /\ PageStates

\* The allocator implements FrameAllocator: an allocation fails only if no
\* eligible page is free, never returns a page someone holds or the boot map
\* reserved, and a page becomes free exactly when its last owner drops it.
Abstract == INSTANCE FrameAllocator WITH free <- Clear(used)

ImplementsFrameAllocator == Abstract!Spec
=============================================================================
