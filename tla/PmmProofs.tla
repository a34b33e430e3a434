----------------------------- MODULE PmmProofs -----------------------------
(***************************************************************************)
(* Proofs about Pmm for every number of pages, word size and bound on the  *)
(* reference counts: the invariant that makes the partial scans complete,  *)
(* and the refinement of FrameAllocator.                                   *)
(***************************************************************************)
EXTENDS Pmm, FiniteSetTheorems, TLAPS

\* The inductive invariant.
IInv == TypeOK /\ HintSound /\ Accounting

-----------------------------------------------------------------------------
(* Facts about the operators. *)

LEMMA PagesFacts == IsFiniteSet(Pages) /\ Pages \subseteq Nat
  BY PmmAssumption, FS_Interval DEF Pages

\* A nonempty set of pages has a lowest element.
LEMMA LowestFacts ==
  ASSUME NEW S \in SUBSET Pages, S # {}
  PROVE  Lowest(S) \in S /\ \A q \in S : Lowest(S) <= q
  <1>1. S \subseteq Nat
    BY PagesFacts
  <1>2. PICK p \in S : \A q \in S : <<q, p>> \notin OpToRel(<, Nat)
    BY <1>1, WFMin, NatLessThanWellFounded, Zenon
  <1>3. \A q \in S : ~ (q < p)
    BY <1>1, <1>2, Zenon DEF OpToRel
  <1>4. \A q \in S : p <= q
    BY <1>1, <1>3
  <1>5. QED
    BY <1>4 DEF Lowest

\* A nonempty set of pages has a highest element: the lowest of the mirrored set.
LEMMA HighestFacts ==
  ASSUME NEW S \in SUBSET Pages, S # {}
  PROVE  Highest(S) \in S /\ \A q \in S : Highest(S) >= q
  <1> DEFINE M(p) == NPages - 1 - p
             T == {t \in Pages : M(t) \in S}
  <1>1. \A p \in Pages : M(p) \in Pages /\ M(M(p)) = p
    BY PmmAssumption DEF Pages
  <1>2. T \in SUBSET Pages /\ T # {}
    BY <1>1
  <1>3. PICK t \in T : \A u \in T : t <= u
    BY <1>2, LowestFacts
  <1>4. \A q \in S : M(q) \in T
    BY <1>1
  <1>5. \A q \in S : M(t) >= q
    BY <1>1, <1>3, <1>4, PmmAssumption DEF Pages
  <1>6. QED
    BY <1>3, <1>5 DEF Highest

\* The word index is monotone: an earlier word holds lower pages.
LEMMA WordMonotone ==
  ASSUME NEW p \in Nat, NEW q \in Nat, Word(p) < Word(q)
  PROVE  p < q
  <1>1. WordBits \in Nat /\ WordBits > 0
    BY PmmAssumption
  <1>2. /\ p \div WordBits \in Nat /\ q \div WordBits \in Nat
        /\ p < WordBits * ((p \div WordBits) + 1)
        /\ WordBits * (q \div WordBits) <= q
    BY <1>1
  <1>3. WordBits * ((p \div WordBits) + 1) <= WordBits * (q \div WordBits)
    BY <1>1, <1>2 DEF Word
  <1>4. QED
    BY <1>1, <1>2, <1>3

\* With every page below the start of the scan in use, the two passes find the
\* lowest free page below the limit, if there is one: skipping the low bits of
\* the first word and never reaching the second pass loses nothing.
LEMMA ScanFacts ==
  ASSUME NEW bits \in SUBSET Pages, NEW start \in Nat, NEW limit \in Nat,
         \A p \in Pages : p < start => p \in bits
  PROVE  \/ /\ Scan(bits, start, limit) = None
            /\ \A p \in Pages : p < limit => p \in bits
         \/ /\ Scan(bits, start, limit) \in Pages \ bits
            /\ Scan(bits, start, limit) < limit
            /\ \A p \in Pages : p < Scan(bits, start, limit) => p \in bits
  <1> DEFINE F == FirstPass(bits, start, limit)
             S == SecondPass(bits, start, limit)
  <1>1. Pages \subseteq Nat
    BY PagesFacts
  <1>2. F \in SUBSET Pages /\ S \in SUBSET Pages
    BY DEF FirstPass, SecondPass, Clear
  <1>3. S = {}
    BY <1>1, WordMonotone DEF SecondPass, Clear
  <1>4. CASE F = {}
    <2>1. Scan(bits, start, limit) = None
      BY <1>3, <1>4 DEF Scan
    <2>2. \A p \in Pages : p < limit => p \in bits
      BY <1>1, <1>4 DEF FirstPass, Clear
    <2>3. QED
      BY <2>1, <2>2
  <1>5. CASE F # {}
    <2>1. Scan(bits, start, limit) = Lowest(F)
      BY <1>5 DEF Scan
    <2>2. PICK s \in F : s = Lowest(F) /\ \A q \in F : s <= q
      BY <1>2, <1>5, LowestFacts
    <2>3. s \in Pages \ bits /\ s < limit /\ s \in Nat
      BY <1>1 DEF FirstPass, Clear
    <2>4. \A p \in Pages : p < s => p \in bits
      <3> SUFFICES ASSUME NEW p \in Pages, p < s
                   PROVE  p \in bits
        OBVIOUS
      <3>1. p \in Nat
        BY <1>1
      <3>2. p \notin F
        <4> HIDE DEF F
        <4> QED BY <2>2, <2>3, <3>1
      <3>3. p < limit
        BY <2>3, <3>1
      <3>4. QED
        BY <3>1, <3>2, <3>3 DEF FirstPass, Clear
    <2>5. QED
      BY <2>1, <2>2, <2>3, <2>4
  <1>6. QED
    BY <1>4, <1>5

\* What each allocation routine returns in a state of the invariant.
LEMMA ScanBelowFacts ==
  ASSUME IInv, NEW limit \in 0 .. NPages
  PROVE  \/ /\ ScanBelow(limit) = None
            /\ \A p \in Pages : p < limit => p \in used
         \/ /\ ScanBelow(limit) \in Pages \ used
            /\ ScanBelow(limit) < limit
            /\ \A p \in Pages : p < ScanBelow(limit) => p \in used
  <1> DEFINE start == IF hint >= limit THEN 0 ELSE hint
  <1>1. used \in SUBSET Pages /\ start \in Nat /\ limit \in Nat
    BY PmmAssumption DEF IInv, TypeOK
  <1>2. \A p \in Pages : p < start => p \in used
    BY PagesFacts DEF IInv, HintSound
  <1>3. ScanBelow(limit) = Scan(used, start, limit)
    BY DEF ScanBelow
  <1> HIDE DEF start
  <1>4. QED
    BY <1>1, <1>2, <1>3, ScanFacts

LEMMA ScanAnyFacts ==
  ASSUME IInv
  PROVE  \/ /\ ScanAny = None
            /\ \A p \in Pages : p \in used
         \/ /\ ScanAny \in Pages \ used
            /\ ScanAny < NPages
            /\ \A p \in Pages : p < ScanAny => p \in used
  <1> DEFINE s == Scan(used, hint, NPages)
  <1>1. used \in SUBSET Pages /\ hint \in Nat /\ NPages \in Nat
    BY PmmAssumption DEF IInv, TypeOK
  <1>2. \/ /\ s = None
           /\ \A p \in Pages : p < NPages => p \in used
        \/ /\ s \in Pages \ used
           /\ s < NPages
           /\ \A p \in Pages : p < s => p \in used
    BY <1>1, ScanFacts DEF IInv, HintSound
  <1>3. \A p \in Pages \ used : p < totalPages
    BY PagesFacts DEF IInv, TypeOK, Accounting, PageStates
  <1>4. ScanAny = s
    BY <1>2, <1>3 DEF ScanAny
  <1>5. QED
    BY <1>1, <1>2, <1>4 DEF Pages

-----------------------------------------------------------------------------
(* The count of used pages follows the bitmap. *)

LEMMA CountedFinite ==
  ASSUME TypeOK
  PROVE  IsFiniteSet(Counted)
  BY PagesFacts, FS_Subset DEF TypeOK, Counted

LEMMA CountAdd ==
  ASSUME TypeOK, UsedCount, NEW p \in Pages, p < totalPages, p \notin used,
         used' = used \cup {p}, totalPages' = totalPages,
         usedPages' = usedPages + 1
  PROVE  UsedCount'
  <1>1. Counted' = Counted \cup {p}
    BY DEF Counted
  <1>2. p \notin Counted
    BY DEF Counted
  <1>3. Cardinality(Counted') = Cardinality(Counted) + 1
    BY <1>1, <1>2, CountedFinite, FS_AddElement
  <1>4. QED
    BY <1>3 DEF UsedCount

LEMMA CountRemove ==
  ASSUME TypeOK, UsedCount, NEW p \in Pages, p < totalPages, p \in used,
         used' = used \ {p}, totalPages' = totalPages,
         usedPages' = usedPages - 1
  PROVE  UsedCount' /\ usedPages' \in Nat
  <1>1. Counted' = Counted \ {p}
    BY DEF Counted
  <1>2. p \in Counted
    BY DEF Counted
  <1>3. Cardinality(Counted') = Cardinality(Counted) - 1
    BY <1>1, <1>2, CountedFinite, FS_RemoveElement
  <1>4. IsFiniteSet(Counted')
    BY <1>1, CountedFinite, FS_RemoveElement
  <1>5. QED
    BY <1>3, <1>4, FS_CardinalityType DEF UsedCount

LEMMA CountSame ==
  ASSUME UsedCount, used' = used, totalPages' = totalPages,
         usedPages' = usedPages
  PROVE  UsedCount'
  BY DEF UsedCount, Counted

-----------------------------------------------------------------------------
(* The invariant holds initially and every operation preserves it. *)

LEMMA InitInv == Init => IInv
  <1> SUFFICES ASSUME Init PROVE IInv
    OBVIOUS
  <1>1. PICK usable \in SUBSET Pages, keep \in SUBSET Pages :
          0 \in keep /\ PmmInit(usable, keep)
    BY DEF Init
  <1>2. Pages \subseteq Nat /\ 0 \in Pages /\ IsFiniteSet(Pages)
    BY PagesFacts, PmmAssumption DEF Pages
  <1>3. /\ EndOfMemory(usable) \in 1 .. NPages
        /\ \A p \in usable : p < EndOfMemory(usable)
    <2>1. CASE usable = {}
      BY <2>1, PmmAssumption DEF EndOfMemory
    <2>2. CASE usable # {}
      <3>1. PICK h \in usable :
              h = Highest(usable) /\ \A p \in usable : h >= p
        BY <2>2, HighestFacts
      <3>2. EndOfMemory(usable) = h + 1
        BY <2>2, <3>1 DEF EndOfMemory
      <3>3. h \in 0 .. NPages - 1 /\ \A p \in usable : p \in Nat
        BY <1>2 DEF Pages
      <3>4. h + 1 \in 1 .. NPages /\ \A p \in usable : p < h + 1
        BY <3>1, <3>3, PmmAssumption
      <3>5. QED
        BY <3>2, <3>4
    <2>3. QED
      BY <2>1, <2>2
  <1>4. totalPages \in 1 .. NPages /\ \A p \in usable : p < totalPages
    BY <1>1, <1>3, PmmAssumption DEF PmmInit, Pages
  <1>5. used \in SUBSET Pages /\ hint = 0
    BY <1>1 DEF PmmInit
  <1>6. UsedCount /\ usedPages \in Nat
    <2>1. UsedCount
      BY <1>1 DEF PmmInit, UsedCount, Counted
    <2>2. IsFiniteSet(Counted)
      BY <1>2, <1>5, FS_Subset DEF Counted
    <2>3. QED
      BY <2>1, <2>2, FS_CardinalityType DEF UsedCount
  <1>7. /\ refcount = [p \in Pages |-> 0]
        /\ held = [p \in Pages |-> 0]
        /\ reserved = used
        /\ ret = [limit |-> 0, page |-> None]
    BY <1>1 DEF Init, PmmInit
  <1>8. TypeOK
    BY <1>4, <1>5, <1>6, <1>7, PmmAssumption DEF TypeOK
  <1>9. HintSound
    BY <1>2, <1>5 DEF HintSound
  <1>10. PageStates
    <2>1. \A p \in Pages : p >= totalPages => p \in used
      BY <1>1, <1>2, <1>4 DEF PmmInit
    <2>2. QED
      BY <1>7, <2>1 DEF PageStates
  <1>11. QED
    BY <1>6, <1>8, <1>9, <1>10 DEF IInv, Accounting

LEMMA UnchangedInv == IInv /\ UNCHANGED vars => IInv'
  <1> SUFFICES ASSUME IInv, UNCHANGED vars PROVE IInv'
    OBVIOUS
  <1>1. UsedCount'
    BY CountSame DEF vars, IInv, Accounting
  <1>2. TypeOK' /\ HintSound' /\ PageStates'
    BY DEF vars, IInv, TypeOK, HintSound, Accounting, PageStates
  <1>3. QED
    BY <1>1, <1>2 DEF IInv, Accounting

\* Taking the lowest free page: the step all successful scans end in.
LEMMA TakeInv ==
  ASSUME IInv, NEW p \in Pages \ used, \A q \in Pages : q < p => q \in used,
         Take(p), ret' \in [limit : 0 .. NPages, page : Pages \cup {None}]
  PROVE  IInv'
  <1>1. p \in Nat /\ p + 1 \in 0 .. NPages /\ Pages \subseteq Nat
    BY PagesFacts, PmmAssumption DEF Pages
  <1>2. p < totalPages /\ p \notin reserved /\ held[p] = 0
    BY <1>1 DEF IInv, TypeOK, Accounting, PageStates
  <1>3. UsedCount'
    BY <1>2, CountAdd DEF Take, IInv, Accounting
  <1>4. TypeOK'
    BY <1>1, PmmAssumption DEF Take, IInv, TypeOK
  <1>5. HintSound'
    BY <1>1 DEF Take, IInv, HintSound
  <1>6. PageStates'
    BY <1>2 DEF Take, IInv, TypeOK, Accounting, PageStates
  <1>7. QED
    BY <1>3, <1>4, <1>5, <1>6 DEF IInv, Accounting

LEMMA AnswerInv ==
  ASSUME IInv, NEW limit \in 0 .. NPages, NEW p, Answer(limit, p),
         \/ p = None
         \/ p \in Pages \ used /\ \A q \in Pages : q < p => q \in used
  PROVE  IInv'
  <1>1. CASE p = None
    <2>1. UNCHANGED <<used, refcount, totalPages, usedPages, hint, reserved, held>>
      BY <1>1 DEF Answer, pmmVars
    <2>2. ret' = [limit |-> limit, page |-> None]
      BY <1>1 DEF Answer
    <2>3. UsedCount'
      BY <2>1, CountSame DEF IInv, Accounting
    <2>4. TypeOK' /\ HintSound' /\ PageStates'
      BY <2>1, <2>2 DEF IInv, TypeOK, HintSound, Accounting, PageStates
    <2>5. QED
      BY <2>3, <2>4 DEF IInv, Accounting
  <1>2. CASE p # None
    <2>1. Take(p) /\ ret' = [limit |-> limit, page |-> p]
      BY <1>2 DEF Answer
    <2>2. p \in Pages \ used /\ \A q \in Pages : q < p => q \in used
      BY <1>2
    <2>3. QED
      BY <2>1, <2>2, TakeInv
  <1>3. QED
    BY <1>1, <1>2

LEMMA DropRefInv ==
  ASSUME IInv, NEW p \in Pages, DropRef(p),
         held' = IF held[p] > 0 THEN [held EXCEPT ![p] = @ - 1] ELSE held,
         UNCHANGED <<reserved, ret>>
  PROVE  IInv'
  <1>1. /\ held \in [Pages -> 0 .. ClientRefs] /\ refcount[p] = held[p]
        /\ refcount \in [Pages -> 0 .. RefMax] /\ RefMax \in Nat
        /\ ClientRefs \in Nat
        /\ p \in Nat /\ totalPages \in Nat
    BY PagesFacts, PmmAssumption DEF IInv, TypeOK, Accounting, PageStates
  <1>2. CASE refcount[p] = 0
    <2>1. UNCHANGED vars
      BY <1>1, <1>2 DEF DropRef, pmmVars, vars
    <2>2. QED
      BY <2>1, UnchangedInv
  <1>3. ASSUME refcount[p] > 0
        PROVE  p < totalPages /\ p \in used /\ held[p] > 0 /\ p \notin reserved
    BY <1>1, <1>3 DEF IInv, Accounting, PageStates
  <1>4. CASE refcount[p] > 1
    <2>1. /\ refcount' = [refcount EXCEPT ![p] = @ - 1]
          /\ UNCHANGED <<used, totalPages, usedPages, hint>>
      BY <1>1, <1>3, <1>4 DEF DropRef
    <2>2. held' = [held EXCEPT ![p] = @ - 1]
      BY <1>1, <1>3, <1>4
    <2>3. TypeOK'
      BY <1>1, <1>4, <2>1, <2>2 DEF IInv, TypeOK
    <2>4. PageStates'
      BY <1>1, <1>3, <1>4, <2>1, <2>2 DEF IInv, TypeOK, Accounting, PageStates
    <2>5. UsedCount' /\ HintSound'
      BY <2>1, CountSame DEF IInv, Accounting, HintSound
    <2>6. QED
      BY <2>3, <2>4, <2>5 DEF IInv, Accounting
  <1>5. CASE refcount[p] = 1
    <2>1. Release(p)
      BY <1>1, <1>3, <1>5 DEF DropRef
    <2>2. held' = [held EXCEPT ![p] = 0] /\ refcount' = [refcount EXCEPT ![p] = 0]
      BY <1>1, <1>5, <2>1 DEF Release
    <2>3. UsedCount' /\ usedPages' \in Nat
      BY <1>1, <1>3, <1>5, <2>1, CountRemove DEF Release, IInv, Accounting
    <2>4. TypeOK'
      BY <1>1, <2>1, <2>2, <2>3, PmmAssumption DEF Release, IInv, TypeOK
    <2>5. HintSound'
      BY <1>1, <2>1, PagesFacts DEF Release, IInv, TypeOK, HintSound
    <2>6. PageStates'
      BY <1>1, <1>3, <1>5, <2>1, <2>2 DEF Release, IInv, TypeOK, Accounting, PageStates
    <2>7. QED
      BY <2>3, <2>4, <2>5, <2>6 DEF IInv, Accounting
  <1>6. QED
    BY <1>1, <1>2, <1>4, <1>5

\* The uint16_t count is never at its limit when an owner shares a page, since
\* the owners hold at most ClientRefs references.
LEMMA RefIncInv ==
  ASSUME IInv, NEW p \in Pages, RefInc(p)
  PROVE  IInv'
  <1>1. /\ held[p] \in 1 .. ClientRefs - 1 /\ refcount[p] = held[p]
        /\ p \in used /\ p < totalPages
        /\ ClientRefs \in 1 .. RefMax /\ RefMax \in Nat
    BY PagesFacts, PmmAssumption DEF RefInc, IInv, TypeOK, Accounting, PageStates
  <1>2. /\ refcount' = [refcount EXCEPT ![p] = @ + 1]
        /\ held' = [held EXCEPT ![p] = @ + 1]
        /\ UNCHANGED <<used, totalPages, usedPages, hint, reserved, ret>>
    BY <1>1, PagesFacts DEF RefInc, IInv, TypeOK
  <1>3. TypeOK'
    BY <1>1, <1>2 DEF IInv, TypeOK
  <1>4. PageStates'
    BY <1>1, <1>2 DEF IInv, TypeOK, Accounting, PageStates
  <1>5. UsedCount' /\ HintSound'
    BY <1>2, CountSame DEF IInv, Accounting, HintSound
  <1>6. QED
    BY <1>3, <1>4, <1>5 DEF IInv, Accounting

LEMMA MarkUsedInv ==
  ASSUME IInv, NEW p \in Pages, MarkUsed(p)
  PROVE  IInv'
  <1>1. /\ held[p] = 0 /\ refcount[p] = 0 /\ p < totalPages
        /\ p \in Nat /\ p + 1 \in 0 .. NPages /\ ClientRefs \in 1 .. RefMax
        /\ RefMax \in Nat
    BY PagesFacts, PmmAssumption DEF MarkUsed, IInv, Accounting, PageStates, Pages
  <1>2. /\ used' = used \cup {p} /\ totalPages' = totalPages /\ ret' = ret
        /\ refcount' = [refcount EXCEPT ![p] = 1]
        /\ held' = [held EXCEPT ![p] = 1]
        /\ reserved' = reserved \ {p}
        /\ hint' = IF p = hint THEN p + 1 ELSE hint
    BY <1>1 DEF MarkUsed, IInv, TypeOK
  <1>3. UsedCount' /\ usedPages' \in Nat
    <2>1. CASE p \in used
      <3>1. used' = used /\ usedPages' = usedPages
        BY <1>2, <2>1 DEF MarkUsed
      <3>2. QED
        BY <1>2, <3>1, CountSame DEF IInv, TypeOK, Accounting
    <2>2. CASE p \notin used
      <3>1. usedPages' = usedPages + 1
        BY <2>2 DEF MarkUsed
      <3>2. QED
        BY <1>1, <1>2, <2>2, <3>1, CountAdd DEF IInv, TypeOK, Accounting
    <2>3. QED
      BY <2>1, <2>2
  <1>4. TypeOK'
    BY <1>1, <1>2, <1>3, PmmAssumption DEF IInv, TypeOK
  <1>5. HintSound'
    BY <1>1, <1>2, PagesFacts DEF IInv, TypeOK, HintSound
  <1>6. PageStates'
    BY <1>1, <1>2 DEF IInv, TypeOK, Accounting, PageStates
  <1>7. QED
    BY <1>3, <1>4, <1>5, <1>6 DEF IInv, Accounting

LEMMA StepInv == IInv /\ [Next]_vars => IInv'
  <1> SUFFICES ASSUME IInv, [Next]_vars PROVE IInv'
    OBVIOUS
  <1>1. CASE AllocPage
    <2>1. Answer(NPages, ScanAny) /\ NPages \in 0 .. NPages
      BY <1>1, PmmAssumption DEF AllocPage
    <2>2. QED
      BY <2>1, ScanAnyFacts, AnswerInv
  <1>2. ASSUME NEW limit \in 0 .. NPages, AllocPageBelow(limit)
        PROVE  IInv'
    <2>1. CASE limit = 0
      BY <1>2, <2>1, AnswerInv DEF AllocPageBelow
    <2>2. CASE limit # 0
      <3>1. Answer(limit, ScanBelow(limit))
        BY <1>2, <2>2 DEF AllocPageBelow
      <3>2. QED
        BY <3>1, ScanBelowFacts, AnswerInv
    <2>3. QED
      BY <2>1, <2>2
  <1>3. ASSUME NEW p \in Pages, FreePage(p)
        PROVE  IInv'
    BY <1>3, DropRefInv DEF FreePage
  <1>4. ASSUME NEW p \in Pages, StrayFree(p)
        PROVE  IInv'
    BY <1>4, DropRefInv DEF StrayFree
  <1>5. ASSUME NEW p \in Pages, RefInc(p)
        PROVE  IInv'
    BY <1>5, RefIncInv
  <1>6. ASSUME NEW p \in Pages, MarkUsed(p)
        PROVE  IInv'
    BY <1>6, MarkUsedInv
  <1>7. CASE UNCHANGED vars
    BY <1>7, UnchangedInv
  <1>8. QED
    BY <1>1, <1>2, <1>3, <1>4, <1>5, <1>6, <1>7 DEF Next

-----------------------------------------------------------------------------
(* The theorems. *)

THEOREM Invariance == Spec => []IInv
  <1>1. QED
    BY InitInv, StepInv, PTL DEF Spec

\* Every variable of the allocator keeps its type.
THEOREM TypeCorrect == Spec => []TypeOK
  <1>1. IInv => TypeOK
    BY DEF IInv
  <1>2. QED
    BY <1>1, Invariance, PTL

\* No page below first_free_hint is ever free, for every number of pages and
\* every word size: the scans of pmm_alloc_page and pmm_alloc_page_below,
\* which look at part of the bitmap only, miss no free page.
THEOREM HintIsSound == Spec => []HintSound
  <1>1. IInv => HintSound
    BY DEF IInv
  <1>2. QED
    BY <1>1, Invariance, PTL

\* used_pages, the bitmap, the reference counts and the references the callers
\* own never disagree.
THEOREM AccountsAgree == Spec => []Accounting
  <1>1. IInv => Accounting
    BY DEF IInv
  <1>2. QED
    BY <1>1, Invariance, PTL

-----------------------------------------------------------------------------
(* The refinement: every step of Pmm is a step of FrameAllocator or a      *)
(* stuttering step.                                                        *)

LEMMA InitRefines == Init => Abstract!Init
  <1> SUFFICES ASSUME Init PROVE Abstract!Init
    OBVIOUS
  <1>1. used \in SUBSET Pages
    BY InitInv DEF IInv, TypeOK
  <1>2. Clear(used) \in SUBSET Pages /\ reserved \in SUBSET (Pages \ Clear(used))
    BY <1>1 DEF Init, Clear
  <1>3. QED
    BY <1>2 DEF Init, Abstract!Init, Abstract!Pages, Pages

\* An answer is the abstract allocation, provided the scan found a free page
\* below the limit or there is none.
LEMMA AnswerRefines ==
  ASSUME IInv, NEW limit \in 0 .. NPages, NEW p, Answer(limit, p),
         \/ p = None /\ \A q \in Pages : q < limit => q \in used
         \/ p \in Pages \ used /\ p < limit
  PROVE  Abstract!Alloc(limit)
  <1>1. None \notin Pages
    BY PagesFacts, PmmAssumption
  <1>2. CASE p = None
    <2>1. \A q \in Clear(used) : q >= limit
      BY <1>1, <1>2, PagesFacts DEF Clear
    <2>2. /\ ret' = [limit |-> limit, page |-> None]
          /\ UNCHANGED <<used, reserved, held>>
      BY <1>2 DEF Answer, pmmVars
    <2>3. Clear(used)' = Clear(used)
      BY <2>2 DEF Clear
    <2>4. QED
      BY <2>1, <2>2, <2>3 DEF Abstract!Alloc
  <1>3. CASE p # None
    <2>1. p \in Clear(used) /\ p < limit
      BY <1>3 DEF Clear
    <2>2. ret' = [limit |-> limit, page |-> p] /\ Take(p)
      BY <1>3 DEF Answer
    <2>3. Clear(used)' = Clear(used) \ {p}
      BY <2>2 DEF Take, Clear
    <2>4. held' = [held EXCEPT ![p] = 1] /\ reserved' = reserved
      BY <2>2 DEF Take
    <2>5. QED
      BY <2>1, <2>2, <2>3, <2>4 DEF Abstract!Alloc
  <1>4. QED
    BY <1>2, <1>3

LEMMA DropRefRefines ==
  ASSUME IInv, NEW p \in Pages, held[p] > 0, FreePage(p)
  PROVE  Abstract!Drop(p)
  <1>1. /\ refcount[p] = held[p] /\ held[p] \in Nat /\ used \subseteq Pages
        /\ p < totalPages /\ p \in used /\ totalPages \in Nat /\ p \in Nat
    BY PagesFacts, PmmAssumption DEF IInv, TypeOK, Accounting, PageStates
  <1>2. /\ held' = [held EXCEPT ![p] = @ - 1]
        /\ UNCHANGED <<reserved, ret>>
    BY DEF FreePage
  <1>3. Clear(used)' = IF held[p] = 1 THEN Clear(used) \cup {p} ELSE Clear(used)
    <2>1. CASE held[p] = 1
      <3>1. Release(p)
        BY <1>1, <2>1 DEF FreePage, DropRef
      <3>2. used' = used \ {p}
        BY <3>1 DEF Release
      <3>3. QED
        BY <2>1, <3>2 DEF Clear
    <2>2. CASE held[p] # 1
      <3>1. used' = used
        BY <1>1, <2>2 DEF FreePage, DropRef
      <3>2. QED
        BY <2>2, <3>1 DEF Clear
    <2>3. QED
      BY <2>1, <2>2
  <1>4. QED
    BY <1>2, <1>3 DEF Abstract!Drop

LEMMA StrayFreeStutters ==
  ASSUME IInv, NEW p \in Pages, StrayFree(p)
  PROVE  UNCHANGED vars
  BY DEF StrayFree, DropRef, pmmVars, vars, IInv, Accounting, PageStates

LEMMA StepRefines == IInv /\ [Next]_vars => [Abstract!Next]_(Abstract!vars)
  <1> SUFFICES ASSUME IInv, [Next]_vars PROVE [Abstract!Next]_(Abstract!vars)
    OBVIOUS
  <1>1. CASE AllocPage
    <2>1. Answer(NPages, ScanAny) /\ NPages \in 0 .. NPages
      BY <1>1, PmmAssumption DEF AllocPage
    <2>2. Abstract!Alloc(NPages)
      BY <2>1, ScanAnyFacts, AnswerRefines
    <2>3. QED
      BY <2>1, <2>2 DEF Abstract!Next
  <1>2. ASSUME NEW limit \in 0 .. NPages, AllocPageBelow(limit)
        PROVE  Abstract!Next
    <2>1. Abstract!Alloc(limit)
      <3>1. CASE limit = 0
        <4>1. Answer(limit, None)
          BY <1>2, <3>1 DEF AllocPageBelow
        <4>2. \A q \in Pages : q < limit => q \in used
          BY <3>1, PagesFacts
        <4>3. QED
          BY <4>1, <4>2, AnswerRefines
      <3>2. CASE limit # 0
        <4>1. Answer(limit, ScanBelow(limit))
          BY <1>2, <3>2 DEF AllocPageBelow
        <4>2. QED
          BY <4>1, ScanBelowFacts, AnswerRefines
      <3>3. QED
        BY <3>1, <3>2
    <2>2. QED
      BY <2>1 DEF Abstract!Next
  <1>3. ASSUME NEW p \in Pages, FreePage(p)
        PROVE  Abstract!Next
    BY <1>3, DropRefRefines DEF FreePage, Abstract!Next, Abstract!Pages, Pages
  <1>4. ASSUME NEW p \in Pages, StrayFree(p)
        PROVE  UNCHANGED Abstract!vars
    BY <1>4, StrayFreeStutters DEF vars, Abstract!vars, Clear
  <1>5. ASSUME NEW p \in Pages, RefInc(p)
        PROVE  Abstract!Next
    <2>1. Abstract!Share(p)
      <3>1. /\ held[p] \in 1 .. ClientRefs - 1 /\ ClientRefs \in Nat
            /\ held' = [held EXCEPT ![p] = @ + 1]
            /\ UNCHANGED <<used, reserved, ret>>
        BY <1>5, PmmAssumption DEF RefInc
      <3>2. Clear(used)' = Clear(used)
        BY <3>1 DEF Clear
      <3>3. QED
        BY <3>1, <3>2 DEF Abstract!Share
    <2>2. QED
      BY <2>1 DEF Abstract!Next, Abstract!Pages, Pages
  <1>6. ASSUME NEW p \in Pages, MarkUsed(p)
        PROVE  Abstract!Next
    <2>1. Clear(used)' = Clear(used) \ {p}
      BY <1>6 DEF MarkUsed, Clear
    <2>2. Abstract!Claim(p)
      BY <1>6, <2>1 DEF MarkUsed, Abstract!Claim
    <2>3. QED
      BY <2>2 DEF Abstract!Next, Abstract!Pages, Pages
  <1>7. CASE UNCHANGED vars
    BY <1>7 DEF vars, Abstract!vars, Clear
  <1>8. QED
    BY <1>1, <1>2, <1>3, <1>4, <1>5, <1>6, <1>7 DEF Next

\* The page manager implements the abstract allocator: a failed allocation
\* means that no eligible page was free, a page is never given to a second
\* owner, and it becomes free exactly when its last owner drops it.
THEOREM Refinement == Spec => ImplementsFrameAllocator
  <1>1. QED
    BY InitRefines, StepRefines, Invariance, PTL
    DEF Spec, ImplementsFrameAllocator, Abstract!Spec
=============================================================================
