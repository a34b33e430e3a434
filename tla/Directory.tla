----------------------------- MODULE Directory -----------------------------
(***************************************************************************)
(* Names: directory slots as fs/fat32.c searches, fills and deletes them,  *)
(* under the path operations of fs/vfs.c.                                  *)
(*                                                                         *)
(* A long name takes one slot more, before its entry's own, which holds an *)
(* 8.3 form of it: cut short, without a number to tell it from others, so  *)
(* that it may be the form of several names, or another file's name.       *)
(* Deleting an entry marks its own slot only: the long name stays behind,  *)
(* and belongs to whatever entry is next put after it.  The history        *)
(* variable named is what the operations made of the names, and adopted    *)
(* says that a long name got an entry that is not its own.                 *)
(***************************************************************************)
EXTENDS Naturals, Sequences, FiniteSets

CONSTANTS
    LongNames, ShortNames,   \* names that need a long entry, and that do not
    Cut,                     \* the 8.3 form of each long name, one of ShortNames
    Subs,                    \* directories below the root
    Root,
    MaxSlots,                \* bound on the slots of a directory
    MaxList,                 \* vfs_dir_empty's listing
    Ids,                     \* what entries lead to: files, and Subs
    None

VARIABLES
    slots,      \* each directory's slots in use, the rest is FAT_ENTRY_END
    named,      \* history: <<directory, name>> -> what it was given to
    adopted     \* history: a long name left behind got another entry

vars == <<slots, named, adopted>>

Names == LongNames \cup ShortNames
Dirs == Subs \cup {Root}
Deleted == [kind |-> "deleted"]
Long(n) == [kind |-> "long", name |-> n]
IsEntry(x) == x.kind = "entry"

\* The entry made for the name n.  Of n it has the 8.3 form, Form(n).
Entry(n, id) == [kind |-> "entry", name |-> n, id |-> id]

\* vfs_to_83
Form(n) == IF n \in LongNames THEN Cut[n] ELSE n

Init ==
    /\ slots = [d \in Dirs |-> <<>>]
    /\ named = [x \in Dirs \X Names |-> None]
    /\ adopted = FALSE

-----------------------------------------------------------------------------
(* The search. *)

\* The name the entry at i goes by: the long name right before it, or its 8.3 form.
NameAt(s, i) ==
    IF i > 1 /\ s[i - 1].kind = "long" THEN s[i - 1].name ELSE Form(s[i].name)

\* fat32_dir_find: by the long name, or by the entry's 8.3 form.
Matches(s, n) ==
    {i \in DOMAIN s : IsEntry(s[i]) /\ n \in {NameAt(s, i), Form(s[i].name)}}

Found(d, n) == LET m == Matches(slots[d], n)
               IN  IF m = {} THEN 0 ELSE CHOOSE i \in m : \A j \in m : i <= j

\* vfs_resolve_path: the root, or a directory below it that is found by name.
InUse(d) == d = Root \/ \E i \in DOMAIN slots[Root] :
                            IsEntry(slots[Root][i]) /\ slots[Root][i].id = d

-----------------------------------------------------------------------------
(* fat32_dir_create_entry. *)

\* Mutant: a deleted slot is taken for a run that is long enough.
FitsAtFirst(s, i, w) == i <= Len(s) => s[i] = Deleted

\* The slots from i on can take w slots: deleted, or past the end.
Fits(s, i, w) == \A j \in i .. i + w - 1 : j <= Len(s) => s[j] = Deleted

Width(n) == IF n \in LongNames THEN 2 ELSE 1
Place(s, n) == CHOOSE i \in 1 .. Len(s) + 1 :
                   Fits(s, i, Width(n)) /\ \A j \in 1 .. i - 1 : ~Fits(s, j, Width(n))

Written(s, n, id) ==
    LET i == Place(s, n)
        new == IF n \in LongNames THEN <<Long(n), Entry(n, id)>> ELSE <<Entry(n, id)>>
    IN  SubSeq(s, 1, i - 1) \o new \o SubSeq(s, i + Width(n), Len(s))

Adopts(s, n) == n \in ShortNames /\ Place(s, n) > 1 /\ s[Place(s, n) - 1].kind = "long"
RoomFor(d, n) == Len(Written(slots[d], n, None)) <= MaxSlots

-----------------------------------------------------------------------------
(* The path operations. *)

UsedIds == {named[x] : x \in Dirs \X Names}

\* vfs_open with VFS_O_CREATE, vfs_mkdir
Create(d, n, id) ==
    /\ InUse(d) /\ Found(d, n) = 0 /\ id \notin UsedIds /\ RoomFor(d, n)
    /\ id \in Subs => d = Root
    /\ slots' = [e \in Dirs |-> IF e = d THEN Written(slots[d], n, id)
                                ELSE IF e = id THEN <<>> ELSE slots[e]]
    /\ named' = [named EXCEPT ![<<d, n>>] = id]
    /\ adopted' = (adopted \/ Adopts(slots[d], n))

\* vfs_scan_directory: the slots that a listing of at most max entries shows.
Listed(d, max) ==
    {i \in DOMAIN slots[d] :
        IsEntry(slots[d][i]) /\ Cardinality({j \in 1 .. i - 1 : IsEntry(slots[d][j])}) < max}

\* Mutant: a directory is deleted with what is in it.
EmptyAlways(d) == TRUE

\* vfs_dir_empty.  (. and .. are left out.)
Empty(d) == Listed(d, MaxList) = {}

Marked(s, i) == [s EXCEPT ![i] = Deleted]
Gone(id) == [x \in Dirs \X Names |-> IF named[x] = id THEN None ELSE named[x]]

\* vfs_delete
Delete(d, n) ==
    LET i == Found(d, n)
    IN  /\ InUse(d) /\ i # 0
        /\ slots[d][i].id \in Subs => Empty(slots[d][i].id)
        /\ slots' = [slots EXCEPT ![d] = Marked(@, i)]
        /\ named' = Gone(slots[d][i].id)
        /\ UNCHANGED adopted

\* vfs_rename: files only; the new entry first, then the old one goes.
Rename(d, n, e, m) ==
    LET i == Found(d, n)
        id == slots[d][i].id
        with == [slots EXCEPT ![e] = Written(@, m, id)]
    IN  /\ InUse(d) /\ i # 0 /\ id \notin Subs
        /\ InUse(e) /\ Found(e, m) = 0 /\ RoomFor(e, m)
        /\ slots' = [with EXCEPT ![d] = Marked(@, i)]
        /\ named' = [Gone(id) EXCEPT ![<<e, m>>] = id]
        /\ adopted' = (adopted \/ Adopts(slots[e], m))

Next ==
    \/ \E d \in Dirs, n \in Names, id \in Ids : Create(d, n, id)
    \/ \E d \in Dirs, n \in Names : Delete(d, n)
    \/ \E d, e \in Dirs, n, m \in Names : Rename(d, n, e, m)

Spec == Init /\ [][Next]_vars

-----------------------------------------------------------------------------
(* Properties. *)

TypeOK ==
    /\ \A d \in Dirs : Len(slots[d]) <= MaxSlots /\ \A i \in DOMAIN slots[d] :
          \/ slots[d][i] = Deleted
          \/ slots[d][i] \in [kind : {"long"}, name : LongNames]
          \/ slots[d][i] \in [kind : {"entry"}, name : Names, id : Ids]
    /\ named \in [Dirs \X Names -> Ids \cup {None}]
    /\ adopted \in BOOLEAN

\* The names that an entry found under n may have been made for.
Called(n) == {m \in Names : n \in {m, Form(m)}}

\* As long as no entry follows a long name left behind by another, each
\* directory finds under a name what was given that name, or a longer one whose
\* 8.3 form it is, and finds nothing only if nothing was: so nothing under a name
\* deleted or renamed away that is no other's 8.3 form.
NamesResolve ==
    ~adopted => \A d \in Dirs, n \in Names : InUse(d) =>
        IF Found(d, n) = 0 THEN \A m \in Called(n) : named[<<d, m>>] = None
        ELSE \E m \in Called(n) : named[<<d, m>>] = slots[d][Found(d, n)].id

\* A directory goes only when nothing is named in it.
NothingStranded == \A d \in Dirs, n \in Names : named[<<d, n>>] # None => InUse(d)
=============================================================================
