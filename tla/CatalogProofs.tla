----------------------------- MODULE CatalogProofs -----------------------------
(***************************************************************************)
(* Proofs about session_discover (Catalog): the type invariant and that a *)
(* successful discovery lists exactly the usable descriptors, in scan     *)
(* order and each once, for every set of directory entries and every      *)
(* bound on the directory sizes.                                          *)
(***************************************************************************)
EXTENDS Catalog, TLAPS

\* The slots the scan has met so far: all of the X11 directory once the
\* Wayland one is being read, and the first idx entries of the current one.
Scanned ==
    IF cur = 1 THEN UsableUpTo("x11", idx)
               ELSE UsableUpTo("x11", Len(dir["x11"])) \cup UsableUpTo("wayland", idx)

\* The catalog is in scan order, hence without duplicates.
Sorted == \A k, l \in 1..Len(catalog) : k < l => ScanOrder(catalog[k], catalog[l])

\* The directories readdir returns are fixed by Init: no longer than the
\* bound, and empty when opendir fails.
DirInv ==
    \A d \in DirNames : Len(dir[d]) <= MaxEntries /\ (~present[d] => dir[d] = <<>>)

\* While scanning: a directory not yet opened has had no entry read, no
\* return value is set, and the catalog lists the usable entries met so far.
ScanInv ==
    phase = "scan" =>
        /\ ~open => idx = 0
        /\ rc = "none"
        /\ Listed = Scanned

\* A successful discovery ends with every usable entry listed, at least one.
DoneInv ==
    (phase = "done" /\ rc = "KIA_SUCCESS") => Listed = UsableSlotSet /\ catalog # <<>>

IInv == TypeOK /\ DirInv /\ Sorted /\ ScanInv /\ DoneInv

\* A function on 1..n is a sequence of length n.
LEMMA FunIsSeq ==
    ASSUME NEW S, NEW n \in Nat, NEW f \in [1..n -> S]
    PROVE  f \in Seq(S) /\ Len(f) = n
OBVIOUS

LEMMA InitIInv == Init => IInv
<1> SUFFICES ASSUME Init PROVE IInv
  OBVIOUS
<1>1. \A d \in DirNames : dir[d] \in Seq(Entries) /\ Len(dir[d]) <= MaxEntries
  <2> SUFFICES ASSUME NEW d \in DirNames
               PROVE  dir[d] \in Seq(Entries) /\ Len(dir[d]) <= MaxEntries
    OBVIOUS
  <2>1. PICK n \in 0..MaxEntries : dir[d] \in [1..n -> Entries]
    BY DEF Init
  <2>2. QED
    BY <2>1, FunIsSeq, MaxEntriesAssumption
<1>2. dir \in [DirNames -> Seq(Entries)]
  BY <1>1 DEF Init
<1>3. idx \in 0..Len(dir[Dirs[cur]]) /\ cur \in 1..2
  BY <1>1 DEF Init, Dirs, DirNames
<1>6. catalog \in Seq(Slots)
      /\ \A k \in 1..Len(catalog) : catalog[k].pos \in 1..Len(dir[catalog[k].type])
  BY DEF Init
<1>7. present \in [DirNames -> BOOLEAN] /\ open \in BOOLEAN
  BY DEF Init
<1>8. phase \in {"scan", "done"} /\ rc \in {"none", "KIA_SUCCESS", "KIA_ERROR_SESSION"}
  BY DEF Init
<1>9. TypeOK
  BY <1>2, <1>3, <1>6, <1>7, <1>8, Zenon DEF TypeOK
<1>4. DirInv
  BY <1>1 DEF Init, DirInv
<1>5. QED
  BY <1>9, <1>4 DEF Init, IInv, Sorted, ScanInv, DoneInv, Listed, Scanned, UsableUpTo

\* Reading one more entry of d adds its slot exactly when it is usable.
LEMMA UsableUpToStep ==
    ASSUME NEW d, NEW n \in Nat
    PROVE  UsableUpTo(d, n + 1)
             = UsableUpTo(d, n) \cup (IF Usable(dir[d][n + 1])
                                      THEN {[type |-> d, pos |-> n + 1]} ELSE {})
BY DEF UsableUpTo

\* Nothing is usable among no entries.
LEMMA UsableUpToZero ==
    ASSUME NEW d
    PROVE  UsableUpTo(d, 0) = {}
BY DEF UsableUpTo

\* A slot met so far lies before position n + 1 of directory d, when the
\* slots come from the first n entries of d or from a directory before it.
LEMMA UsableUpToBounded ==
    ASSUME NEW d, NEW n \in Nat, NEW s \in UsableUpTo(d, n)
    PROVE  s.type = d /\ s.pos \in 1..n
BY DEF UsableUpTo

\* Appending a slot to the catalog lists one slot more.
LEMMA ListedAppend ==
    ASSUME NEW c \in Seq(Slots), NEW x \in Slots
    PROVE  {Append(c, x)[k] : k \in 1..Len(Append(c, x))}
             = {c[k] : k \in 1..Len(c)} \cup {x}
<1>1. Len(Append(c, x)) = Len(c) + 1 /\ Len(c) \in Nat
  OBVIOUS
<1>2. \A k \in 1..Len(c) : Append(c, x)[k] = c[k]
  OBVIOUS
<1>3. Append(c, x)[Len(c) + 1] = x
  OBVIOUS
<1>4. QED
  BY <1>1, <1>2, <1>3

\* The names Dirs gives the two directories.
LEMMA DirsFacts ==
    /\ Dirs[1] = "x11" /\ Dirs[2] = "wayland"
    /\ "x11" \in DirNames /\ "wayland" \in DirNames /\ "x11" # "wayland"
BY DEF Dirs, DirNames

\* A step that leaves the directories alone keeps the type of the state
\* when each variable it sets gets a value of its type.
LEMMA TypeFrame ==
    ASSUME TypeOK, UNCHANGED <<dir, present>>, cur' \in 1..2, open' \in BOOLEAN,
           idx' \in 0..Len(dir[Dirs[cur']]), catalog' \in Seq(Slots),
           \A k \in 1..Len(catalog') : catalog'[k].pos \in 1..Len(dir[catalog'[k].type]),
           phase' \in {"scan", "done"},
           rc' \in {"none", "KIA_SUCCESS", "KIA_ERROR_SESSION"}
    PROVE  TypeOK'
BY Zenon DEF TypeOK

\* Leaving a directory whose entries were all read: go on with the Wayland
\* one, or finish with what the catalog holds.
LEMMA NextDirStep ==
    ASSUME IInv, phase = "scan", idx = Len(dir[Dirs[cur]]), NextDir,
           open' = FALSE, UNCHANGED <<dir, present, catalog>>
    PROVE  IInv'
<1> USE DirsFacts
<1>1. Len(dir["x11"]) \in Nat /\ Len(dir["wayland"]) \in Nat /\ cur \in 1..2
  BY DEF IInv, TypeOK
<1>2. Listed = Scanned /\ rc = "none"
  BY DEF IInv, ScanInv
<1>3. CASE cur = 1
  <2>1. cur' = 2 /\ idx' = 0 /\ UNCHANGED <<phase, rc>>
    BY <1>3 DEF NextDir
  <2>2. Scanned' = Scanned
    <3>1. Scanned = UsableUpTo("x11", Len(dir["x11"]))
      BY <1>3 DEF Scanned
    <3>2. Scanned' = UsableUpTo("x11", Len(dir["x11"])) \cup UsableUpTo("wayland", 0)
      BY <2>1 DEF Scanned, UsableUpTo
    <3>3. QED
      BY <3>1, <3>2, UsableUpToZero
  <2>3. TypeOK'
    <3>1. open \in BOOLEAN /\ catalog \in Seq(Slots)
          /\ \A k \in 1..Len(catalog) : catalog[k].pos \in 1..Len(dir[catalog[k].type])
      BY DEF IInv, TypeOK
    <3>2. idx' \in 0..Len(dir[Dirs[cur']]) /\ cur' \in 1..2
      BY <1>1, <2>1
    <3>3. QED
      BY <2>1, <3>1, <3>2, TypeFrame DEF IInv, TypeOK
  <2>4. QED
    BY <1>2, <2>1, <2>2, <2>3 DEF IInv, DirInv, Sorted, ScanInv, DoneInv, Listed
<1>4. CASE cur = 2
  <2>1. /\ phase' = "done" /\ UNCHANGED cur /\ idx' = 0
        /\ rc' = IF catalog = <<>> THEN "KIA_ERROR_SESSION" ELSE "KIA_SUCCESS"
    BY <1>4 DEF NextDir
  <2>2. Scanned = UsableSlotSet
    BY <1>4 DEF Scanned, UsableSlotSet
  <2>3. TypeOK'
    <3>1. open \in BOOLEAN /\ catalog \in Seq(Slots)
          /\ \A k \in 1..Len(catalog) : catalog[k].pos \in 1..Len(dir[catalog[k].type])
      BY DEF IInv, TypeOK
    <3>2. idx' \in 0..Len(dir[Dirs[cur']]) /\ cur' \in 1..2
      BY <1>1, <1>4, <2>1
    <3>3. rc' \in {"none", "KIA_SUCCESS", "KIA_ERROR_SESSION"}
      BY <2>1
    <3>4. QED
      BY <2>1, <3>1, <3>2, <3>3, TypeFrame DEF IInv, TypeOK
  <2>4. DoneInv'
    BY <1>2, <2>1, <2>2 DEF DoneInv, Listed, UsableSlotSet, UsableUpTo
  <2>5. QED
    BY <2>1, <2>3, <2>4 DEF IInv, DirInv, Sorted, ScanInv
<1>5. QED
  BY <1>1, <1>3, <1>4

\* A failed scan empties the list and ends the discovery with an error.
LEMMA AbortStep ==
    ASSUME IInv, Abort, UNCHANGED <<dir, present, cur, idx>>
    PROVE  IInv'
<1>1. catalog' = <<>> /\ phase' = "done" /\ rc' = "KIA_ERROR_SESSION" /\ open' = FALSE
  BY DEF Abort
<1>2. TypeOK'
  <2>1. catalog' \in Seq(Slots) /\ Len(catalog') = 0
    BY <1>1
  <2>2. cur' \in 1..2 /\ idx' \in 0..Len(dir[Dirs[cur']])
    BY DEF IInv, TypeOK
  <2>3. \A k \in 1..Len(catalog') : catalog'[k].pos \in 1..Len(dir[catalog'[k].type])
    BY <2>1
  <2>4. open' \in BOOLEAN /\ phase' \in {"scan", "done"}
        /\ rc' \in {"none", "KIA_SUCCESS", "KIA_ERROR_SESSION"}
    BY <1>1
  <2>5. QED
    BY <2>1, <2>2, <2>3, <2>4, TypeFrame DEF IInv
<1>3. QED
  BY <1>1, <1>2 DEF IInv, DirInv, Sorted, ScanInv, DoneInv

\* opendir: an existing directory is opened, a missing one is passed over.
LEMMA OpenDirStep ==
    ASSUME IInv, OpenDir
    PROVE  IInv'
<1>1. phase = "scan" /\ ~open /\ idx = 0 /\ UNCHANGED <<dir, present, catalog>>
  BY DEF OpenDir, IInv, ScanInv
<1>2. CASE present[Dirs[cur]]
  <2>1. open' = TRUE /\ UNCHANGED <<cur, phase, rc, idx>>
    BY <1>2 DEF OpenDir
  <2>2. TypeOK'
    <3>1. /\ cur \in 1..2 /\ idx \in 0..Len(dir[Dirs[cur]]) /\ catalog \in Seq(Slots)
          /\ \A k \in 1..Len(catalog) : catalog[k].pos \in 1..Len(dir[catalog[k].type])
          /\ phase \in {"scan", "done"} /\ rc \in {"none", "KIA_SUCCESS", "KIA_ERROR_SESSION"}
      BY DEF IInv, TypeOK
    <3>4. TypeOK /\ dir' = dir /\ present' = present
      BY <1>1 DEF IInv
    <3>2. /\ cur' \in 1..2 /\ idx' \in 0..Len(dir'[Dirs[cur']]) /\ catalog' \in Seq(Slots)
          /\ \A k \in 1..Len(catalog') : catalog'[k].pos \in 1..Len(dir'[catalog'[k].type])
          /\ phase' \in {"scan", "done"} /\ rc' \in {"none", "KIA_SUCCESS", "KIA_ERROR_SESSION"}
      BY <1>1, <2>1, <3>1, <3>4
    <3>3. open' \in BOOLEAN
      BY <2>1
    <3>5. dir' \in [DirNames -> Seq(Entries)] /\ present' \in [DirNames -> BOOLEAN]
      BY <3>4 DEF TypeOK
    <3>6. QED
      BY <3>2, <3>3, <3>5 DEF TypeOK
  <2>3. QED
    BY <1>1, <2>1, <2>2 DEF IInv, DirInv, Sorted, ScanInv, DoneInv, Listed, Scanned,
                           UsableUpTo, UsableSlotSet
<1>3. CASE ~present[Dirs[cur]]
  <2>1. NextDir /\ UNCHANGED open
    BY <1>3 DEF OpenDir
  <2>2. dir[Dirs[cur]] = <<>>
    BY <1>3, DirsFacts DEF IInv, DirInv, TypeOK, Dirs
  <2>3. idx = Len(dir[Dirs[cur]]) /\ open' = FALSE
    BY <1>1, <2>1, <2>2
  <2>4. QED
    BY <1>1, <2>1, <2>3, NextDirStep
<1>4. QED
  BY <1>2, <1>3

\* readdir fails: the scan ends with an error.
LEMMA ReaddirErrorStep ==
    ASSUME IInv, ReaddirError
    PROVE  IInv'
BY AbortStep DEF ReaddirError

\* readdir reaches the end of the directory: closedir, then the next one.
LEMMA EndOfDirStep ==
    ASSUME IInv, EndOfDir
    PROVE  IInv'
BY NextDirStep DEF EndOfDir

\* Reading entry idx + 1 of the current directory meets one slot more,
\* which counts when the entry is usable.
LEMMA ScannedStep ==
    ASSUME cur \in 1..2, idx \in Nat, cur' = cur, idx' = idx + 1, dir' = dir
    PROVE  Scanned' = Scanned \cup (IF Usable(dir[Dirs[cur]][idx + 1])
                                   THEN {[type |-> Dirs[cur], pos |-> idx + 1]} ELSE {})
<1> USE DirsFacts
<1>1. CASE cur = 1
  <2>1. Scanned = UsableUpTo("x11", idx) /\ Scanned' = UsableUpTo("x11", idx + 1)
    BY <1>1 DEF Scanned, UsableUpTo
  <2>2. QED
    BY <1>1, <2>1, UsableUpToStep
<1>2. CASE cur = 2
  <2>1. /\ Scanned = UsableUpTo("x11", Len(dir["x11"])) \cup UsableUpTo("wayland", idx)
        /\ Scanned' = UsableUpTo("x11", Len(dir["x11"])) \cup UsableUpTo("wayland", idx + 1)
    BY <1>2 DEF Scanned, UsableUpTo
  <2>2. QED
    BY <1>2, <2>1, UsableUpToStep
<1>3. QED
  BY <1>1, <1>2

\* Every slot met so far comes before the entry read next.
LEMMA ScannedBefore ==
    ASSUME cur \in 1..2, idx \in Nat, NEW s \in Scanned
    PROVE  ScanOrder(s, [type |-> Dirs[cur], pos |-> idx + 1])
<1> USE DirsFacts
<1>1. CASE cur = 1
  <2>1. s \in UsableUpTo("x11", idx)
    BY <1>1 DEF Scanned
  <2>2. s.type = "x11" /\ s.pos \in 1..idx
    BY <2>1, UsableUpToBounded
  <2>3. QED
    BY <1>1, <2>2 DEF ScanOrder
<1>2. CASE cur = 2
  <2>1. s \in UsableUpTo("x11", Len(dir["x11"])) \/ s \in UsableUpTo("wayland", idx)
    BY <1>2 DEF Scanned
  <2>2. CASE s \in UsableUpTo("x11", Len(dir["x11"]))
    BY <1>2, <2>2 DEF UsableUpTo, ScanOrder
  <2>3. CASE s \in UsableUpTo("wayland", idx)
    <3>1. s.type = "wayland" /\ s.pos \in 1..idx
      BY <2>3, UsableUpToBounded
    <3>2. QED
      BY <1>2, <3>1 DEF ScanOrder
  <2>4. QED
    BY <2>1, <2>2, <2>3
<1>3. QED
  BY <1>1, <1>2

\* readdir hands over the next entry: it is skipped, ends the scan on a
\* failed realloc, or takes a slot that counts when the file parses.
LEMMA ReadEntryStep ==
    ASSUME IInv, ReadEntry
    PROVE  IInv'
<1> DEFINE D == Dirs[cur]
           e == dir[D][idx + 1]
           new == [type |-> D, pos |-> idx + 1]
<1>1. /\ phase = "scan" /\ open /\ idx < Len(dir[D])
      /\ UNCHANGED <<dir, present, cur>>
  BY DEF ReadEntry
<1>2. /\ dir \in [DirNames -> Seq(Entries)]
      /\ cur \in 1..2
      /\ idx \in 0..Len(dir[D])
      /\ catalog \in Seq(Slots)
      /\ \A k \in 1..Len(catalog) : catalog[k].pos \in 1..Len(dir[catalog[k].type])
      /\ rc = "none"
      /\ Listed = Scanned
  BY <1>1 DEF IInv, TypeOK, ScanInv
<1>3. D \in DirNames /\ Len(dir[D]) <= MaxEntries
  BY <1>2, DirsFacts DEF IInv, DirInv
<1>4. new \in Slots
  <2>1. idx + 1 \in 1..MaxEntries
    BY <1>1, <1>2, <1>3, MaxEntriesAssumption
  <2>2. QED
    BY <1>3, <2>1 DEF Slots
<1>5. Scanned' = Scanned \cup (IF Usable(e) THEN {new} ELSE {})
      \/ idx' # idx + 1
  BY <1>1, <1>2, ScannedStep
<1>6. ASSUME idx' = idx + 1, catalog' = catalog, ~Usable(e),
             UNCHANGED <<phase, rc, open>>
      PROVE  IInv'
  <2>1. Scanned' = Scanned
    BY <1>5, <1>6
  <2>2. TypeOK'
    <3>1. cur' \in 1..2 /\ idx' \in 0..Len(dir[Dirs[cur']])
      BY <1>1, <1>2, <1>6
    <3>2. /\ catalog' \in Seq(Slots)
          /\ \A k \in 1..Len(catalog') : catalog'[k].pos \in 1..Len(dir[catalog'[k].type])
      BY <1>2, <1>6
    <3>3. /\ open' \in BOOLEAN /\ phase' \in {"scan", "done"}
          /\ rc' \in {"none", "KIA_SUCCESS", "KIA_ERROR_SESSION"}
      BY <1>1, <1>2, <1>6
    <3>4. QED
      BY <1>1, <3>1, <3>2, <3>3, TypeFrame DEF IInv, TypeOK
  <2>3. Listed' = Scanned'
    BY <1>2, <1>6, <2>1 DEF Listed
  <2>4. QED
    BY <1>1, <1>2, <1>6, <2>2, <2>3 DEF IInv, DirInv, Sorted, ScanInv, DoneInv
<1>7. CASE ~e.desktop
  <2>1. idx' = idx + 1 /\ UNCHANGED <<catalog, phase, rc, open>>
    BY <1>7 DEF ReadEntry
  <2>2. ~Usable(e)
    BY <1>7 DEF Usable
  <2>3. QED
    BY <1>6, <2>1, <2>2
<1>8. CASE e.desktop
  <2>1. PICK allocOk \in BOOLEAN :
            IF ~allocOk
            THEN Abort /\ UNCHANGED idx
            ELSE /\ idx' = idx + 1
                 /\ catalog' = IF ParseDesktopFile(e) THEN Append(catalog, new) ELSE catalog
                 /\ UNCHANGED <<phase, rc, open>>
    BY <1>8 DEF ReadEntry
  <2>2. CASE ~allocOk
    BY <1>1, <2>1, <2>2, AbortStep
  <2>3. CASE allocOk /\ ~ParseDesktopFile(e)
    <3>1. idx' = idx + 1 /\ catalog' = catalog /\ UNCHANGED <<phase, rc, open>>
      BY <2>1, <2>3
    <3>2. ~Usable(e)
      BY <2>3 DEF Usable
    <3>3. QED
      BY <1>6, <3>1, <3>2
  <2>4. CASE allocOk /\ ParseDesktopFile(e)
    <3>1. /\ idx' = idx + 1
          /\ catalog' = Append(catalog, new)
          /\ UNCHANGED <<phase, rc, open>>
      BY <2>1, <2>4
    <3>2. Usable(e)
      BY <1>8, <2>4 DEF Usable
    <3>3. Scanned' = Scanned \cup {new}
      BY <1>5, <3>1, <3>2
    <3>4. Listed' = Scanned'
      <4>1. Listed' = Listed \cup {new}
        BY <1>2, <1>4, <3>1, ListedAppend DEF Listed
      <4>2. QED
        BY <1>2, <3>3, <4>1
    <3>5. catalog' \in Seq(Slots) /\ Len(catalog') = Len(catalog) + 1
      BY <1>2, <1>4, <3>1
    <3>6. \A k \in 1..Len(catalog') : catalog'[k].pos \in 1..Len(dir[catalog'[k].type])
      <4> SUFFICES ASSUME NEW k \in 1..Len(catalog')
                   PROVE  catalog'[k].pos \in 1..Len(dir[catalog'[k].type])
        OBVIOUS
      <4>1. CASE k <= Len(catalog)
        BY <1>1, <1>2, <3>1, <4>1
      <4>2. CASE k = Len(catalog) + 1
        BY <1>1, <1>2, <3>1, <4>2
      <4>3. QED
        BY <1>2, <3>5, <4>1, <4>2
    <3>7. TypeOK'
      <4>1. cur' \in 1..2 /\ idx' \in 0..Len(dir[Dirs[cur']])
        BY <1>1, <1>2, <3>1
      <4>2. /\ open' \in BOOLEAN /\ phase' \in {"scan", "done"}
            /\ rc' \in {"none", "KIA_SUCCESS", "KIA_ERROR_SESSION"}
        BY <1>1, <1>2, <3>1
      <4>3. QED
        BY <1>1, <3>5, <3>6, <4>1, <4>2, TypeFrame DEF IInv, TypeOK
    <3>8. Sorted'
      <4> SUFFICES ASSUME NEW k \in 1..Len(catalog'), NEW l \in 1..Len(catalog'), k < l
                   PROVE  ScanOrder(catalog'[k], catalog'[l])
        BY DEF Sorted
      <4>1. CASE l <= Len(catalog)
        <5>1. ScanOrder(catalog[k], catalog[l])
          BY <1>2, <3>5, <4>1 DEF IInv, Sorted
        <5>2. QED
          BY <1>2, <3>1, <3>5, <4>1, <5>1
      <4>2. CASE l = Len(catalog) + 1
        <5>1. catalog'[k] = catalog[k] /\ catalog'[l] = new
          BY <1>2, <3>1, <3>5, <4>2
        <5>2. catalog[k] \in Scanned
          BY <1>2, <3>5, <4>2 DEF Listed
        <5>3. QED
          BY <1>2, <5>1, <5>2, ScannedBefore
      <4>3. QED
        BY <1>2, <3>5, <4>1, <4>2
    <3>9. QED
      BY <1>1, <1>2, <3>1, <3>4, <3>7, <3>8 DEF IInv, DirInv, ScanInv, DoneInv
  <2>5. QED
    BY <2>2, <2>3, <2>4
<1>9. QED
  BY <1>7, <1>8

\* Every step of session_discover's scan, and a stutter, keeps IInv.
LEMMA IInvStep == IInv /\ [Next]_vars => IInv'
<1> SUFFICES ASSUME IInv, [Next]_vars PROVE IInv'
  OBVIOUS
<1>1. CASE UNCHANGED vars
  BY <1>1 DEF vars, IInv, TypeOK, DirInv, Sorted, ScanInv, DoneInv, Listed, Scanned,
           UsableSlotSet, UsableUpTo, Usable, ParseDesktopFile, ScanOrder
<1>2. QED
  BY <1>1, OpenDirStep, ReadEntryStep, ReaddirErrorStep, EndOfDirStep DEF Next

\* The scan of the X11 and Wayland session directories keeps IInv in
\* every state it reaches.
THEOREM CatalogInvariant == Spec => []IInv
BY InitIInv, IInvStep, PTL DEF Spec

\* session_discover only ever builds a list of slots of the directories it
\* read, each naming an entry that exists, with the scan cursor in range.
THEOREM CatalogTypeCorrect == Spec => []TypeOK
<1>1. IInv => TypeOK
  BY DEF IInv
<1>2. QED
  BY CatalogInvariant, <1>1, PTL

\* When session_discover succeeds, its list holds every usable .desktop file
\* of the two directories and nothing else, each once, X11 before Wayland
\* and in readdir order, and is not empty.
THEOREM CatalogIsUnionHolds == Spec => []CatalogIsUnion
<1>1. IInv => CatalogIsUnion
  BY DEF IInv, DoneInv, Sorted, CatalogIsUnion
<1>2. QED
  BY CatalogInvariant, <1>1, PTL
=============================================================================
