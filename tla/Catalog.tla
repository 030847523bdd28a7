------------------------------ MODULE Catalog ------------------------------
(***************************************************************************)
(* The Session Catalog (src/src/session.c:21-226): session_discover scans *)
(* the X11 and then the Wayland descriptor directory, one readdir call per *)
(* step, and appends each entry that parse_desktop_file accepts.  A       *)
(* directory entry is abstracted to whether its name contains ".desktop"  *)
(* and to what parsing the file finds: whether it opens, whether a usable *)
(* Name= and Exec= line occur, and whether a read error happens before    *)
(* both were found (the loop stops reading once it has both).             *)
(***************************************************************************)
EXTENDS Integers, Sequences

CONSTANTS
    Entries,     \* the directory entries a descriptor directory may hold
    MaxEntries   \* bound on the entries of one directory

ASSUME MaxEntriesAssumption == MaxEntries \in Nat

Dirs == <<"x11", "wayland">>
DirNames == {"x11", "wayland"}

VARIABLES
    dir,       \* dir[d]: the entries readdir returns for directory d
    present,   \* present[d]: opendir(d) succeeds
    cur,       \* the index in Dirs of the directory being scanned
    open,      \* that directory is open
    idx,       \* the entries of it read so far
    catalog,   \* list->sessions[0 .. count-1], as (directory, entry) pairs
    phase,     \* "scan" or "done"
    rc         \* session_discover's return value, once done

vars == <<dir, present, cur, open, idx, catalog, phase, rc>>

\* An entry of the catalog: the directory it came from and its position.
Slots == [type : DirNames, pos : 1..MaxEntries]

\* parse_desktop_file: the file opens, has a usable Name= and Exec= line,
\* and no read error stops it before it has found both.
ParseDesktopFile(e) == e.opens /\ e.hasName /\ e.hasExec /\ ~e.readError

\* An entry the scan adds to the catalog.
Usable(e) == e.desktop /\ ParseDesktopFile(e)

TypeOK ==
    /\ dir \in [DirNames -> Seq(Entries)]
    /\ present \in [DirNames -> BOOLEAN]
    /\ cur \in 1..2
    /\ open \in BOOLEAN
    /\ idx \in 0..Len(dir[Dirs[cur]])
    /\ catalog \in Seq(Slots)
    /\ \A k \in 1..Len(catalog) : catalog[k].pos \in 1..Len(dir[catalog[k].type])
    /\ phase \in {"scan", "done"}
    /\ rc \in {"none", "KIA_SUCCESS", "KIA_ERROR_SESSION"}

\* Any contents of the two directories; a missing directory has none.
Init ==
    /\ present \in [DirNames -> BOOLEAN]
    /\ dir \in [DirNames -> UNION {[1..n -> Entries] : n \in 0..MaxEntries}]
    /\ \A d \in DirNames : ~present[d] => dir[d] = <<>>
    /\ cur = 1
    /\ open = FALSE
    /\ idx = 0
    /\ catalog = <<>>
    /\ phase = "scan"
    /\ rc = "none"

\* scan_session_directory returns an error: session_list_free empties the
\* list and session_discover fails.
Abort ==
    /\ catalog' = <<>>
    /\ phase' = "done"
    /\ rc' = "KIA_ERROR_SESSION"
    /\ open' = FALSE

\* Go on with the Wayland directory, or finish: an empty catalog is an error.
NextDir ==
    /\ idx' = 0
    /\ IF cur = 1
       THEN cur' = 2 /\ UNCHANGED <<phase, rc>>
       ELSE /\ phase' = "done"
            /\ rc' = IF catalog = <<>> THEN "KIA_ERROR_SESSION" ELSE "KIA_SUCCESS"
            /\ UNCHANGED cur

\* opendir: a missing directory contributes nothing.
OpenDir ==
    /\ phase = "scan"
    /\ ~open
    /\ IF present[Dirs[cur]]
       THEN open' = TRUE /\ UNCHANGED <<cur, phase, rc, idx>>
       ELSE NextDir /\ UNCHANGED open
    /\ UNCHANGED <<dir, present, catalog>>

\* Mutant: the new slot records the count before the increment.
ReadEntryStaleIndex ==
    /\ phase = "scan"
    /\ open
    /\ idx < Len(dir[Dirs[cur]])
    /\ LET e == dir[Dirs[cur]][idx + 1]
       IN  IF ~e.desktop
           THEN idx' = idx + 1 /\ UNCHANGED <<catalog, phase, rc, open>>
           ELSE \E allocOk \in BOOLEAN :
                  IF ~allocOk
                  THEN Abort /\ UNCHANGED idx
                  ELSE /\ idx' = idx + 1
                       /\ catalog' = IF ParseDesktopFile(e)
                                     THEN Append(catalog, [type |-> Dirs[cur], pos |-> idx])
                                     ELSE catalog
                       /\ UNCHANGED <<phase, rc, open>>
    /\ UNCHANGED <<dir, present, cur>>

\* Mutant: the slot is kept even when parse_desktop_file rejects the file.
ReadEntryKeepsRejected ==
    /\ phase = "scan"
    /\ open
    /\ idx < Len(dir[Dirs[cur]])
    /\ LET e == dir[Dirs[cur]][idx + 1]
       IN  IF ~e.desktop
           THEN idx' = idx + 1 /\ UNCHANGED <<catalog, phase, rc, open>>
           ELSE \E allocOk \in BOOLEAN :
                  IF ~allocOk
                  THEN Abort /\ UNCHANGED idx
                  ELSE /\ idx' = idx + 1
                       /\ catalog' = Append(catalog, [type |-> Dirs[cur], pos |-> idx + 1])
                       /\ UNCHANGED <<phase, rc, open>>
    /\ UNCHANGED <<dir, present, cur>>

\* One readdir that returns an entry: a name without ".desktop" is skipped;
\* otherwise the list grows by one slot (realloc may fail, which is fatal)
\* and the slot is counted if parse_desktop_file accepts the file.
ReadEntry ==
    /\ phase = "scan"
    /\ open
    /\ idx < Len(dir[Dirs[cur]])
    /\ LET e == dir[Dirs[cur]][idx + 1]
       IN  IF ~e.desktop
           THEN idx' = idx + 1 /\ UNCHANGED <<catalog, phase, rc, open>>
           ELSE \E allocOk \in BOOLEAN :
                  IF ~allocOk
                  THEN Abort /\ UNCHANGED idx
                  ELSE /\ idx' = idx + 1
                       /\ catalog' = IF ParseDesktopFile(e)
                                     THEN Append(catalog, [type |-> Dirs[cur], pos |-> idx + 1])
                                     ELSE catalog
                       /\ UNCHANGED <<phase, rc, open>>
    /\ UNCHANGED <<dir, present, cur>>

\* readdir returns NULL with errno set (an I/O error on the directory).
ReaddirError ==
    /\ phase = "scan"
    /\ open
    /\ Abort
    /\ UNCHANGED <<dir, present, cur, idx>>

\* readdir returns NULL at the end of the directory; closedir.
EndOfDir ==
    /\ phase = "scan"
    /\ open
    /\ idx = Len(dir[Dirs[cur]])
    /\ open' = FALSE
    /\ NextDir
    /\ UNCHANGED <<dir, present, catalog>>

Next == OpenDir \/ ReadEntry \/ ReaddirError \/ EndOfDir

Spec == Init /\ [][Next]_vars

-----------------------------------------------------------------------------
(* Properties *)

\* The usable entries among the first n of directory d, as catalog slots.
UsableUpTo(d, n) ==
    {[type |-> d, pos |-> p] : p \in {q \in 1..n : Usable(dir[d][q])}}

\* Every usable descriptor of the two directories.
UsableSlotSet ==
    UsableUpTo("x11", Len(dir["x11"])) \cup UsableUpTo("wayland", Len(dir["wayland"]))

\* The order in which the scan meets entries: the X11 directory before the
\* Wayland one, and each directory in readdir order.
ScanOrder(a, b) ==
    \/ a.type = "x11" /\ b.type = "wayland"
    \/ a.type = b.type /\ a.pos < b.pos

\* The slots the catalog lists.
Listed == {catalog[k] : k \in 1..Len(catalog)}

\* spec.md 4.3 and 8: a successful discovery yields exactly the usable
\* descriptors of the X11 directory followed by those of the Wayland one,
\* each once and in readdir order, and at least one: files missing a field,
\* unreadable files and names without ".desktop" are left out, and none is
\* counted twice.
CatalogIsUnion ==
    (phase = "done" /\ rc = "KIA_SUCCESS") =>
        /\ Listed = UsableSlotSet
        /\ \A k, l \in 1..Len(catalog) : k < l => ScanOrder(catalog[k], catalog[l])
        /\ catalog # <<>>
=============================================================================
