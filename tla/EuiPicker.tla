------------------------------ MODULE EuiPicker ------------------------------
(***************************************************************************)
(* The file and folder pickers of easyui (eui_pk in include/easyui.h), as  *)
(* operators on the state of one: each gives the set of states the C       *)
(* function may leave.  EasyUi says when they are called.                  *)
(*                                                                         *)
(* A path is the sequence of its names after "0:/", and names are numbers, *)
(* in the order the picker sorts them.  Rows count from 1, and 0 stands    *)
(* for C's -1.  Scrolling, texts and entries with the hidden flag are left *)
(* out.                                                                    *)
(***************************************************************************)
EXTENDS Integers, FiniteSets, SequencesExt

CONSTANTS
    Folders,   \* paths of folders there may be, besides the root
    Files,     \* paths of files there may be
    Hidden,    \* those of Files that the filter of a picker does not match
    Homes,     \* paths that are tried for the user's home, in order
    Standard,  \* names of the folders of a home that are among the places
    Typed,     \* names users type
    Long,      \* what is left of each path that is longer than EASYUI_PATH_MAX
    MaxEntries \* EUI_PICK_ENTRIES

ASSUME PathsAssumption == Folders \cup Files \subseteq Seq(Nat) /\ Folders \cap Files = {}

NoName == 0
NoPath == <<NoName>>      \* "", no path
Root == <<>>
Modes == {"open", "save", "folder"}

\* eui_pk, with what was last listed (history).
Pick(mode, name, result) ==
    [mode |-> mode, dir |-> NoPath, entries |-> <<>>, selected |-> 0, last |-> 0,
     name |-> name, result |-> result, listed |-> {}]
NoPick == Pick("none", NoName, NoPath)

Parent(path) == Front(path)
Within(path, folder) == IsPrefix(folder, path)
IsFolder(there, path) == path = Root \/ path \in there \cap Folders

\* eui_pk_join: a path that is too long loses its end without a word.
Clip(path) == IF path \in DOMAIN Long THEN Long[path] ELSE path
Join(pk, row) == Append(pk.dir, pk.entries[row].name)

\* eui_pk_home
Home(there) ==
    LET good == {i \in DOMAIN Homes : IsFolder(there, Homes[i])}
    IN IF good = {} THEN Root ELSE Homes[CHOOSE i \in good : \A k \in good : i <= k]

\* SYS_LISTDIR stops when the buffer is full, wherever it is by then.
Listed(there, dir) ==
    LET inside == {p \in there : p # Root /\ Parent(p) = dir}
    IN IF Cardinality(inside) <= MaxEntries THEN {inside} ELSE kSubset(MaxEntries, inside)

\* eui_pk_matches, and what the modes leave out.
Offered(paths, mode) ==
    {p \in paths : p \in Folders \/ (mode # "folder" /\ (p \in Hidden => mode = "save"))}
Shown(there, mode, dir) == {Offered(paths, mode) : paths \in Listed(there, dir)}

\* eui_pk_compare: folders first.
Before(a, b) == IF a.folder # b.folder THEN a.folder ELSE a.name < b.name

\* Each name that is read goes behind those that come before it.
Row(path) == [name |-> Last(path), folder |-> path \in Folders]
Sorted(paths) ==
    {rows \in [1..Cardinality(paths) -> {Row(p) : p \in paths}] :
        \A i, k \in DOMAIN rows : i < k => Before(rows[i], rows[k])}

\* Bug: the path changes before the folder is known to be there.
LoadAnyway(there, pk, dir) ==
    IF ~IsFolder(there, dir) THEN {[pk EXCEPT !.dir = dir]}
    ELSE LET found == [pk EXCEPT !.dir = dir, !.selected = 0]
         IN {[found EXCEPT !.entries = <<>>, !.listed = {}]}
            \cup UNION {{[found EXCEPT !.entries = rows, !.listed = paths] : rows \in Sorted(paths)} :
                           paths \in Shown(there, pk.mode, dir)}

\* eui_pk_load: a folder that is not there leaves what is shown, one that
\* cannot be listed is shown empty.  last stays as it is.
Load(there, pk, dir) ==
    IF ~IsFolder(there, dir) THEN {pk}
    ELSE LET found == [pk EXCEPT !.dir = dir, !.selected = 0]
         IN {[found EXCEPT !.entries = <<>>, !.listed = {}]}
            \cup UNION {{[found EXCEPT !.entries = rows, !.listed = paths] : rows \in Sorted(paths)} :
                           paths \in Shown(there, pk.mode, dir)}

\* eui_pk_up
Up(there, pk) == IF pk.dir = Root THEN {pk} ELSE Load(there, pk, Parent(pk.dir))

\* eui_pk_finish
Finished(path) == Pick("none", NoName, path)

Selected(pk) == pk.selected \in DOMAIN pk.entries
SelectedFolder(pk) == Selected(pk) /\ pk.entries[pk.selected].folder

\* eui_pk_accept in each of the modes.
AcceptFolder(pk) == {Finished(IF SelectedFolder(pk) THEN Clip(Join(pk, pk.selected)) ELSE pk.dir)}
AcceptName(there, pk) ==
    LET path == Clip(Append(pk.dir, pk.name)) IN
    CASE SelectedFolder(pk) /\ pk.name \in {NoName, pk.entries[pk.selected].name} ->
            Load(there, pk, Clip(Join(pk, pk.selected)))
      [] ~SelectedFolder(pk) /\ pk.name = NoName -> {pk}
      [] OTHER -> IF IsFolder(there, path)
                  THEN {[q EXCEPT !.name = NoName] : q \in Load(there, [pk EXCEPT !.result = path], path)}
                  ELSE {Finished(path)}
AcceptFile(there, pk) ==
    CASE SelectedFolder(pk) -> Load(there, pk, Clip(Join(pk, pk.selected)))
      [] Selected(pk) /\ ~SelectedFolder(pk) -> {Finished(Clip(Join(pk, pk.selected)))}
      [] OTHER -> {pk}
Accept(there, pk) ==
    CASE pk.mode = "folder" -> AcceptFolder(pk)
      [] pk.mode = "save" -> AcceptName(there, pk)
      [] pk.mode = "open" -> AcceptFile(there, pk)

\* The row that is selected, and in the save picker the name of a file.
OnRow(pk, row) ==
    [pk EXCEPT !.selected = row,
               !.name = IF pk.mode = "save" /\ ~pk.entries[row].folder THEN pk.entries[row].name ELSE @]

\* A click on a row; a quick one on the same row number is a double-click.
ClickRow(there, pk, row, quick) ==
    IF ~(quick /\ row = pk.last) THEN {[OnRow(pk, row) EXCEPT !.last = row]}
    ELSE LET q == [OnRow(pk, row) EXCEPT !.last = 0]
         IN IF pk.entries[row].folder THEN Load(there, q, Clip(Join(q, row))) ELSE Accept(there, q)

\* eui_pk_places
Places(there) ==
    {Home(there), Root} \cup {p \in {Append(Home(there), n) : n \in Standard} : IsFolder(there, p)}

\* eui_pick_mouse when the button goes down: Cancel, OK, Home, System and
\* the other places, Up, a row, or beside everything.
Pressing(there, pk) ==
    {Finished(NoPath), pk} \cup Accept(there, pk) \cup Up(there, pk)
    \cup (UNION {Load(there, pk, p) : p \in Places(there)})
    \cup (UNION {ClickRow(there, pk, row, quick) : row \in DOMAIN pk.entries, quick \in BOOLEAN})

\* eui_pick_key: Escape, Enter, the arrows, Backspace, and what is typed
\* into the name.
Keys(there, pk) ==
    LET to == {pk.selected - 1, pk.selected + 1} IN
    {Finished(NoPath), pk} \cup Accept(there, pk)
    \cup {OnRow(pk, row) : row \in (IF pk.selected = 0 THEN {1} ELSE to) \cap DOMAIN pk.entries}
    \cup (IF pk.mode = "save" THEN {[pk EXCEPT !.name = n] : n \in Typed \cup {NoName}} ELSE Up(there, pk))

\* eui_pick_start, once the widgets have let go: the folder that was asked
\* for, or the home.
Opening(there, pk) ==
    UNION {Load(there, pk, p) : p \in {Home(there)} \cup {q \in Folders \cup {Root} : IsFolder(there, q)}}

\* What a program may be given: a file that was listed, a folder that was
\* listed or is shown, a name in the folder shown that no folder has; or what
\* is left of a path that is too long.
Fair(there, pk, path) ==
    \/ \E p \in DOMAIN Long : Parent(p) = pk.dir /\ path = Long[p]
    \/ CASE pk.mode = "open" -> path \in (pk.listed \cap Files) \ Hidden
         [] pk.mode = "folder" -> path = pk.dir \/ path \in pk.listed \cap Folders
         [] pk.mode = "save" -> path # Root /\ Parent(path) = pk.dir /\ ~IsFolder(there, path)

=============================================================================
