------------------------------ MODULE StoreWalk ------------------------------
(***************************************************************************)
(* The package store of a `dlr` server as one process works on it:         *)
(* presenting a directory (copy_tree, then the archiver), rebuilding an    *)
(* archive, removing a package (remove_tree) and listing the store.        *)
(*                                                                         *)
(* All of them are recursive uses of dlr_dir_each, whose callback may call *)
(* dlr_dir_each again, and SharedBuffer tells the two ports apart.  On     *)
(* Minimal-OS every call lists into the one static g_dir_entries and walks *)
(* that array (dlr_port_mos.c); on the host port each call walks an array  *)
(* of its own (dlr_port_host.c).                                           *)
(*                                                                         *)
(* A path is a sequence of names, a directory tree is a set of directory   *)
(* paths and a set of file paths, an archive is the set of files packed    *)
(* into it.  What the files hold is left out.                              *)
(***************************************************************************)
EXTENDS Integers, Sequences, FiniteSets, SequencesExt

CONSTANTS
    Packages,       \* names under the store root
    Names,          \* names of files and directories in a package
    Sources,        \* directory trees that are presented
    Manifest,       \* name of the .pkg file
    ArchiveNames,   \* file names that end in .mpkg
    Absent,         \* no archive
    SharedBuffer,   \* TRUE on Minimal-OS, FALSE on the host port
    MaxDepth,       \* DLR_COPY_MAX_DEPTH
    MaxEntries,     \* DLR_DIR_MAX_ENTRIES: what one listing can hold
    Operations,     \* the commands that are given
    Faults,         \* the faults that may happen
    MaxOps          \* bound: commands given in a behaviour

ASSUME NamesAssumption == Packages # {} /\ IsFiniteSet(Packages) /\ Manifest \in Names

\* A source is the directory itself and what lies below it, each in a
\* directory that is there too.
ASSUME SourcesAssumption ==
    \A src \in Sources :
        /\ src = [dirs |-> src.dirs, files |-> src.files]
        /\ IsFiniteSet(src.dirs) /\ src.dirs \subseteq Seq(Names) /\ <<>> \in src.dirs
        /\ IsFiniteSet(src.files) /\ src.files \subseteq Seq(Names) \ {<<>>}
        /\ \A path \in src.dirs \cup src.files :
              \A k \in 0..(Len(path) - 1) : SubSeq(path, 1, k) \in src.dirs

ASSUME OperationsAssumption == Operations \subseteq {"present", "rebuild", "remove", "list"}
ASSUME FaultsAssumption == Faults \subseteq {"copy", "pack", "delete", "crash"}
ASSUME FlagAssumption == SharedBuffer \in BOOLEAN
ASSUME BoundsAssumption == {MaxDepth, MaxEntries, MaxOps} \subseteq Nat \ {0}

VARIABLES
    store,     \* for each package, the tree of its directory
    archive,   \* for each package, the files in its archive, or Absent
    from,      \* for each package, the source it was last presented from, or
               \* the half-done directory that was rebuilt since
    op,        \* what is under way: "idle", "copy", "pack", "undo", "repack",
               \* "remove" or "list"
    pkg,       \* the package it works on
    stack,     \* the active calls of dlr_dir_each, innermost last
    buffer,    \* g_dir_entries
    reported,  \* packages the listing has called back for, in order
    result,    \* how the last operation ended
    spoiled,   \* something it had to delete is still there (history)
    ops        \* number of commands given

vars == <<store, archive, from, op, pkg, stack, buffer, reported, result, spoiled, ops>>

-----------------------------------------------------------------------------
Empty == [dirs |-> {}, files |-> {}]

Entry(name, isDir) == [name |-> name, dir |-> isDir]

\* What a directory of a tree holds.
Kids(tree, path) ==
    {Entry(Last(d), TRUE) : d \in {e \in tree.dirs : e # <<>> /\ Front(e) = path}}
    \cup {Entry(Last(f), FALSE) : f \in {e \in tree.files : Front(e) = path}}

\* What the store root holds: package directories, and archives, each
\* under a name that is no package's.
RootKids ==
    {Entry(p, TRUE) : p \in {q \in Packages : store[q].dirs # {}}}
    \cup {Entry(<<p, "mpkg">>, FALSE) : p \in {q \in Packages : archive[q] # Absent}}

\* The files an archive of a package presented from src must hold: all of
\* them, except archives that lie at its top.
Wanted(src) == src.files \ {<<a>> : a \in ArchiveNames}

HasManifest(tree) == <<Manifest>> \in tree.files

\* mos_listdir gives the entries in some order, and no more than fit.
Listings(kids) ==
    LET fit == IF Cardinality(kids) < MaxEntries THEN Cardinality(kids) ELSE MaxEntries
    IN  {SubSeq(s, 1, fit) : s \in SetToSeqs(kids)}

\* A listing lands at the start of the static array; what lies behind it
\* stays.
Overlay(listing) == listing \o SubSeq(buffer, Len(listing) + 1, Len(buffer))

\* dlr_dir_each begins: list, then walk.
Enter(path, kids, frames) ==
    \E listing \in Listings(kids) :
        /\ buffer' = IF SharedBuffer THEN Overlay(listing) ELSE <<>>
        /\ stack' = Append(frames, [path |-> path, n |-> Len(listing), i |-> 1, own |-> listing])

Top == Last(stack)
Current == IF SharedBuffer THEN buffer[Top.i] ELSE Top.own[Top.i]
AtEntry == stack # <<>> /\ Top.i <= Top.n
AtEnd == stack # <<>> /\ Top.i > Top.n
EntryPath == Append(Top.path, Current.name)

\* The innermost call past its current entry.
NextEntry == stack' = [stack EXCEPT ![Len(stack)].i = @ + 1]

\* The innermost call returns into the callback that made it, whose caller
\* goes on with its next entry.
Return == stack' = [Front(stack) EXCEPT ![Len(stack) - 1].i = @ + 1]

\* What the array holds between operations no longer matters.
Finish(how) ==
    /\ op' = "idle"
    /\ result' = how
    /\ stack' = <<>>
    /\ buffer' = <<>>

Init ==
    /\ store = [p \in Packages |-> Empty]
    /\ archive = [p \in Packages |-> Absent]
    /\ from = [p \in Packages |-> Empty]
    /\ op = "idle" /\ pkg = CHOOSE p \in Packages : TRUE
    /\ stack = <<>> /\ buffer = <<>> /\ reported = <<>>
    /\ result = "none" /\ spoiled = FALSE /\ ops = 0

Begin(command) ==
    /\ command \in Operations
    /\ op = "idle"
    /\ ops < MaxOps
    /\ ops' = ops + 1
    /\ pkg' \in Packages
    /\ reported' = <<>>

-----------------------------------------------------------------------------
(* dlr_reg_present and dlr_reg_rebuild.                                    *)

\* No manifest, or none that can be read, or something of that name is
\* there already, or the store itself cannot be made.
PresentRefused ==
    /\ Begin("present") /\ spoiled' = FALSE
    /\ \/ \E src \in Sources : ~HasManifest(src)
       \/ store[pkg'].dirs # {} \/ archive[pkg'] # Absent
       \/ "copy" \in Faults
    /\ Finish("refused")
    /\ UNCHANGED <<store, archive, from>>

\* dlr_reg_remove of the half-copied package.  It has no archive yet, so
\* remove_tree is what is left of it; the callbacks on the way out only
\* pass the failure on.
UndoCopy(tree) ==
    /\ op' = "undo"
    /\ Enter(<<>>, Kids(tree, <<>>), <<>>)

\* copy_tree at depth 0: it may fail to list the source, and before that to
\* make the directory, when there is nothing to undo.
PresentBegins ==
    /\ Begin("present") /\ spoiled' = FALSE
    /\ \E src \in Sources :
        /\ HasManifest(src)
        /\ store[pkg'].dirs = {} /\ archive[pkg'] = Absent
        /\ from' = [from EXCEPT ![pkg'] = src]
        /\ LET made == [store EXCEPT ![pkg'].dirs = {<<>>}] IN
           \/ /\ store' = made
              /\ op' = "copy" /\ result' = "none"
              /\ Enter(<<>>, Kids(src, <<>>), <<>>)
           \/ /\ "copy" \in Faults
              /\ store' = made
              /\ result' = "none"
              /\ UndoCopy(made[pkg'])
           \/ /\ "copy" \in Faults
              /\ UNCHANGED store
              /\ Finish("failed")
    /\ UNCHANGED archive

\* A file that cannot be copied may still have been created.  An archive
\* lying at the top of the source is not copied.
CopyFile ==
    /\ op = "copy" /\ AtEntry /\ ~Current.dir
    /\ LET source == from[pkg]
           created == [store EXCEPT ![pkg].files = @ \cup {EntryPath}]
       IN  IF Len(stack) = 1 /\ Current.name \in ArchiveNames
           THEN NextEntry /\ UNCHANGED <<store, op, buffer>>
           ELSE \/ /\ EntryPath \in source.files
                   /\ store' = created
                   /\ NextEntry
                   /\ UNCHANGED <<op, buffer>>
                \/ /\ EntryPath \notin source.files \/ "copy" \in Faults
                   /\ \E now \in {store} \cup {t \in {created} : EntryPath \in source.files} :
                        store' = now /\ UndoCopy(now[pkg])
    /\ UNCHANGED <<archive, from, pkg, reported, result, spoiled, ops>>

\* A directory, one level down: copy_tree makes it in the store before it
\* finds out whether it can read it.
CopyDir ==
    /\ op = "copy" /\ AtEntry /\ Current.dir
    /\ LET made == [store EXCEPT ![pkg].dirs = @ \cup {EntryPath}] IN
       \/ /\ Len(stack) <= MaxDepth
          /\ store' = made
          /\ \/ /\ EntryPath \in from[pkg].dirs
                /\ Enter(EntryPath, Kids(from[pkg], EntryPath), stack)
                /\ UNCHANGED op
             \/ /\ EntryPath \notin from[pkg].dirs \/ "copy" \in Faults
                /\ UndoCopy(made[pkg])
       \/ /\ Len(stack) > MaxDepth \/ "copy" \in Faults
          /\ UNCHANGED store
          /\ UndoCopy(store[pkg])
    /\ UNCHANGED <<archive, from, pkg, reported, result, spoiled, ops>>

\* Bug: a nested directory that is done ends the whole copy.
CopyReturnsEarly ==
    /\ op = "copy" /\ AtEnd
    /\ op' = "pack" /\ stack' = <<>>
    /\ UNCHANGED <<store, archive, from, pkg, buffer, reported, result, spoiled, ops>>

\* dlr_dir_each is through, and copy_tree returns 1.
CopyReturns ==
    /\ op = "copy" /\ AtEnd
    /\ IF Len(stack) = 1
       THEN op' = "pack" /\ stack' = <<>>
       ELSE Return /\ UNCHANGED op
    /\ UNCHANGED <<store, archive, from, pkg, buffer, reported, result, spoiled, ops>>

\* build_archive: the kernel packs the directory, beside it.
Pack ==
    /\ op = "pack"
    /\ \/ /\ archive' = [archive EXCEPT ![pkg] = store[pkg].files]
          /\ Finish("presented")
       \/ /\ "pack" \in Faults
          /\ UndoCopy(store[pkg])
          /\ UNCHANGED <<archive, result>>
    /\ UNCHANGED <<store, from, pkg, reported, spoiled, ops>>

\* The old archive is deleted before the new one is packed; whether that
\* worked is not looked at.
RebuildBegins ==
    /\ Begin("rebuild")
    /\ \/ /\ HasManifest(store[pkg'])
          /\ \/ archive' = [archive EXCEPT ![pkg'] = Absent] /\ spoiled' = FALSE
             \/ "delete" \in Faults /\ UNCHANGED archive /\ spoiled' = TRUE
          /\ op' = "repack" /\ result' = "none"
          /\ stack' = <<>> /\ buffer' = <<>>
       \/ /\ ~HasManifest(store[pkg']) \/ "copy" \in Faults
          /\ Finish("refused")
          /\ spoiled' = FALSE
          /\ UNCHANGED archive
    /\ UNCHANGED <<store, from>>

\* The directory is taken as it is, even if an earlier command was killed
\* or stuck half-way.
Repack ==
    /\ op = "repack"
    /\ \/ /\ archive' = [archive EXCEPT ![pkg] = store[pkg].files]
          /\ from' = IF store[pkg].files = Wanted(from[pkg]) THEN from
                     ELSE [from EXCEPT ![pkg] = store[pkg]]
          /\ Finish("rebuilt")
       \/ /\ "pack" \in Faults
          /\ Finish("failed rebuild")
          /\ UNCHANGED <<archive, from>>
    /\ UNCHANGED <<store, pkg, reported, spoiled, ops>>

Rebuild == RebuildBegins \/ Repack

-----------------------------------------------------------------------------
(* dlr_reg_remove and remove_tree.  A directory that cannot be listed ends *)
(* it as a first entry that cannot be deleted does.                        *)

\* Bug: the archive of a package is left alone.
RemoveKeepsArchive ==
    /\ Begin("remove") /\ spoiled' = FALSE
    /\ store[pkg'].dirs # {}
    /\ op' = "remove" /\ result' = "none"
    /\ Enter(<<>>, Kids(store[pkg'], <<>>), <<>>)
    /\ UNCHANGED <<store, archive, from>>

\* The archive goes first; whether deleting it worked is not looked at.
RemoveBegins ==
    /\ Begin("remove")
    /\ \/ archive' = [archive EXCEPT ![pkg'] = Absent] /\ spoiled' = FALSE
       \/ "delete" \in Faults /\ UNCHANGED archive /\ spoiled' = TRUE
    /\ IF store[pkg'].dirs # {}
       THEN /\ op' = "remove" /\ result' = "none"
            /\ Enter(<<>>, Kids(store[pkg'], <<>>), <<>>)
       ELSE Finish("removed")
    /\ UNCHANGED <<store, from>>

Removing == op \in {"remove", "undo"}

\* remove_tree gave up, or is done: dlr_reg_remove does not look which,
\* and dlr_reg_present fails for the reason it already had.
RemoveEnds == Finish(IF op = "undo" THEN "failed" ELSE "removed")

RemoveFile ==
    /\ Removing /\ AtEntry /\ ~Current.dir
    /\ \/ /\ EntryPath \in store[pkg].files
          /\ store' = [store EXCEPT ![pkg].files = @ \ {EntryPath}]
          /\ NextEntry
          /\ UNCHANGED <<op, result, buffer, spoiled>>
       \/ /\ EntryPath \notin store[pkg].files \/ "delete" \in Faults
          /\ RemoveEnds
          /\ spoiled' = (spoiled \/ EntryPath \in store[pkg].files)
          /\ UNCHANGED store
    /\ UNCHANGED <<archive, from, pkg, reported, ops>>

\* Bug: removing stops one level before copying does.
RemoveDirShallow ==
    /\ Removing /\ AtEntry /\ Current.dir
    /\ IF Len(stack) < MaxDepth /\ EntryPath \in store[pkg].dirs
       THEN Enter(EntryPath, Kids(store[pkg], EntryPath), stack) /\ UNCHANGED <<op, result>>
       ELSE RemoveEnds
    /\ UNCHANGED <<store, archive, from, pkg, reported, spoiled, ops>>

\* Two levels more than copy_tree would make.
RemoveDir ==
    /\ Removing /\ AtEntry /\ Current.dir
    /\ IF Len(stack) <= MaxDepth + 2 /\ EntryPath \in store[pkg].dirs
       THEN Enter(EntryPath, Kids(store[pkg], EntryPath), stack) /\ UNCHANGED <<op, result>>
       ELSE RemoveEnds
    /\ UNCHANGED <<store, archive, from, pkg, reported, spoiled, ops>>

\* dlr_remove_dir takes an empty directory only.
RemoveReturns ==
    /\ Removing /\ AtEnd
    /\ LET gone == Kids(store[pkg], Top.path) = {} IN
       \/ /\ gone
          /\ store' = [store EXCEPT ![pkg].dirs = @ \ {Top.path}]
          /\ IF Len(stack) > 1
             THEN Return /\ UNCHANGED <<op, result, buffer>>
             ELSE RemoveEnds
          /\ UNCHANGED spoiled
       \/ /\ ~gone \/ "delete" \in Faults
          /\ RemoveEnds
          /\ spoiled' = (spoiled \/ gone)
          /\ UNCHANGED store
    /\ UNCHANGED <<archive, from, pkg, reported, ops>>

-----------------------------------------------------------------------------
(* dlr_reg_search without a query: what PKG_LIST sends.                    *)

ListBegins ==
    /\ Begin("list") /\ spoiled' = FALSE
    /\ op' = "list" /\ result' = "none"
    /\ Enter(<<>>, RootKids, <<>>)
    /\ UNCHANGED <<store, archive, from>>

IsPresented(name) ==
    name \in Packages /\ store[name].dirs # {} /\ archive[name] # Absent

\* A plain file, a directory without archive, or an entry of some other
\* directory that the array holds by now.
ListSkips ==
    /\ op = "list" /\ AtEntry
    /\ ~(Current.dir /\ IsPresented(Current.name))
    /\ NextEntry
    /\ UNCHANGED <<store, archive, from, op, pkg, buffer, reported, result, spoiled, ops>>

\* read_manifest lists the directory of the package to find its manifest.
ListReports ==
    /\ op = "list" /\ AtEntry
    /\ Current.dir /\ IsPresented(Current.name)
    /\ reported' = Append(reported, Current.name)
    /\ \E listing \in Listings(Kids(store[Current.name], <<>>)) :
        buffer' = IF SharedBuffer THEN Overlay(listing) ELSE <<>>
    /\ NextEntry
    /\ UNCHANGED <<store, archive, from, op, pkg, result, spoiled, ops>>

\* Bug: the walk stops one entry early.
ListEndsEarly ==
    /\ op = "list" /\ stack # <<>> /\ Top.i >= Top.n
    /\ Finish("listed")
    /\ UNCHANGED <<store, archive, from, pkg, reported, spoiled, ops>>

ListEnds ==
    /\ op = "list" /\ AtEnd
    /\ Finish("listed")
    /\ UNCHANGED <<store, archive, from, pkg, reported, spoiled, ops>>

-----------------------------------------------------------------------------
\* The process is killed; what is on disk stays.
Crash ==
    /\ "crash" \in Faults
    /\ op # "idle"
    /\ Finish("killed")
    /\ UNCHANGED <<store, archive, from, pkg, reported, spoiled, ops>>

PresentSteps == PresentRefused \/ PresentBegins \/ CopyFile \/ CopyDir \/ CopyReturns \/ Pack
RemoveSteps == RemoveBegins \/ RemoveFile \/ RemoveDir \/ RemoveReturns
ListSteps == ListBegins \/ ListSkips \/ ListReports \/ ListEnds

Next == PresentSteps \/ Rebuild \/ RemoveSteps \/ ListSteps \/ Crash

Spec == Init /\ [][Next]_vars

-----------------------------------------------------------------------------
(* What must hold.                                                         *)

Results == {"none", "refused", "presented", "failed", "rebuilt", "failed rebuild",
            "removed", "listed", "killed"}

TypeOK ==
    /\ \A p \in Packages : DOMAIN store[p] = {"dirs", "files"}
    /\ \A p \in Packages : from[p] \in Sources \cup {Empty} \/ HasManifest(from[p])
    /\ op \in {"idle", "copy", "pack", "undo", "repack", "remove", "list"}
    /\ pkg \in Packages
    /\ \A k \in 1..Len(stack) :
        stack[k].n \in 0..MaxEntries /\ stack[k].i \in 1..(stack[k].n + 1)
    /\ Len(buffer) <= MaxEntries
    /\ ToSet(reported) \subseteq Packages
    /\ result \in Results /\ spoiled \in BOOLEAN
    /\ ops \in 0..MaxOps

\* A package that clients can be given is whole: its archive, made by
\* dlr_reg_present or dlr_reg_rebuild after a recursive copy, holds every
\* file of the directory it was presented from, whatever failed or was
\* killed on the way.  Only the rebuild of a directory that a failed command
\* has left half-done archives less.
OfferedIsWhole ==
    \A p \in Packages : archive[p] # Absent => archive[p] = Wanted(from[p])

\* dlr_reg_present that fails leaves nothing half-copied, at whatever
\* depth it failed, if deleting works.
FailedLeavesNothing ==
    result = "failed" /\ ~spoiled
        => store[pkg] = Empty /\ archive[pkg] = Absent

\* dlr_reg_remove deletes the files and the archive of a package, also of
\* one whose presenting was cut short or whose earlier
\* removal stuck, and so the name is free again.
RemovedIsGone ==
    result = "removed" /\ ~spoiled
        => store[pkg] = Empty /\ archive[pkg] = Absent

\* A listing calls back for every presented package once and for nothing
\* else, although finding a manifest lists another directory half-way.
ListIsExact ==
    result = "listed" =>
        /\ ToSet(reported) = {p \in Packages : IsPresented(p)}
        /\ Len(reported) = Cardinality(ToSet(reported))

=============================================================================
