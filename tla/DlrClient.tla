------------------------------ MODULE DlrClient ------------------------------
(***************************************************************************)
(* The client side of `dlr` on one machine (main.c, dlr_client.c,          *)
(* dlr_db.c): several processes, each running commands, that share the     *)
(* list of servers (0:/var/dlr/servers.txt), the staging file              *)
(* (0:/var/dlr/download.bin) and what is installed.                        *)
(*                                                                         *)
(* A download (DlrTransfer) is here two steps, the creation of the staging *)
(* file and its last write, between which other processes may run; a file  *)
(* that two processes wrote at once is Mixed.                              *)
(***************************************************************************)
EXTENDS DlrArchive, FiniteSets

CONSTANTS
    Clients,      \* processes of this machine
    Commands,     \* the commands they are given
    Hellos,       \* what servers say: [addr, name]
    Lists,        \* lists of servers an earlier day may have left
    Names,        \* what a user may call a server
    Packages,     \* names of packages that may be asked for
    Archives,     \* what servers may send for them
    Preinstalled, \* paths of files that are there already
    MaxServers,   \* DLR_MAX_SERVERS
    MaxCommands,  \* bound: commands begun in a behaviour
    Faults        \* "net", "disk", "flush", "kill": what can go wrong

Twinless(l) == \A i, j \in DOMAIN l : l[i].addr = l[j].addr => i = j

ASSUME ListsAssumption == \A l \in Lists : l \in Seq(Hellos) /\ Twinless(l)
ASSUME BoundsAssumption == MaxServers \in Nat /\ MaxCommands \in Nat

\* The names in an archive are paths, and so is the target.
ASSUME ArchivesAssumption ==
    \A a \in Archives :
        LET calls == Extract(a).calls IN
        /\ Len(calls) \in Nat /\ DOMAIN calls = 1..Len(calls)
        /\ \A i \in DOMAIN calls : calls[i].name \in Seq(STRING) /\ calls[i].name # <<>>
        /\ TargetOf(ManifestOf(calls)) \in Seq(STRING)

Mixed == [format |-> "mixed"]
PartOf(c) == [format |-> "part", of |-> c]

\* What is left of the contents of a file that was not written to its end.
Cut == "cut"

ASSUME NoneAssumption == \A c \in Clients : PartOf(c) # None

VARIABLES
    db,         \* servers.txt: its lines
    stage,      \* the staging file: None, PartOf(c), an archive, or Mixed
    installed,  \* files under the install directories: [path, data]
    saved,      \* archives saved by `dlr download`
    pc, menu,   \* where each process is; whether it runs servers-tui
    list,       \* g_servers of each process
    arg,        \* what its command was given: [kind, package]
    mem,        \* the archive it holds: verified, then read back
    pos,        \* calls of the second pass dealt with
    begun,      \* number of commands begun
    forced,     \* history: --force was given to install what is not for here
    verified,   \* history: the archive whose SHA-256 matched
    wrote,      \* history: files the install under way has written, each
                \* with its position in the archive
    missed,     \* history: positions of those it has reported as left out,
                \* or that were cut in the closing
    lost,       \* history: what went wrong in this command without a word:
                \* "stage", the end of the download; "removal", of that file
    result,     \* history: how its last command ended
    alone,      \* history: no other process was in a command during its own
    orderly     \* history: no two processes have ever been in a command at once

diskVars == <<db, stage, installed, saved>>
history  == <<forced, verified, wrote, missed, lost, orderly>>
vars == <<diskVars, pc, menu, list, arg, mem, pos, begun, history, result, alone>>

NoArg == [kind |-> None, package |-> None]

-----------------------------------------------------------------------------
(* The list of servers.                                                    *)

\* dlr_db_add: one entry for each address, refreshed when heard again; a
\* full list stays as it is.
DbAdd(l, s) ==
    IF \E i \in DOMAIN l : l[i].addr = s.addr
    THEN LET first == CHOOSE i \in DOMAIN l :
                        l[i].addr = s.addr /\ \A j \in 1..(i - 1) : l[j].addr # s.addr
         IN [l EXCEPT ![first] = s]
    ELSE IF Len(l) >= MaxServers THEN l ELSE Append(l, s)

\* pick_server: the first one, an address, or the only one of that name.
Picked(l, wanted) ==
    CASE l = <<>> -> None
      [] l # <<>> /\ wanted = None -> l[1].addr
      [] l # <<>> /\ wanted \in {h.addr : h \in Hellos} -> wanted
      [] OTHER ->
           LET hits == {i \in DOMAIN l : l[i].name = wanted}
           IN IF Cardinality(hits) = 1 THEN l[CHOOSE i \in hits : TRUE].addr ELSE None

-----------------------------------------------------------------------------
(* Commands begin and end.                                                 *)

Busy(c) == pc[c] \notin {"idle", "menu"}

Init ==
    /\ db \in Lists /\ stage = None /\ saved = {}
    /\ installed = {[path |-> p, data |-> None] : p \in Preinstalled}
    /\ pc = [c \in Clients |-> "idle"] /\ menu = [c \in Clients |-> FALSE]
    /\ list = [c \in Clients |-> <<>>] /\ arg = [c \in Clients |-> NoArg]
    /\ mem = [c \in Clients |-> None] /\ pos = [c \in Clients |-> 0]
    /\ begun = 0
    /\ forced = [c \in Clients |-> FALSE]
    /\ verified = [c \in Clients |-> None] /\ wrote = [c \in Clients |-> {}]
    /\ missed = [c \in Clients |-> {}] /\ lost = [c \in Clients |-> {}]
    /\ result = [c \in Clients |-> None]
    /\ alone = [c \in Clients |-> TRUE] /\ orderly = TRUE

Goto(c, where) == pc' = [pc EXCEPT ![c] = where]

\* A command that gives up before it has touched anything.
End(c, how) ==
    /\ Goto(c, IF menu[c] THEN "menu" ELSE "idle")
    /\ result' = [result EXCEPT ![c] = how]

\* The common part of every beginning; servers-tui keeps the list it has.
Begin(c, a, where) ==
    /\ ~Busy(c) /\ begun < MaxCommands
    /\ begun' = begun + 1
    /\ arg' = [arg EXCEPT ![c] = a]
    /\ Goto(c, where)
    /\ list' = IF menu[c] THEN list ELSE [list EXCEPT ![c] = db]
    /\ alone' = [d \in Clients |->
                   IF d = c THEN \A e \in Clients \ {c} : ~Busy(e)
                            ELSE alone[d] /\ ~Busy(d)]
    /\ orderly' = (orderly /\ \A e \in Clients : ~Busy(e))
    /\ result' = [result EXCEPT ![c] = None]
    /\ lost' = [lost EXCEPT ![c] = {}] /\ UNCHANGED <<wrote, missed>>
    /\ mem' = [mem EXCEPT ![c] = None] /\ verified' = [verified EXCEPT ![c] = None]
    /\ pos' = [pos EXCEPT ![c] = 0] /\ forced' = [forced EXCEPT ![c] = FALSE]
    /\ UNCHANGED diskVars

\* cmd_scan, and R in servers-tui.
Scan(c) == "scan" \in Commands /\ Begin(c, [NoArg EXCEPT !.kind = "scan"], "bind")

\* cmd_add; cmd_list, cmd_search, cmd_ping; cmd_install, cmd_download; the
\* number of a server in servers-tui.
Command(c) ==
    /\ UNCHANGED menu
    /\ \/ Scan(c)
       \/ /\ "add" \in Commands /\ pc[c] = "idle"
          /\ Begin(c, [NoArg EXCEPT !.kind = "add"], "probe")
       \/ \E k \in Commands \cap {"ask", "install", "download"}, p \in Packages :
          /\ menu[c] => k = "download"
          /\ Begin(c, [kind |-> k, package |-> p], IF menu[c] THEN "enter" ELSE "open")

OpenMenu(c) ==
    /\ "tui" \in Commands /\ pc[c] = "idle"
    /\ Goto(c, "menu") /\ menu' = [menu EXCEPT ![c] = TRUE]
    /\ list' = [list EXCEPT ![c] = db]
    /\ UNCHANGED <<diskVars, arg, mem, pos, begun, history, result, alone>>

Quit(c) ==
    /\ pc[c] = "menu"
    /\ Goto(c, "idle") /\ menu' = [menu EXCEPT ![c] = FALSE]
    /\ UNCHANGED <<diskVars, list, arg, mem, pos, begun, history, result, alone>>

-----------------------------------------------------------------------------
(* Finding servers.                                                        *)

restOfFinding == <<stage, installed, saved, menu, arg, mem, pos, begun, history, alone>>

\* dlr_discover: without its port nothing changes; with it the list starts
\* over.
Bind(c) ==
    /\ pc[c] = "bind"
    /\ \/ "net" \in Faults /\ End(c, "failed") /\ UNCHANGED list
       \/ Goto(c, "hear") /\ list' = [list EXCEPT ![c] = <<>>] /\ UNCHANGED result
    /\ UNCHANGED <<db, restOfFinding>>

Hear(c) ==
    /\ pc[c] = "hear" /\ Len(list[c]) < MaxServers
    /\ \E h \in Hellos : list' = [list EXCEPT ![c] = DbAdd(@, h)]
    /\ UNCHANGED <<db, pc, result, restOfFinding>>

\* The window has passed, or the list is full.
Heard(c) ==
    /\ pc[c] = "hear" /\ Goto(c, "save")
    /\ UNCHANGED <<db, list, result, restOfFinding>>

\* cmd_add: the list is read again after the server has answered.
Probe(c) ==
    /\ pc[c] = "probe"
    /\ \/ "net" \in Faults /\ End(c, "failed") /\ UNCHANGED list
       \/ /\ \E h \in Hellos : list' = [list EXCEPT ![c] = DbAdd(db, h)]
          /\ Goto(c, "save") /\ UNCHANGED result
    /\ UNCHANGED <<db, restOfFinding>>

\* Bug: the file is not emptied when it is created.
SaveKeepsRest(c) ==
    /\ pc[c] = "save"
    /\ \/ "disk" \in Faults /\ End(c, "saved")
       \/ Goto(c, "saving") /\ UNCHANGED result
    /\ UNCHANGED <<db, list, restOfFinding>>

\* dlr_db_save: the file is emptied when it is created, and then written in
\* one piece over what is there.  Nobody looks at its result.
Save(c) ==
    /\ pc[c] = "save"
    /\ \/ "disk" \in Faults /\ End(c, "saved") /\ UNCHANGED db
       \/ Goto(c, "saving") /\ db' = <<>> /\ UNCHANGED result
    /\ UNCHANGED <<list, restOfFinding>>

SaveWrite(c) ==
    /\ pc[c] = "saving" /\ End(c, "saved")
    /\ \/ "disk" \in Faults /\ UNCHANGED db
       \/ db' = list[c] \o SubSeq(db, Len(list[c]) + 1, Len(db))
    /\ UNCHANGED <<list, restOfFinding>>

-----------------------------------------------------------------------------
(* Fetching an archive.                                                    *)

Asked == Names \cup {None}
restOfReading == <<db, menu, list, arg, begun, alone, orderly>>
restOfFetching == <<restOfReading, forced, missed>>

\* pick_server finds nobody, or open_session does not get to him.
MayMiss(c) == "net" \in Faults \/ \E n \in Asked : Picked(list[c], n) = None
MayReach(c) == \E n \in Asked : Picked(list[c], n) # None

\* cmd_list, cmd_search, cmd_ping: a session for one question.
Ask(c) ==
    /\ pc[c] = "open" /\ arg[c].kind = "ask"
    /\ \/ MayMiss(c) /\ End(c, "failed")
       \/ MayReach(c) /\ End(c, "answered")
    /\ UNCHANGED <<stage, installed, saved, mem, pos, verified, wrote, lost, restOfFetching>>

\* tui_server_packages: a session for the list of packages, which is over
\* before the user chooses one, or B, or nothing that is there.
Enter(c) ==
    /\ pc[c] = "enter"
    /\ \/ /\ list[c] = <<>> \/ "net" \in Faults
          /\ End(c, "failed")
       \/ list[c] # <<>> /\ End(c, "answered")
       \/ list[c] # <<>> /\ Goto(c, "fetch") /\ UNCHANGED result
    /\ UNCHANGED <<stage, installed, saved, mem, pos, verified, wrote, lost, restOfFetching>>

\* A command connects, or servers-tui connects again.
Opening(c) == pc[c] = "fetch" \/ (pc[c] = "open" /\ arg[c].kind # "ask")
MayFail(c) ==
    IF pc[c] = "fetch" THEN Faults \cap {"net", "disk"} # {}
    ELSE "disk" \in Faults \/ MayMiss(c)

\* Bug: the staging file is opened, and not created.
OpenKeepsStage(c) ==
    /\ Opening(c)
    /\ \/ MayFail(c) /\ End(c, "failed") /\ UNCHANGED stage
       \/ /\ pc[c] = "open" => MayReach(c)
          /\ Goto(c, "receive") /\ UNCHANGED result
          /\ stage' = IF stage = None THEN PartOf(c) ELSE stage
    /\ UNCHANGED <<installed, saved, mem, pos, verified, wrote, lost, restOfFetching>>

\* cmd_download, tui_download, dlr_client_install up to the creation of the
\* staging file, before anything has come.
Open(c) ==
    /\ Opening(c)
    /\ \/ MayFail(c) /\ End(c, "failed") /\ UNCHANGED stage
       \/ /\ pc[c] = "open" => MayReach(c)
          /\ Goto(c, "receive") /\ stage' = PartOf(c) /\ UNCHANGED result
    /\ UNCHANGED <<installed, saved, mem, pos, verified, wrote, lost, restOfFetching>>

Loses(c, what) == lost' = [lost EXCEPT ![c] = @ \cup {what}]

\* dlr_remove of the staging file, which may fail; nobody looks.
DropStage(c) ==
    \/ stage' = None /\ UNCHANGED lost
    \/ "disk" \in Faults /\ UNCHANGED stage /\ Loses(c, "removal")

\* What closing the file can leave of an archive: something that is none,
\* or the beginning that another one is.
CutOff(a) == {b \in Archives \ {a} : b.format = a.format /\ b.announced = a.announced
                                      /\ IsPrefix(b.items, a.items)}

\* dlr_download: what was received is on disk, or it is deleted again.  The
\* digest is that of what has come, and not of what the closing has left.
Receive(c) ==
    /\ pc[c] = "receive"
    /\ \/ /\ Faults \cap {"net", "disk"} # {}
          /\ DropStage(c) /\ End(c, "failed") /\ UNCHANGED verified
       \/ \E a \in Archives :
          /\ \/ /\ stage' = CASE stage = PartOf(c) -> a
                              [] stage = None -> None
                              [] OTHER -> Mixed
                /\ UNCHANGED lost
             \/ /\ "flush" \in Faults /\ stage = PartOf(c)
                /\ stage' \in CutOff(a) \cup {PartOf(c)}
                /\ Loses(c, "stage")
          /\ verified' = [verified EXCEPT ![c] = a]
          /\ Goto(c, IF arg[c].kind = "install" THEN "read" ELSE "copy")
          /\ UNCHANGED result
    /\ UNCHANGED <<installed, saved, mem, pos, wrote, restOfFetching>>

\* tui_copy_download: what is copied is what the staging file holds by now.
CopyDownload(c) ==
    /\ pc[c] = "copy"
    /\ \/ /\ stage = None \/ "disk" \in Faults
          /\ End(c, "failed") /\ UNCHANGED <<saved, stage, mem, lost>>
       \/ /\ stage # None
          /\ mem' = [mem EXCEPT ![c] = stage]
          /\ saved' = saved \cup {stage}
          /\ DropStage(c)
          /\ End(c, "done")
    /\ UNCHANGED <<installed, pos, verified, wrote, restOfFetching>>

-----------------------------------------------------------------------------
(* dlr_client_install, after the download.                                 *)

Known(a) == a \in Archives

\* What the first pass finds in each archive.
Contents ==
    [a \in Archives |->
        LET x == Extract(a) IN [ok |-> x.ok, calls |-> x.calls, manifest |-> ManifestOf(x.calls)]]

Calls(c) == Contents[mem[c]].calls
Manifest(c) == Contents[mem[c]].manifest

\* What the second pass makes of a call, and the calls that are left to it.
FileAt(c, i) == [path |-> PathOf(Calls(c)[i], arg[c].package, Manifest(c)),
                 data |-> Calls(c)[i].data]
Todo(c) == {i \in DOMAIN Calls(c) :
               i > pos[c] /\ Wanted(Calls(c)[i], arg[c].package, Manifest(c))}

\* Bug: only one pass, which installs what it meets.
ReadOnePass(c) ==
    /\ pc[c] = "read" /\ Known(stage)
    /\ mem' = [mem EXCEPT ![c] = stage]
    /\ Goto(c, "entries")
    /\ UNCHANGED <<stage, installed, saved, pos, verified, wrote, lost, result, restOfFetching>>

\* The archive is read into memory and looked through before anything is
\* written: it must be readable to its end, have a manifest and be for here.
Read(c) ==
    /\ pc[c] = "read"
    /\ \/ /\ ~Known(stage) \/ "disk" \in Faults
          /\ End(c, "failed") /\ UNCHANGED <<mem, forced>>
       \/ /\ Known(stage)
          /\ mem' = [mem EXCEPT ![c] = stage]
          /\ LET pkg == Contents[stage].manifest
             IN \/ /\ Contents[stage].ok /\ pkg.name # None
                   /\ forced' = [forced EXCEPT ![c] = ~RunsHere(pkg)]
                   /\ Goto(c, "entries") /\ UNCHANGED result
                \/ /\ ~Contents[stage].ok \/ pkg.name = None \/ ~RunsHere(pkg)
                   /\ End(c, "refused") /\ UNCHANGED forced
    /\ UNCHANGED <<stage, installed, saved, pos, verified, wrote, missed, lost, restOfReading>>

Put(file) == {f \in installed : f.path # file.path} \cup {file}

\* The history of an install ends with it.
Forget(c) == wrote' = [wrote EXCEPT ![c] = {}] /\ missed' = [missed EXCEPT ![c] = {}]

\* The next file that install_on_file does not pass over.  One whose path
\* is too long or whose directory cannot be made is only reported; a write
\* that fails ends the extraction, and may leave the file begun.
Entry(c) ==
    /\ pc[c] = "entries"
    /\ \E i \in Todo(c) :
        LET file == FileAt(c, i)
            Misses == missed' = [missed EXCEPT ![c] = @ \cup {i}]
            Writes(f) == /\ installed' = Put(f)
                         /\ wrote' = [wrote EXCEPT ![c] = @ \cup {<<i, file>>}]
            GoesOn == pos' = [pos EXCEPT ![c] = i] /\ UNCHANGED <<pc, result>>
        IN /\ \A j \in Todo(c) : i <= j
           /\ \/ Writes(file) /\ GoesOn /\ UNCHANGED missed
              \/ "flush" \in Faults /\ Writes([file EXCEPT !.data = Cut]) /\ GoesOn /\ Misses
              \/ "disk" \in Faults /\ Misses /\ GoesOn /\ UNCHANGED <<installed, wrote>>
              \/ /\ "disk" \in Faults /\ End(c, "aborted")
                 /\ installed' \in {installed, Put([file EXCEPT !.data = Cut])}
                 /\ Forget(c) /\ UNCHANGED pos
    /\ UNCHANGED <<stage, saved, mem, verified, lost, restOfReading, forced>>

\* The staging file goes, and the program of run= is started if it is there.
Finish(c) ==
    /\ pc[c] = "entries" /\ Todo(c) = {}
    /\ DropStage(c) /\ Forget(c)
    /\ LET pkg == Manifest(c) IN
       IF pkg.run = None THEN End(c, "done")
       ELSE \/ /\ \E f \in installed : f.path = RunPath(pkg)
               /\ End(c, "done")
            \/ /\ (\A f \in installed : f.path # RunPath(pkg)) \/ "disk" \in Faults
               /\ End(c, "not run")
    /\ UNCHANGED <<installed, saved, mem, pos, verified, restOfReading, forced>>

\* Ctrl+C, or the power: everything the process knew is gone.
Kill(c) ==
    /\ "kill" \in Faults /\ Busy(c)
    /\ Goto(c, "idle") /\ menu' = [menu EXCEPT ![c] = FALSE]
    /\ result' = [result EXCEPT ![c] = "killed"] /\ Forget(c)
    /\ UNCHANGED <<diskVars, list, arg, mem, pos, begun, forced, verified, lost, orderly, alone>>

Step(c) ==
    \/ Bind(c) \/ Heard(c) \/ Probe(c) \/ Save(c) \/ SaveWrite(c)
    \/ Ask(c) \/ Enter(c) \/ Open(c) \/ Receive(c) \/ CopyDownload(c)
    \/ Read(c) \/ Entry(c) \/ Finish(c)

Next == \E c \in Clients : Command(c) \/ OpenMenu(c) \/ Quit(c) \/ Hear(c) \/ Step(c) \/ Kill(c)

Spec == Init /\ [][Next]_vars

-----------------------------------------------------------------------------
TypeOK ==
    /\ db \in Seq(Hellos)
    /\ stage \in {None, Mixed} \cup {PartOf(c) : c \in Clients} \cup Archives
    /\ saved \subseteq Archives \cup {Mixed} \cup {PartOf(c) : c \in Clients}
    /\ pc \in [Clients -> {"idle", "menu", "bind", "hear", "probe", "save", "saving", "open", "enter",
                           "fetch", "receive", "copy", "read", "entries"}]
    /\ menu \in [Clients -> BOOLEAN] /\ alone \in [Clients -> BOOLEAN]
    /\ begun \in 0..MaxCommands /\ orderly \in BOOLEAN
    /\ list \in [Clients -> Seq(Hellos)]
    /\ mem \in [Clients -> Archives \cup saved \cup {None}]

\* An archive that cannot be read to its end, that has no manifest or that
\* is for another system leaves nothing behind, whoever else is installing:
\* it is read to its end before the first file is written.
RefusedWritesNothing ==
    \A c \in Clients :
        wrote[c] # {} =>
            /\ Contents[mem[c]].ok /\ Manifest(c).name # None
            /\ RunsHere(Manifest(c)) \/ forced[c]

\* What a command installs or saves is what it has verified, as long as no
\* other process was in a command at the same time, and closing the staging
\* file has lost nothing of it.
UndisturbedIsVerified ==
    \A c \in Clients :
        alone[c] /\ "stage" \notin lost[c] /\ mem[c] # None => mem[c] = verified[c]

\* The manifest that counts: the first that names a package, wherever it is.
Counts(c, m) ==
    LET HasName(i) == /\ Calls(c)[i].kind = "file" /\ Last(Calls(c)[i].name) \in Manifests
                    /\ Parse(Calls(c)[i].data).name # None
    IN HasName(m) /\ \A i \in 1..(m - 1) : ~HasName(i)

\* The names an archive may have for the file e of a package: as the author
\* of a manifest writes it, or below a directory named like the package.
Wrappers(c, pkg) == {arg[c].package, pkg.name}
Wrapped(e, wrappers) ==
    {e, <<".">> \o e} \cup UNION {{<<w>> \o e, <<".", w>> \o e} : w \in wrappers}

Ends(name) == {SubSeq(name, k, Len(name)) : k \in 1..Len(name)}

\* The package asks for the file e by itself, and in this archive e can only
\* mean one thing.
Asks(c, pkg, e) ==
    /\ Last(e) \notin Manifests /\ (pkg.copy = {} \/ e \in pkg.copy)
    /\ e[1] \notin {"."} \cup Wrappers(c, pkg)

\* The last thing in the archive that is the file e.
LastIs(c, pkg, i, e) ==
    LET Is(k) == Calls(c)[k].kind = "file" /\ Calls(c)[k].name \in Wrapped(e, Wrappers(c, pkg))
    IN Is(i) /\ \A k \in (i + 1)..Len(Calls(c)) : ~Is(k)

\* An install that says it is done has put every file that its package asks
\* for in its place, with the contents it had last in the archive, whatever
\* wrapper it came in, unless it has said that it cannot; it has put there
\* nothing else; and it has cleaned up, unless that failed.
DoneIsWhole ==
    [][\A c \in Clients :
         pc[c] = "entries" /\ ~Busy(c)' /\ result'[c] \in {"done", "not run"} =>
            \E m \in DOMAIN Calls(c) :
               LET pkg == Parse(Calls(c)[m].data)
                   target == IF pkg.target = None THEN InstallDir ELSE pkg.target
               IN /\ Counts(c, m)
                  /\ alone[c] =>
                        /\ \A i \in DOMAIN Calls(c) \ missed[c] : \A e \in Ends(Calls(c)[i].name) :
                              Asks(c, pkg, e) /\ LastIs(c, pkg, i, e) =>
                                 [path |-> target \o e, data |-> Calls(c)[i].data] \in installed'
                        /\ stage' = None \/ "removal" \in lost'[c]
                  /\ \A w \in wrote[c] :
                        /\ w[2].data = Calls(c)[w[1]].data
                        /\ \E e \in Ends(Calls(c)[w[1]].name) :
                              /\ w[2].path = target \o e /\ Last(e) \notin Manifests
                              /\ pkg.copy = {} \/ e \in pkg.copy]_vars

\* A server is in the saved list once, whatever was heard again, failed or
\* was killed half way, as long as commands follow one another.
NoTwins == orderly => Twinless(db)

=============================================================================
