---------------------------- MODULE DeliverManager ----------------------------
(***************************************************************************)
(* The window of Deliver Manager (programs/delivermanager/main.c): one     *)
(* thread that handles the user, runs the jobs its buttons queue, and      *)
(* serves clients.                                                         *)
(*                                                                         *)
(* eui_update handles the events that have come and then calls on_frame,   *)
(* which runs the queued job, and the one that job queues, and then polls  *)
(* the server.  Jobs, and a client that is being greeted, call pump, which *)
(* runs eui_update again inside of them: at the program points Pumping any *)
(* handler may run between two statements of the job.  In there g_busy is  *)
(* set and on_frame returns at once.                                       *)
(*                                                                         *)
(* Indices count from 1, and 0 is C's -1.  What packages a server has,     *)
(* what is in the store and what a client asks for is left out; so are     *)
(* positions, texts and which widgets are shown.  A button that set_busy   *)
(* disables does not call its handler while a job runs, which the handlers *)
(* check themselves; on_tab, which does not, is in TabChosen.              *)
(***************************************************************************)
EXTENDS Integers, Sequences

CONSTANTS
    Servers,      \* the servers there are, by ip and port
    None,         \* no server
    MaxServers,   \* DLR_MAX_SERVERS
    MaxPackages   \* bound: packages in a list

ASSUME NoneAssumption == None \notin Servers
ASSUME BoundsAssumption == MaxServers \in Nat \ {0} /\ MaxPackages \in Nat \ {0}

VARIABLES
    pc,          \* "events", "frame" or "ended", or where a job or the poll is
    running,     \* eui_running
    busy,        \* g_busy
    job,         \* g_job
    servers,     \* g_servers
    selected,    \* the row highlighted in w_servers
    count,       \* g_package_count
    pkgServer,   \* g_package_server
    listed,      \* the server that g_packages came from (history)
    rows,        \* rows of w_packages
    row,         \* the one highlighted
    installOn,   \* w_install is enabled
    offers,      \* w_store has rows
    folder,      \* w_folder has text
    serving,     \* g_serving
    listener,    \* g_srv has an open listener
    at           \* index of the server a list or install job talks to

listVars == <<count, pkgServer, listed, rows, row, installOn>>
serverVars == <<serving, listener>>
vars == <<pc, running, busy, job, servers, selected, listVars, offers, folder, serverVars, at>>

Jobs == {"SCAN", "ADD", "LIST", "INSTALL", "START_SERVER", "PRESENT", "REBUILD"}

\* Inside a job or on_client, in a pump.
Pumping == {"message", "scan", "scanned", "add", "added", "list", "listed", "install",
            "serve", "present", "packed", "rebuild", "greet"}

Pcs == {"events", "frame", "poll", "session", "ended"} \cup Jobs \cup Pumping

TypeOK ==
    /\ pc \in Pcs
    /\ running \in BOOLEAN /\ busy \in BOOLEAN
    /\ job \in Jobs \cup {"NONE"}
    /\ servers \in Seq(Servers) /\ Len(servers) <= MaxServers
    /\ selected \in 0..MaxServers
    /\ count \in 0..MaxPackages /\ rows \in 0..MaxPackages /\ row \in 0..MaxPackages
    /\ pkgServer \in 0..MaxServers
    /\ listed \in Servers \cup {None}
    /\ installOn \in BOOLEAN /\ offers \in BOOLEAN /\ folder \in BOOLEAN
    /\ serving \in BOOLEAN /\ listener \in BOOLEAN
    /\ at \in 0..MaxServers

\* Lists of different servers, as servers.txt and a scan give them.
ServerLists ==
    {s \in UNION {[1..n -> Servers] : n \in 0..MaxServers} :
        \A i, j \in DOMAIN s : s[i] = s[j] => i = j}

Known(s) == \E i \in 1..Len(servers) : servers[i] = s
ServerAt(i) == IF i \in 1..Len(servers) THEN servers[i] ELSE None

\* main fills the list, which selects the first server and queues its
\* listing if the network is up.
Init ==
    /\ pc = "events" /\ running = TRUE /\ busy = FALSE
    /\ servers \in ServerLists
    /\ selected = IF servers = <<>> THEN 0 ELSE 1
    /\ job \in {"NONE"} \cup {j \in {"LIST"} : servers # <<>>}
    /\ count = 0 /\ pkgServer = 0 /\ listed = None /\ rows = 0 /\ row = 0
    /\ installOn = FALSE /\ offers = FALSE /\ folder = FALSE
    /\ serving = FALSE /\ listener = FALSE
    /\ at = 0

-----------------------------------------------------------------------------
(* Handlers.                                                               *)

\* eui_update calls handlers until the program quits.
Dispatching == running /\ pc \in {"events"} \cup Pumping

\* Bug: g_busy is not looked at.
QueueWhileBusy(j) == job' = IF job # "NONE" THEN job ELSE j

\* queue
Queue(j) == job' = IF busy \/ job # "NONE" THEN job ELSE j

\* Bug: whose packages were listed is kept.
ClearPackagesOnly ==
    /\ count' = 0 /\ rows' = 0 /\ row' = 0 /\ installOn' = FALSE
    /\ UNCHANGED <<pkgServer, listed>>

\* clear_packages
ClearPackages ==
    /\ count' = 0 /\ pkgServer' = 0 /\ listed' = None
    /\ rows' = 0 /\ row' = 0 /\ installOn' = FALSE

\* A button that only queues a job, if there is what the job needs.
Press(j, ready) ==
    /\ Dispatching /\ ready
    /\ Queue(j)
    /\ UNCHANGED <<pc, running, busy, servers, selected, listVars, offers, folder, serverVars, at>>

ScanPressed == Press("SCAN", TRUE)
AddPressed == Press("ADD", TRUE)
SearchPressed == Press("LIST", ServerAt(selected) # None)
InstallPressed == Press("INSTALL", pkgServer # 0 /\ row # 0)
PresentPressed == Press("PRESENT", folder)
RebuildPressed == Press("REBUILD", offers)

\* eui_change of w_servers, and on_server_selected.  The packages of the
\* server before go at once, the job to list those of this one only if the
\* network is up.
ServerChosen ==
    /\ Dispatching
    /\ \E i \in 1..Len(servers) :
        /\ i # selected
        /\ selected' = i
        /\ IF busy \/ i = pkgServer
           THEN UNCHANGED <<job, listVars>>
           ELSE ClearPackages /\ (Queue("LIST") \/ UNCHANGED job)
    /\ UNCHANGED <<pc, running, busy, servers, offers, folder, serverVars, at>>

\* The servers without the one at i.
Without(i) == [k \in 1..(Len(servers) - 1) |-> IF k < i THEN servers[k] ELSE servers[k + 1]]

\* Bug: forgetting does not wait for the job.
ForgetPressedAlways ==
    /\ Dispatching
    /\ ServerAt(selected) # None
    /\ servers' = Without(selected)
    /\ ClearPackages
    /\ selected' = IF Len(servers) = 1 THEN 0 ELSE 1
    /\ IF Len(servers) = 1 THEN UNCHANGED job ELSE Queue("LIST") \/ UNCHANGED job
    /\ UNCHANGED <<pc, running, busy, offers, folder, serverVars, at>>

\* on_forget.  fill_servers selects the first server, and that lists its
\* packages: on_server_selected runs inside.
ForgetPressed ==
    /\ Dispatching /\ ~busy
    /\ ServerAt(selected) # None
    /\ servers' = Without(selected)
    /\ ClearPackages
    /\ selected' = IF Len(servers) = 1 THEN 0 ELSE 1
    /\ IF Len(servers) = 1 THEN UNCHANGED job ELSE Queue("LIST") \/ UNCHANGED job
    /\ UNCHANGED <<pc, running, busy, offers, folder, serverVars, at>>

\* on_package_selected
PackageChosen ==
    /\ Dispatching
    /\ \E k \in 1..rows :
        /\ k # row
        /\ row' = k
        /\ installOn' = (k <= count /\ ~busy)
    /\ UNCHANGED <<pc, running, busy, job, servers, selected, count, pkgServer, listed, rows,
                   offers, folder, serverVars, at>>

\* stop_server
StopServer == serving' = FALSE /\ listener' = (listener /\ ~serving)

\* on_server_toggle
TogglePressed ==
    /\ Dispatching /\ ~busy
    /\ IF serving THEN StopServer /\ UNCHANGED job ELSE Queue("START_SERVER") /\ UNCHANGED serverVars
    /\ UNCHANGED <<pc, running, busy, servers, selected, listVars, offers, folder, at>>

\* on_unpresent and on_store_refresh
StorePressed ==
    /\ Dispatching /\ ~busy
    /\ offers' \in BOOLEAN
    /\ UNCHANGED <<pc, running, busy, job, servers, selected, listVars, folder, serverVars, at>>

\* on_tab reads the store whenever its button is enabled: also while a
\* client is greeted.
TabChosen ==
    /\ Dispatching /\ pc \in {"events", "greet"}
    /\ offers' \in BOOLEAN
    /\ UNCHANGED <<pc, running, busy, job, servers, selected, listVars, folder, serverVars, at>>

\* Text boxes take keys at any time.
FolderTyped ==
    /\ Dispatching
    /\ folder' \in BOOLEAN
    /\ UNCHANGED <<pc, running, busy, job, servers, selected, listVars, offers, serverVars, at>>

\* on_close
Close ==
    /\ Dispatching
    /\ StopServer
    /\ running' = FALSE
    /\ UNCHANGED <<pc, busy, job, servers, selected, listVars, offers, folder, at>>

Handler ==
    \/ ScanPressed \/ AddPressed \/ SearchPressed \/ InstallPressed \/ PresentPressed
    \/ RebuildPressed \/ ServerChosen \/ ForgetPressed \/ PackageChosen \/ TogglePressed
    \/ StorePressed \/ TabChosen \/ FolderTyped \/ Close

-----------------------------------------------------------------------------
(* Jobs.                                                                   *)

\* The end of a job: set_busy(0) puts back what depends on a selection.
EndJob(nowRow) ==
    /\ pc' = "frame" /\ busy' = FALSE
    /\ installOn' = (nowRow # 0)

\* From one point of a job to the next.
Goto(from, to) == pc = from /\ pc' = to /\ UNCHANGED busy

\* All handlers of this call of eui_update have run; on_frame is next.
EventsDone ==
    /\ pc = "events" /\ pc' = "frame"
    /\ UNCHANGED <<running, busy, job, servers, selected, listVars, offers, folder, serverVars, at>>

\* Bug: the job stays queued.
StartJobAgain ==
    /\ pc = "frame" /\ job # "NONE"
    /\ pc' = job
    /\ busy' = TRUE /\ installOn' = FALSE
    /\ UNCHANGED <<running, job, servers, selected, count, pkgServer, listed, rows, row, offers,
                   folder, serverVars, at>>

\* on_frame takes the job; set_busy(1).
StartJob ==
    /\ pc = "frame" /\ job # "NONE"
    /\ pc' = job /\ job' = "NONE"
    /\ busy' = TRUE /\ installOn' = FALSE
    /\ UNCHANGED <<running, servers, selected, count, pkgServer, listed, rows, row, offers,
                   folder, serverVars, at>>

\* status_box: the line is logged, which pumps, and the job is over.
Message ==
    /\ pc = "message"
    /\ EndJob(row)
    /\ UNCHANGED <<running, job, servers, selected, count, pkgServer, listed, rows, row, offers,
                   folder, serverVars, at>>

\* The first statement of a job that has nothing to remember: the network
\* is down, an address or a setting is refused, or it goes on.
Begin ==
    /\ \/ Goto("SCAN", "scan") \/ Goto("SCAN", "message")
       \/ Goto("ADD", "add") \/ Goto("ADD", "message")
       \/ Goto("START_SERVER", "message")
       \/ Goto("PRESENT", "present") \/ Goto("REBUILD", "rebuild")
    /\ UNCHANGED <<running, job, servers, selected, listVars, offers, folder, serverVars, at>>

\* fill_servers keeps the highlighted row or takes the first; whatever it
\* selects, on_server_selected returns because a job is running.
Refill(now) ==
    /\ servers' = now
    /\ selected' = IF selected \in 1..Len(now) THEN selected ELSE IF now = <<>> THEN 0 ELSE 1

\* job_scan: servers heard of that are not known go to the end of the list,
\* as far as there is room.
Scan ==
    /\ \/ /\ Goto("scan", "scanned")
          /\ \E heard \in ServerLists :
              /\ \A i \in DOMAIN heard : ~Known(heard[i])
              /\ LET all == servers \o heard IN
                 Refill(SubSeq(all, 1, IF Len(all) < MaxServers THEN Len(all) ELSE MaxServers))
       \/ Goto("scan", "message") /\ UNCHANGED <<servers, selected>>
    /\ UNCHANGED <<running, job, listVars, offers, folder, serverVars, at>>

\* A job sets g_job itself, whatever handlers have tried meanwhile.
Scanned ==
    /\ pc = "scanned"
    /\ job' = IF pkgServer = 0 /\ servers # <<>> THEN "LIST" ELSE job
    /\ EndJob(row)
    /\ UNCHANGED <<running, servers, selected, count, pkgServer, listed, rows, row, offers, folder,
                   serverVars, at>>

\* job_add after the probe: dlr_db_add takes a server it has no room for
\* without a word.
Add ==
    /\ \/ /\ Goto("add", "added")
          /\ \E found \in Servers :
              LET now == IF Known(found) \/ Len(servers) >= MaxServers
                         THEN servers ELSE Append(servers, found) IN
              /\ servers' = now
              /\ \/ \E k \in 1..Len(now) : now[k] = found /\ selected' = k
                 \/ (\A k \in 1..Len(now) : now[k] # found) /\ Refill(now)
       \/ Goto("add", "message") /\ UNCHANGED <<servers, selected>>
    /\ UNCHANGED <<running, job, listVars, offers, folder, serverVars, at>>

Added ==
    /\ pc = "added"
    /\ pkgServer' = 0
    /\ job' = "LIST"
    /\ EndJob(row)
    /\ UNCHANGED <<running, servers, selected, count, listed, rows, row, offers, folder, serverVars,
                   at>>

\* job_list reads what is highlighted once, before the first pump.
ListBegins ==
    /\ pc = "LIST"
    /\ \/ /\ ServerAt(selected) # None
          /\ pc' = "list" /\ at' = selected
          /\ UNCHANGED <<busy, installOn>>
       \/ /\ ServerAt(selected) = None
          /\ EndJob(row) /\ UNCHANGED at
    /\ UNCHANGED <<running, job, servers, selected, count, pkgServer, listed, rows, row, offers,
                   folder, serverVars>>

\* Bug: whose packages these are is read when they have come.
ListReadsLate ==
    /\ \/ /\ Goto("list", "listed")
          /\ count' \in 0..MaxPackages
          /\ pkgServer' = selected /\ listed' = ServerAt(at)
          /\ UNCHANGED <<rows, row, installOn>>
       \/ /\ pc = "list"
          /\ pc' = "frame" /\ busy' = FALSE
          /\ ClearPackages
    /\ UNCHANGED <<running, job, servers, selected, offers, folder, serverVars, at>>

\* Network, password, connection or answer are missing, or the packages
\* have come.  The rows on the screen are still those of the last list.
List ==
    /\ \/ /\ Goto("list", "listed")
          /\ count' \in 0..MaxPackages
          /\ pkgServer' = at /\ listed' = ServerAt(at)
          /\ UNCHANGED <<rows, row, installOn>>
       \/ /\ pc = "list"
          /\ pc' = "frame" /\ busy' = FALSE
          /\ ClearPackages
    /\ UNCHANGED <<running, job, servers, selected, offers, folder, serverVars, at>>

\* fill_packages selects the first one.
Listed ==
    /\ pc = "listed"
    /\ rows' = count
    /\ row' = IF count = 0 THEN 0 ELSE 1
    /\ EndJob(row')
    /\ UNCHANGED <<running, job, servers, selected, count, pkgServer, listed, offers, folder,
                   serverVars, at>>

\* job_install takes the server the list came from, and the row that is
\* highlighted by now.
InstallBegins ==
    /\ pc = "INSTALL"
    /\ \/ /\ ServerAt(pkgServer) # None /\ row \in 1..count
          /\ pc' = "install" /\ at' = pkgServer
          /\ UNCHANGED <<busy, installOn>>
       \/ Goto("INSTALL", "message") /\ UNCHANGED <<installOn, at>>
       \/ EndJob(row) /\ UNCHANGED at
    /\ UNCHANGED <<running, job, servers, selected, count, pkgServer, listed, rows, row, offers,
                   folder, serverVars>>

\* dlr_client_install is over, and the box that says so does not pump.
Installed ==
    /\ pc = "install"
    /\ EndJob(row)
    /\ UNCHANGED <<running, job, servers, selected, count, pkgServer, listed, rows, row, offers,
                   folder, serverVars, at>>

\* job_start_server when the listener opens; the log line follows.
ServerStarts ==
    /\ Goto("START_SERVER", "serve")
    /\ serving' = TRUE /\ listener' = TRUE
    /\ UNCHANGED <<running, job, servers, selected, listVars, offers, folder, at>>

Served ==
    /\ pc = "serve"
    /\ EndJob(row)
    /\ UNCHANGED <<running, job, servers, selected, count, pkgServer, listed, rows, row, offers,
                   folder, serverVars, at>>

\* job_present; what it presents is the text of the box after the pump.
Present ==
    /\ \/ Goto("present", "packed") /\ folder' = FALSE
       \/ Goto("present", "message") /\ UNCHANGED folder
    /\ UNCHANGED <<running, job, servers, selected, listVars, offers, serverVars, at>>

\* job_rebuild took the name of its package from the row before it logged.
Rebuild ==
    /\ Goto("rebuild", "packed")
    /\ UNCHANGED <<running, job, servers, selected, listVars, offers, folder, serverVars, at>>

\* fill_store after the last log line.
Packed ==
    /\ pc = "packed"
    /\ offers' \in BOOLEAN
    /\ EndJob(row)
    /\ UNCHANGED <<running, job, servers, selected, count, pkgServer, listed, rows, row, folder,
                   serverVars, at>>

JobStep ==
    \/ StartJob \/ Begin \/ Message \/ Scan \/ Scanned \/ Add \/ Added \/ ListBegins \/ List
    \/ Listed \/ InstallBegins \/ Installed \/ ServerStarts \/ Served
    \/ Present \/ Rebuild \/ Packed

-----------------------------------------------------------------------------
(* The rest of the frame.                                                  *)

\* No job, no server: eui_update returns, and eui_run calls it again or
\* closes the window.
FrameDone ==
    /\ pc = "frame" /\ job = "NONE" /\ ~serving
    /\ pc' = IF running THEN "events" ELSE "ended"
    /\ UNCHANGED <<running, busy, job, servers, selected, listVars, offers, folder, serverVars, at>>

\* g_busy is set for a client that may be greeted, but no widget disabled.
Poll ==
    /\ pc = "frame" /\ job = "NONE" /\ serving
    /\ pc' = "poll" /\ busy' = TRUE
    /\ UNCHANGED <<running, job, servers, selected, listVars, offers, folder, serverVars, at>>

\* After the poll, and eui_update.
AfterPoll ==
    /\ pc' = IF running THEN "events" ELSE "ended"
    /\ busy' = FALSE

\* Bug: the flag stays when the listener has gone.
PollFailsQuietly ==
    /\ pc = "poll"
    /\ AfterPoll
    /\ listener' \in {listener, FALSE}
    /\ UNCHANGED <<running, job, servers, selected, listVars, offers, folder, serving, at>>

\* Nobody has come, or the listener has failed too often.
NobodyCame ==
    /\ pc = "poll"
    /\ AfterPoll
    /\ \/ UNCHANGED serverVars
       \/ serving' = FALSE /\ listener' = FALSE
    /\ UNCHANGED <<running, job, servers, selected, listVars, offers, folder, at>>

\* dlr_server_poll has accepted a client and calls on_client.
ClientCame ==
    /\ Goto("poll", "greet")
    /\ UNCHANGED <<running, job, servers, selected, listVars, offers, folder, serverVars, at>>

\* dlr_server_session in this thread, even if the window was closed during
\* the greeting.
SessionBegins ==
    /\ Goto("greet", "session")
    /\ UNCHANGED <<running, job, servers, selected, listVars, offers, folder, serverVars, at>>

\* The client has left.
SessionEnds ==
    /\ pc = "session"
    /\ AfterPoll
    /\ UNCHANGED <<running, job, servers, selected, listVars, offers, folder, serverVars, at>>

PollStep == Poll \/ NobodyCame \/ ClientCame \/ SessionBegins \/ SessionEnds

Step == EventsDone \/ JobStep \/ FrameDone \/ PollStep

Next == Handler \/ Step

Spec == Init /\ [][Next]_vars

\* What the program does by itself: it runs, only so many events come
\* before a frame, and what it waits for has a timeout.  Two waits are not
\* its own to end: a client that keeps asking renews the timeout of its
\* session, and a server that keeps sending that of a download.
Work == Step /\ pc \notin {"session", "install"}

FairSpec == Spec /\ WF_vars(Work)

-----------------------------------------------------------------------------
(* What must hold.                                                         *)

\* g_package_server tells whose packages are listed, although servers are
\* forgotten, found and added, rows are chosen while a job waits, and
\* g_package_server is an index into an array that moves.
ListedServer == pkgServer # 0 => ServerAt(pkgServer) = listed /\ listed # None

\* A package is installed from the server it was listed from.
InstallsFromLister == pc = "install" => ServerAt(at) = listed /\ listed # None

\* The flag and the listener agree, and a server is started only when none
\* runs: a second listener would be lost in the memset of g_srv.
OneListener ==
    /\ serving <=> listener
    /\ job = "START_SERVER" \/ pc = "START_SERVER" => ~listener

\* While a job is in a pump nothing the user does moves the lists it has
\* indices into, nor those indices, and no job is queued behind it.  This
\* does not speak of texts: job_list and job_install keep a password and a
\* query, and job_present a folder, as pointers into boxes that can still be
\* typed in (FolderTyped).
ListsUndisturbed ==
    [][pc' = pc /\ pc \in Pumping =>
           UNCHANGED <<job, servers, count, pkgServer, listed, rows, at>>]_vars

\* A frame ends, unless a client or the server of a download holds it up:
\* chained jobs do not go round in circles.
WindowAnswers == pc = "frame" ~> pc \in {"events", "ended", "session", "install"}

=============================================================================
