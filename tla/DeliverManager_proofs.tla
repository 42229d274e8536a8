------------------------- MODULE DeliverManager_proofs -------------------------
(***************************************************************************)
(* Proofs about DeliverManager, for any number of servers and packages.    *)
(***************************************************************************)
EXTENDS DeliverManager, TLAPS

-----------------------------------------------------------------------------
(* What the steps do with the list of servers.                             *)

Fits(q) == q \in Seq(Servers) /\ Len(q) <= MaxServers

LEMMA ListFits == \A q \in ServerLists : Fits(q)
<1> TAKE q \in ServerLists
<1>1. PICK n \in 0..MaxServers : q \in [1..n -> Servers]
    BY DEF ServerLists
<1>2. q \in Seq(Servers) /\ Len(q) = n
    BY <1>1, BoundsAssumption
<1> QED
    BY <1>2, BoundsAssumption DEF Fits

LEMMA Forgetting ==
    ASSUME Fits(servers), NEW i \in 1..Len(servers)
    PROVE  Fits(Without(i))
<1>1. Without(i) \in [1..(Len(servers) - 1) -> Servers] /\ Len(servers) \in Nat
    BY DEF Fits, Without
<1>2. Without(i) \in Seq(Servers) /\ Len(Without(i)) = Len(servers) - 1
    BY <1>1
<1> QED
    BY <1>2, <1>1, BoundsAssumption DEF Fits

\* dlr_db_add for each server that was heard: the known ones keep their
\* places.
Extends(q) ==
    Fits(q) /\ Len(servers) <= Len(q) /\ \A i \in 1..Len(servers) : q[i] = servers[i]

LEMMA Merging ==
    ASSUME Fits(servers), NEW heard \in ServerLists
    PROVE  LET all == servers \o heard IN
           Extends(SubSeq(all, 1, IF Len(all) < MaxServers THEN Len(all) ELSE MaxServers))
<1> DEFINE all == servers \o heard
           n == IF Len(all) < MaxServers THEN Len(all) ELSE MaxServers
<1>1. /\ heard \in Seq(Servers) /\ servers \in Seq(Servers)
      /\ Len(heard) \in Nat /\ Len(servers) \in Nat /\ Len(servers) <= MaxServers
    BY ListFits DEF Fits
<1>2. /\ all \in Seq(Servers) /\ Len(all) = Len(servers) + Len(heard)
      /\ \A i \in 1..Len(servers) : all[i] = servers[i]
    BY <1>1
<1>3. n \in 0..MaxServers /\ n <= Len(all) /\ Len(servers) <= n
    BY <1>1, <1>2, BoundsAssumption
<1>4. /\ SubSeq(all, 1, n) \in Seq(Servers) /\ Len(SubSeq(all, 1, n)) = n
      /\ \A i \in 1..n : SubSeq(all, 1, n)[i] = all[i]
    BY <1>2, <1>3
<1> QED
    BY <1>1, <1>2, <1>3, <1>4, BoundsAssumption DEF Extends, Fits

LEMMA Adding ==
    ASSUME Fits(servers), NEW found \in Servers
    PROVE  Extends(IF Known(found) \/ Len(servers) >= MaxServers
                   THEN servers ELSE Append(servers, found))
<1>1. servers \in Seq(Servers) /\ Len(servers) \in Nat /\ Len(servers) <= MaxServers
    BY DEF Fits
<1>2. Extends(servers)
    BY <1>1 DEF Extends, Fits
<1>3. Len(servers) < MaxServers => Extends(Append(servers, found))
    BY <1>1, BoundsAssumption DEF Extends, Fits
<1> QED
    BY <1>1, <1>2, <1>3, BoundsAssumption

LEMMA AtType ==
    Fits(servers) => \A i : ServerAt(i) \in Servers \cup {None}
BY DEF Fits, ServerAt

-----------------------------------------------------------------------------
(* Types.                                                                  *)

\* All but the three actions that name it leave the list of servers alone.
LEMMA ServersStay ==
    [Next]_vars => UNCHANGED servers \/ ForgetPressed \/ Scan \/ Add
BY DEF Next, Handler, Step, JobStep, PollStep, vars, Press, ScanPressed, AddPressed,
       SearchPressed, InstallPressed, PresentPressed, RebuildPressed, ServerChosen,
       PackageChosen, TogglePressed, StorePressed, TabChosen, FolderTyped, Close, EventsDone,
       StartJob, Begin, Message, Scanned, Added, ListBegins, List, Listed, InstallBegins,
       Installed, ServerStarts, Served, Present, Rebuild, Packed, FrameDone, Poll, NobodyCame,
       ClientCame, SessionBegins, SessionEnds

LEMMA ServersFit == TypeOK /\ [Next]_vars => Fits(servers)'
<1> SUFFICES ASSUME TypeOK, [Next]_vars PROVE Fits(servers')
    BY DEF Fits
<1>1. Fits(servers)
    BY DEF TypeOK, Fits
<1>2. CASE UNCHANGED servers
    BY <1>1, <1>2
<1>3. CASE ForgetPressed
    BY <1>1, <1>3, Forgetting DEF ForgetPressed, ServerAt, NoneAssumption, TypeOK
<1>4. CASE Scan
    BY <1>1, <1>4, Merging DEF Scan, Refill, Extends
<1>5. CASE Add
    BY <1>1, <1>5, Adding DEF Add, Refill, Extends
<1> QED
    BY <1>2, <1>3, <1>4, <1>5, ServersStay

\* Everything but the list of servers.
RestOK ==
    /\ pc \in Pcs
    /\ running \in BOOLEAN /\ busy \in BOOLEAN
    /\ job \in Jobs \cup {"NONE"}
    /\ selected \in 0..MaxServers
    /\ count \in 0..MaxPackages /\ rows \in 0..MaxPackages /\ row \in 0..MaxPackages
    /\ pkgServer \in 0..MaxServers
    /\ listed \in Servers \cup {None}
    /\ installOn \in BOOLEAN /\ offers \in BOOLEAN /\ folder \in BOOLEAN
    /\ serving \in BOOLEAN /\ listener \in BOOLEAN
    /\ at \in 0..MaxServers

LEMMA HandlersType ==
    ASSUME RestOK, Fits(servers), Handler
    PROVE  RestOK'
<1>1. Len(servers) \in 0..MaxServers /\ 0 \in 0..MaxServers /\ 1 \in 0..MaxServers
      /\ 0 \in 0..MaxPackages
    BY BoundsAssumption DEF Fits
<1>a. \A i \in 1..Len(servers) : i \in 0..MaxServers
    BY <1>1, BoundsAssumption
<1>b. \A k \in 1..rows : k \in 0..MaxPackages
    BY BoundsAssumption DEF RestOK
<1>2. CASE ScanPressed \/ AddPressed \/ SearchPressed \/ InstallPressed \/ PresentPressed
           \/ RebuildPressed
    BY <1>2 DEF ScanPressed, AddPressed, SearchPressed, InstallPressed, PresentPressed,
                RebuildPressed, Press, Queue, RestOK, Jobs, listVars, serverVars
<1>3. CASE ServerChosen
    BY <1>1, <1>a, <1>3, ZenonT(60) DEF ServerChosen, ClearPackages, Queue, RestOK, Jobs, listVars, serverVars
<1>4. CASE ForgetPressed
    BY <1>1, <1>4 DEF ForgetPressed, ClearPackages, Queue, RestOK, Jobs, serverVars
<1>5. CASE PackageChosen
    BY <1>b, <1>5 DEF PackageChosen, RestOK, serverVars
<1>6. CASE TogglePressed
    BY <1>6 DEF TogglePressed, StopServer, Queue, RestOK, Jobs, listVars, serverVars
<1>7. CASE StorePressed \/ TabChosen \/ FolderTyped
    BY <1>7 DEF StorePressed, TabChosen, FolderTyped, RestOK, listVars, serverVars
<1>8. CASE Close
    BY <1>8 DEF Close, StopServer, RestOK, listVars
<1> QED
    BY <1>2, <1>3, <1>4, <1>5, <1>6, <1>7, <1>8 DEF Handler

LEMMA StepsType ==
    ASSUME RestOK, Fits(servers), Fits(servers'), Step
    PROVE  RestOK'
<1>1. /\ Len(servers) \in 0..MaxServers /\ Len(servers') \in 0..MaxServers
      /\ 0 \in 0..MaxServers /\ 1 \in 0..MaxServers
      /\ 0 \in 0..MaxPackages /\ 1 \in 0..MaxPackages
    BY BoundsAssumption DEF Fits
<1>2. CASE EventsDone \/ FrameDone \/ PollStep
    BY <1>2, ZenonT(60) DEF EventsDone, FrameDone, PollStep, Poll, NobodyCame, ClientCame, SessionBegins,
                SessionEnds, AfterPoll, Goto, RestOK, Pcs, Pumping, listVars, serverVars
<1>3. CASE StartJob
    BY <1>3 DEF StartJob, RestOK, Pcs, Jobs, serverVars
<1>a. CASE Begin
    BY <1>a DEF Begin, Goto, RestOK, Pcs, Pumping, listVars, serverVars
<1>b. CASE Message \/ Scanned
    BY <1>b DEF Message, Scanned, EndJob, RestOK, Pcs, Jobs, serverVars
<1>c. CASE Added
    BY <1>1, <1>c DEF Added, EndJob, RestOK, Pcs, Jobs, serverVars
<1>4. CASE Scan
    BY <1>1, <1>4 DEF Scan, Refill, Goto, RestOK, Pcs, Pumping, listVars, serverVars, Fits
<1>5. CASE Add
  <2>1. selected' \in 0..MaxServers
    <3>1. \A k \in 1..Len(servers') : k \in 0..MaxServers
        BY <1>1, BoundsAssumption
    <3> QED
        BY <1>1, <1>5, <3>1 DEF Add, Refill, RestOK
  <2> QED
    BY <1>5, <2>1 DEF Add, Goto, RestOK, Pcs, Pumping, listVars, serverVars
<1>6. CASE ListBegins \/ InstallBegins
    BY <1>6, ZenonT(60) DEF ListBegins, InstallBegins, EndJob, Goto, RestOK, Pcs, Pumping, serverVars
<1>7. CASE List
    BY <1>1, <1>7, AtType DEF List, ClearPackages, Goto, RestOK, Pcs, Pumping, serverVars
<1>8. CASE Listed \/ Installed \/ Served \/ Packed
    BY <1>1, <1>8 DEF Listed, Installed, Served, Packed, EndJob, RestOK, Pcs, Pumping, serverVars
<1>9. CASE ServerStarts \/ Present \/ Rebuild
    BY <1>9, ZenonT(60) DEF ServerStarts, Present, Rebuild, Goto, RestOK, Pcs, Pumping, listVars, serverVars
<1> QED
    BY <1>2, <1>3, <1>a, <1>b, <1>c, <1>4, <1>5, <1>6, <1>7, <1>8, <1>9 DEF Step, JobStep

LEMMA TypeParts == TypeOK <=> RestOK /\ Fits(servers)
BY DEF TypeOK, RestOK, Fits

LEMMA InitType == Init => TypeOK
<1> SUFFICES ASSUME Init PROVE RestOK /\ Fits(servers)
    BY TypeParts
<1>1. Fits(servers)
    BY ListFits DEF Init
<1>2. 0 \in 0..MaxServers /\ 1 \in 0..MaxServers /\ 0 \in 0..MaxPackages
    BY BoundsAssumption
<1>3. RestOK
    BY <1>2 DEF Init, RestOK, Pcs, Jobs
<1> QED
    BY <1>1, <1>3

LEMMA NextType == TypeOK /\ [Next]_vars => TypeOK'
<1> SUFFICES ASSUME TypeOK, [Next]_vars PROVE TypeOK'
    OBVIOUS
<1>1. RestOK /\ Fits(servers) /\ Fits(servers)'
    BY TypeParts, ServersFit
<1>2. ASSUME Handler PROVE RestOK'
    BY <1>1, <1>2, HandlersType
<1>3. ASSUME Step PROVE RestOK'
    BY <1>1, <1>3, StepsType DEF Fits
<1>4. ASSUME UNCHANGED vars PROVE RestOK'
    BY <1>1, <1>4 DEF vars, listVars, serverVars, RestOK
<1>5. RestOK'
    BY <1>2, <1>3, <1>4 DEF Next
<1> QED
    BY <1>1, <1>5 DEF TypeOK, RestOK, Fits

\* Every reachable state is well typed; in particular the list of servers
\* stays within g_servers, whatever is scanned, added and forgotten.
THEOREM TypeCorrect == Spec => []TypeOK
BY InitType, NextType, PTL DEF Spec

-----------------------------------------------------------------------------
(* g_busy is set in jobs and polls and nowhere else, and no job waits then. *)

BusyInv ==
    /\ busy <=> pc \notin {"events", "frame", "ended"}
    /\ busy => job = "NONE"

LEMMA NextBusy == TypeOK /\ BusyInv /\ [Next]_vars => BusyInv'
<1> SUFFICES ASSUME TypeOK, BusyInv, [Next]_vars PROVE BusyInv'
    OBVIOUS
<1>1. pc \in Pcs /\ job \in Jobs \cup {"NONE"} /\ busy \in BOOLEAN
    BY DEF TypeOK
<1>2. CASE Handler
  <2>1. UNCHANGED <<pc, busy>> /\ (busy => UNCHANGED job)
    BY <1>2 DEF Handler, Press, ScanPressed, AddPressed, SearchPressed, InstallPressed,
         PresentPressed, RebuildPressed, ServerChosen, ForgetPressed, PackageChosen, TogglePressed,
         StorePressed, TabChosen, FolderTyped, Close, Queue
  <2> QED
    BY <2>1 DEF BusyInv
<1>3. CASE EventsDone \/ FrameDone \/ PollStep
    BY <1>1, <1>3 DEF EventsDone, FrameDone, PollStep, Poll, NobodyCame, ClientCame, SessionBegins,
                SessionEnds, AfterPoll, Goto, BusyInv
<1>4. CASE StartJob
    BY <1>1, <1>4 DEF StartJob, BusyInv, Jobs
<1>5. CASE Begin \/ Scan \/ Add \/ ServerStarts \/ Present \/ Rebuild
    BY <1>1, <1>5 DEF Begin, Scan, Add, ServerStarts, Present, Rebuild, Goto, BusyInv
<1>6. CASE ListBegins \/ InstallBegins \/ List
    BY <1>1, <1>6 DEF ListBegins, InstallBegins, List, EndJob, Goto, BusyInv
<1>7. CASE Message \/ Scanned \/ Added \/ Listed \/ Installed \/ Served \/ Packed
    BY <1>1, <1>7 DEF Message, Scanned, Added, Listed, Installed, Served, Packed, EndJob, BusyInv
<1>8. CASE UNCHANGED vars
    BY <1>8 DEF vars, BusyInv
<1> QED
    BY <1>2, <1>3, <1>4, <1>5, <1>6, <1>7, <1>8 DEF Next, Step, JobStep

-----------------------------------------------------------------------------
(* Whose packages are listed.                                              *)

\* The index of a list job is that of a server from its start on, and so
\* is that of an install job, of the server the list came from.
ListInv ==
    /\ ListedServer
    /\ pc = "list" => ServerAt(at) # None
    /\ InstallsFromLister

\* A list that only grows at its end keeps its servers where they are.
LEMMA Growing ==
    ASSUME Fits(servers), Extends(servers')
    PROVE  \A i : ServerAt(i) # None => ServerAt(i)' = ServerAt(i)
<1>1. Len(servers) \in Nat /\ Len(servers') \in Nat
    BY DEF Fits, Extends
<1> QED
    BY <1>1 DEF Extends, ServerAt

LEMMA NextList == TypeOK /\ BusyInv /\ ListInv /\ [Next]_vars => ListInv'
<1> SUFFICES ASSUME TypeOK, BusyInv, ListInv, [Next]_vars PROVE ListInv'
    OBVIOUS
<1> DEFINE Kept == UNCHANGED <<servers, pkgServer, listed, at>>
<1>1. Fits(servers) /\ None \notin Servers
    BY NoneAssumption DEF TypeOK, Fits
<1>2. ASSUME Kept, pc' \in {"list", "install"} => pc' = pc
      PROVE  ListInv'
    BY <1>2 DEF ListInv, ListedServer, InstallsFromLister, ServerAt
<1>3. CASE Press("SCAN", TRUE) \/ Press("ADD", TRUE) \/ SearchPressed \/ InstallPressed
           \/ PresentPressed \/ RebuildPressed \/ PackageChosen \/ TogglePressed
           \/ StorePressed \/ TabChosen \/ FolderTyped \/ Close
    BY <1>2, <1>3 DEF Press, SearchPressed, InstallPressed, PresentPressed, RebuildPressed,
         PackageChosen, TogglePressed, StorePressed, TabChosen, FolderTyped, Close, listVars
<1>4. CASE ServerChosen
  <2>1. pc' = pc /\ UNCHANGED <<servers, at>>
    BY <1>4 DEF ServerChosen
  <2>2. CASE busy
    BY <1>2, <1>4, <2>1, <2>2 DEF ServerChosen, listVars
  <2>3. CASE ~busy
    <3>1. pc \notin {"list", "install"}
        BY <2>3 DEF BusyInv
    <3>2. pkgServer' = 0 \/ UNCHANGED <<pkgServer, listed>>
        BY <1>4 DEF ServerChosen, ClearPackages, listVars
    <3> QED
        BY <2>1, <3>1, <3>2 DEF ListInv, ListedServer, InstallsFromLister, ServerAt
  <2> QED
    BY <2>2, <2>3
<1>5. CASE ForgetPressed
  <2>1. pc' = pc /\ pc \notin {"list", "install"} /\ pkgServer' = 0
    BY <1>5 DEF ForgetPressed, ClearPackages, BusyInv
  <2> QED
    BY <2>1 DEF ListInv, ListedServer, InstallsFromLister
<1>6. CASE Scan \/ Add
  <2>1. UNCHANGED <<pkgServer, listed, at>> /\ pc' \notin {"list", "install"}
    BY <1>6 DEF Scan, Add, Goto, listVars
  <2>2. servers' = servers \/ Extends(servers')
    <3>1. CASE Scan
        BY <1>1, <3>1, Merging DEF Scan, Refill
    <3>2. CASE Add
        BY <1>1, <3>2, Adding DEF Add, Refill
    <3> QED
        BY <1>6, <3>1, <3>2
  <2>3. \A i : ServerAt(i) # None => ServerAt(i)' = ServerAt(i)
    BY <1>1, <2>2, Growing DEF ServerAt
  <2> QED
    BY <2>1, <2>3 DEF ListInv, ListedServer, InstallsFromLister
<1>7. CASE Added
    BY <1>7 DEF Added, EndJob, ListInv, ListedServer, InstallsFromLister
<1>8. CASE ListBegins
    BY <1>8 DEF ListBegins, EndJob, ListInv, ListedServer, InstallsFromLister, ServerAt
<1>9. CASE List
  <2>1. ServerAt(at)' = ServerAt(at) /\ ServerAt(pkgServer)' = ServerAt(pkgServer')
    BY <1>9 DEF List, ServerAt
  <2> QED
    BY <1>9, <2>1 DEF List, Goto, ClearPackages, ListInv, ListedServer, InstallsFromLister
<1>10. CASE InstallBegins
  <2>1. ServerAt(at)' = ServerAt(at') /\ ServerAt(pkgServer)' = ServerAt(pkgServer)
    BY <1>10 DEF InstallBegins, ServerAt
  <2>2. ServerAt(pkgServer) # None => pkgServer # 0
    BY <1>1 DEF ServerAt, Fits
  <2> QED
    BY <1>10, <2>1, <2>2 DEF InstallBegins, Goto, EndJob, ListInv, ListedServer, InstallsFromLister
<1>11. CASE EventsDone \/ FrameDone \/ PollStep
    BY <1>2, <1>11 DEF EventsDone, FrameDone, PollStep, Poll, NobodyCame, ClientCame,
                SessionBegins, SessionEnds, AfterPoll, Goto, listVars
<1>12. CASE Begin \/ ServerStarts \/ Present \/ Rebuild
    BY <1>2, <1>12 DEF Begin, ServerStarts, Present, Rebuild, Goto, listVars
<1>13. CASE Message \/ Scanned \/ Listed \/ Installed \/ Served \/ Packed
    BY <1>2, <1>13 DEF Message, Scanned, Listed, Installed, Served, Packed, EndJob
<1>14. CASE StartJob
    BY <1>2, <1>14 DEF StartJob, TypeOK, Jobs
<1>15. CASE UNCHANGED vars
    BY <1>2, <1>15 DEF vars, listVars
<1> QED
    BY <1>3, <1>4, <1>5, <1>6, <1>7, <1>8, <1>9, <1>10, <1>11, <1>12, <1>13, <1>14, <1>15
    DEF Next, Handler, Step, JobStep, ScanPressed, AddPressed

-----------------------------------------------------------------------------
(* The listener.                                                           *)

LEMMA NextListener == TypeOK /\ BusyInv /\ OneListener /\ [Next]_vars => OneListener'
<1> SUFFICES ASSUME TypeOK, BusyInv, OneListener, [Next]_vars PROVE OneListener'
    OBVIOUS
<1>1. serving \in BOOLEAN /\ listener \in BOOLEAN /\ pc \in Pcs
    BY DEF TypeOK
<1> DEFINE NoStart == job' = "START_SERVER" \/ pc' = "START_SERVER"
                         => job = "START_SERVER" \/ pc = "START_SERVER"
<1>2. ASSUME UNCHANGED serverVars, NoStart PROVE OneListener'
    BY <1>2 DEF OneListener, serverVars
<1>3. CASE Handler
  <2>1. CASE TogglePressed
    <3>1. CASE serving
        BY <1>1, <2>1, <3>1 DEF TogglePressed, StopServer, OneListener
    <3>2. CASE ~serving
        BY <1>1, <2>1, <3>2 DEF TogglePressed, Queue, OneListener, serverVars
    <3> QED
        BY <3>1, <3>2
  <2>2. CASE Close
    BY <1>1, <2>2 DEF Close, StopServer, OneListener
  <2>3. CASE ScanPressed \/ AddPressed \/ SearchPressed \/ InstallPressed \/ PresentPressed
             \/ RebuildPressed \/ ServerChosen \/ ForgetPressed \/ PackageChosen
             \/ StorePressed \/ TabChosen \/ FolderTyped
    BY <1>2, <2>3 DEF ScanPressed, AddPressed, SearchPressed, InstallPressed, PresentPressed,
         RebuildPressed, Press, ServerChosen, ForgetPressed, PackageChosen, StorePressed,
         TabChosen, FolderTyped, Queue
  <2> QED
    BY <1>3, <2>1, <2>2, <2>3 DEF Handler
<1>4. CASE ServerStarts
    BY <1>4 DEF ServerStarts, Goto, BusyInv, OneListener
<1>5. CASE NobodyCame
    BY <1>1, <1>5 DEF NobodyCame, AfterPoll, BusyInv, OneListener, serverVars
<1>6. CASE StartJob
    BY <1>2, <1>6 DEF StartJob
<1>7. CASE EventsDone \/ FrameDone \/ Poll \/ ClientCame \/ SessionBegins \/ SessionEnds
           \/ Begin \/ Scan \/ Add \/ Present \/ Rebuild
    BY <1>2, <1>7 DEF EventsDone, FrameDone, Poll, ClientCame, SessionBegins, SessionEnds,
         AfterPoll, Goto, Begin, Scan, Add, Present, Rebuild
<1>8. CASE Message \/ Scanned \/ Added \/ ListBegins \/ List \/ Listed \/ InstallBegins
           \/ Installed \/ Served \/ Packed
    BY <1>2, <1>8 DEF Message, Scanned, Added, ListBegins, List, Listed, InstallBegins, Installed,
         Served, Packed, EndJob, Goto
<1>9. CASE UNCHANGED vars
    BY <1>2, <1>9 DEF vars
<1> QED
    BY <1>3, <1>4, <1>5, <1>6, <1>7, <1>8, <1>9 DEF Next, Step, JobStep, PollStep

-----------------------------------------------------------------------------
(* The theorems.                                                           *)

Inv == TypeOK /\ BusyInv /\ ListInv /\ OneListener

LEMMA InitInv == Init => Inv
<1> SUFFICES ASSUME Init PROVE Inv
    OBVIOUS
<1>1. TypeOK
    BY InitType
<1>2. BusyInv
    BY DEF Init, BusyInv
<1>3. ListInv /\ OneListener
    BY DEF Init, ListInv, ListedServer, InstallsFromLister, OneListener
<1> QED
    BY <1>1, <1>2, <1>3 DEF Inv

LEMMA NextInv == Inv /\ [Next]_vars => Inv'
<1> SUFFICES ASSUME Inv, [Next]_vars PROVE Inv'
    OBVIOUS
<1>1. TypeOK'
    BY NextType DEF Inv
<1>2. BusyInv' /\ ListInv' /\ OneListener'
    BY NextBusy, NextList, NextListener DEF Inv
<1> QED
    BY <1>1, <1>2 DEF Inv

LEMMA Invariance == Spec => []Inv
BY InitInv, NextInv, PTL DEF Spec

\* g_package_server names the server whose packages are listed, whatever
\* servers were found, added and forgotten since.
THEOREM PackagesComeFromTheirServer == Spec => []ListedServer
<1>1. Inv => ListedServer
    BY DEF Inv, ListInv
<1> QED
    BY <1>1, Invariance, PTL

\* job_install talks to the server its package was listed from, from its
\* first statement to its last.
THEOREM InstallsComeFromTheLister == Spec => []InstallsFromLister
<1>1. Inv => InstallsFromLister
    BY DEF Inv, ListInv
<1> QED
    BY <1>1, Invariance, PTL

\* g_serving is set exactly while g_srv has its listener, and
\* job_start_server never overwrites a running server.
THEOREM ServesOnce == Spec => []OneListener
<1>1. Inv => OneListener
    BY DEF Inv
<1> QED
    BY <1>1, Invariance, PTL

\* A handler that runs inside a pump moves no list or index that the job
\* goes on to use, and queues nothing behind it.  (The texts of boxes, which
\* some jobs read after a pump, are not among them.)
THEOREM PumpsMoveNoList == Spec => ListsUndisturbed
<1> DEFINE Undisturbed == pc' = pc /\ pc \in Pumping =>
                              UNCHANGED <<job, servers, count, pkgServer, listed, rows, at>>
<1>1. Inv /\ [Next]_vars => [Undisturbed]_vars
  <2> SUFFICES ASSUME Inv, Next, pc' = pc, pc \in Pumping
               PROVE  UNCHANGED <<job, servers, count, pkgServer, listed, rows, at>>
    OBVIOUS
  <2>1. busy
    BY DEF Inv, BusyInv, Pumping
  <2>2. CASE Handler
    BY <2>1, <2>2 DEF Handler, Press, ScanPressed, AddPressed, SearchPressed, InstallPressed,
         PresentPressed, RebuildPressed, ServerChosen, ForgetPressed, PackageChosen, TogglePressed,
         StorePressed, TabChosen, FolderTyped, Close, Queue, listVars
  <2>3. ~Step
    BY DEF Step, JobStep, PollStep, EventsDone, FrameDone, Poll, NobodyCame, ClientCame,
         SessionBegins, SessionEnds, AfterPoll, Goto, StartJob, Begin, Message, Scan, Scanned, Add,
         Added, ListBegins, List, Listed, InstallBegins, Installed, ServerStarts, Served, Present,
         Rebuild, Packed, EndJob, Pumping
  <2> QED
    BY <2>2, <2>3 DEF Next
<1> QED
    BY <1>1, Invariance, PTL DEF Spec, ListsUndisturbed
=============================================================================
