------------------------------ MODULE ServerLoop ------------------------------
(***************************************************************************)
(* The accept loop of a `dlr` server: dlr_server_start, dlr_server_poll    *)
(* and dlr_server_stop as dlr_server_run calls them, the processes it      *)
(* starts, and the clients that come and go.                               *)
(*                                                                         *)
(* The same file is built in two ways.  On the host port each accepted     *)
(* connection is given to a child process (`spawns`).  In a build         *)
(* with MINIMALOS_TARGET, and whenever no process can be started, the      *)
(* session runs inside dlr_server_poll.                                    *)
(*                                                                         *)
(* A client stands for one connection at a time: it waits in the backlog   *)
(* of the listener, then has a server until one side leaves.  What is said *)
(* on a connection is in DlrTransfer; here a session lasts as long as its  *)
(* client wants.  Time is two flags that become true when the next hello   *)
(* or the next look at the processes is due.                               *)
(***************************************************************************)
EXTENDS Integers, Sequences, FiniteSets

CONSTANTS
    Clients,         \* who may connect
    Chatty,          \* clients that never leave: they keep sending PING
    Pids,            \* process ids
    None,            \* no process, no client
    Builds,          \* what `spawns` may be
    MaxClients,      \* DLR_MAX_CLIENTS
    MaxBacklog,      \* what dlr_tcp_listen asks the kernel to queue
    MaxErrors,       \* accept errors that are put up with (50)
    Faults           \* the faults of the environment that may happen

ASSUME ClientsAssumption == Chatty \subseteq Clients /\ None \notin Clients
ASSUME PidsAssumption == None \notin Pids
ASSUME BuildsAssumption == Builds \subseteq BOOLEAN
ASSUME BoundsAssumption == MaxClients \in Nat \ {0} /\ MaxBacklog \in Nat /\ MaxErrors \in Nat
ASSUME FaultsAssumption == Faults \subseteq {"listen", "udp", "accept", "fork", "crash", "interrupt"}

VARIABLES
    pc,         \* where the loop is
    listening,  \* the listener is open
    udp,        \* the socket of the hello is open
    helloDue,   \* now >= next_hello
    reapDue,    \* now >= next_reap
    children,   \* the process each slot remembers, or None
    errors,     \* accept_errors
    current,    \* the client whose connection this process holds, or None
    stop,       \* g_stop
    spawns,     \* FALSE in a MINIMALOS_TARGET build; never changes
    backlog,    \* connections the kernel has queued
    process,    \* for each pid: "none", "running" or "zombie"
    conn,       \* for each running process, the client it serves
    connected   \* clients that have an open connection

loopVars == <<pc, listening, udp, children, errors, current>>
timeVars == <<helloDue, reapDue>>
procVars == <<process, conn>>
clientVars == <<backlog, connected>>
vars == <<loopVars, timeVars, procVars, clientVars, stop, spawns>>

Slots == 1..MaxClients
Running == {p \in Pids : process[p] = "running"}
Queued == {backlog[k] : k \in 1..Len(backlog)}
FreeSlots == {i \in Slots : children[i] = None}

Pcs == {"start", "hello", "reap", "slot", "accept", "spawn", "inline",
        "sleep", "stop", "stopped"}

TypeOK ==
    /\ pc \in Pcs
    /\ listening \in BOOLEAN /\ udp \in BOOLEAN
    /\ helloDue \in BOOLEAN /\ reapDue \in BOOLEAN /\ stop \in BOOLEAN /\ spawns \in BOOLEAN
    /\ children \in [Slots -> Pids \cup {None}]
    /\ errors \in 0..(MaxErrors + 1)
    /\ current \in Clients \cup {None}
    /\ backlog \in Seq(Clients) /\ Len(backlog) <= MaxBacklog
    /\ process \in [Pids -> {"none", "running", "zombie"}]
    /\ conn \in [Pids -> Clients \cup {None}]
    /\ connected \subseteq Clients

Init ==
    /\ pc = "start"
    /\ listening = FALSE /\ udp = FALSE
    /\ helloDue = TRUE /\ reapDue = TRUE
    /\ children = [i \in Slots |-> None]
    /\ errors = 0
    /\ current = None /\ stop = FALSE /\ spawns \in Builds
    /\ backlog = <<>>
    /\ process = [p \in Pids |-> "none"]
    /\ conn = [p \in Pids |-> None]
    /\ connected = {}

-----------------------------------------------------------------------------
(* The loop.                                                               *)

\* dlr_server_start: without the listener there is no server, without the
\* UDP socket only no hello.
Start ==
    /\ pc = "start"
    /\ \/ /\ listening' = TRUE /\ pc' = "sleep"
          /\ udp' \in {TRUE} \cup {u \in {FALSE} : "udp" \in Faults}
       \/ /\ "listen" \in Faults
          /\ pc' = "stopped" /\ UNCHANGED <<listening, udp>>
    /\ UNCHANGED <<children, errors, current, timeVars, procVars, clientVars, stop, spawns>>

\* The next hello is planned whether this one could be sent or not.
Hello ==
    /\ pc = "hello"
    /\ helloDue' = (helloDue /\ ~udp)
    /\ pc' = "reap"
    /\ UNCHANGED <<listening, udp, children, errors, current, reapDue, procVars,
                   clientVars, stop, spawns>>

\* Bug: finished children are never looked for.
ReapNever ==
    /\ pc = "reap"
    /\ pc' = "slot"
    /\ UNCHANGED <<listening, udp, children, errors, current, timeVars, procVars,
                   clientVars, stop, spawns>>

\* dlr_proc_alive for each slot, which collects a child that has ended.
Reap ==
    /\ pc = "reap"
    /\ IF reapDue
       THEN LET over == {i \in Slots : children[i] # None /\ process[children[i]] # "running"} IN
            /\ children' = [i \in Slots |-> IF i \in over THEN None ELSE children[i]]
            /\ process' = [p \in Pids |->
                              IF \E i \in over : children[i] = p THEN "none" ELSE process[p]]
            /\ reapDue' = FALSE
       ELSE UNCHANGED <<children, process, reapDue>>
    /\ pc' = "slot"
    /\ UNCHANGED <<listening, udp, errors, current, helloDue, conn, clientVars, stop, spawns>>

FindSlot ==
    /\ pc = "slot"
    /\ pc' = IF FreeSlots = {} THEN "sleep" ELSE "accept"
    /\ UNCHANGED <<listening, udp, children, errors, current, timeVars, procVars,
                   clientVars, stop, spawns>>

Accept ==
    /\ pc = "accept"
    /\ backlog # <<>>
    /\ current' = Head(backlog)
    /\ backlog' = Tail(backlog)
    /\ errors' = 0
    /\ pc' = "spawn"
    /\ UNCHANGED <<listening, udp, children, timeVars, procVars, connected, stop, spawns>>

\* Nobody is waiting.  The count of errors stays.
AcceptNobody ==
    /\ pc = "accept"
    /\ backlog = <<>>
    /\ pc' = "sleep"
    /\ UNCHANGED <<listening, udp, children, errors, current, timeVars, procVars, clientVars, stop, spawns>>

AcceptFails ==
    /\ "accept" \in Faults
    /\ pc = "accept"
    /\ errors' = errors + 1
    /\ pc' = IF errors' > MaxErrors THEN "stop" ELSE "sleep"
    /\ UNCHANGED <<listening, udp, children, current, timeVars, procVars, clientVars, stop, spawns>>

\* Bug: the parent keeps its copy of the connection.
SpawnKeepsCopy ==
    /\ pc = "spawn"
    /\ \/ /\ spawns
          /\ \E p \in Pids :
              /\ process[p] = "none"
              /\ process' = [process EXCEPT ![p] = "running"]
              /\ conn' = [conn EXCEPT ![p] = current]
              /\ \E i \in FreeSlots : children' = [children EXCEPT ![i] = p]
          /\ pc' = "sleep"
          /\ UNCHANGED current
       \/ /\ ~spawns \/ "fork" \in Faults
          /\ pc' = "inline"
          /\ UNCHANGED <<children, current, procVars>>
    /\ UNCHANGED <<listening, udp, errors, timeVars, clientVars, stop, spawns>>

\* Bug: the child that was started is not written down.
SpawnForgets ==
    /\ pc = "spawn"
    /\ \/ /\ spawns
          /\ \E p \in Pids :
              /\ process[p] = "none"
              /\ process' = [process EXCEPT ![p] = "running"]
              /\ conn' = [conn EXCEPT ![p] = current]
          /\ pc' = "sleep" /\ current' = None
          /\ UNCHANGED children
       \/ /\ ~spawns \/ "fork" \in Faults
          /\ pc' = "inline"
          /\ UNCHANGED <<children, current, procVars>>
    /\ UNCHANGED <<listening, udp, errors, timeVars, clientVars, stop, spawns>>

\* dlr_spawn_conn: the child gets the connection, this process closes its
\* copy.  A zombie keeps its pid; which of the free slots is taken does not
\* matter.
Spawn ==
    /\ pc = "spawn"
    /\ \/ /\ spawns
          /\ \E p \in Pids :
              /\ process[p] = "none"
              /\ process' = [process EXCEPT ![p] = "running"]
              /\ conn' = [conn EXCEPT ![p] = current]
              /\ \E i \in FreeSlots : children' = [children EXCEPT ![i] = p]
          /\ pc' = "sleep" /\ current' = None
       \/ /\ ~spawns \/ "fork" \in Faults
          /\ pc' = "inline"
          /\ UNCHANGED <<children, current, procVars>>
    /\ UNCHANGED <<listening, udp, errors, timeVars, clientVars, stop, spawns>>

\* dlr_server_session inside the loop returns once the client has left.
ServeInline ==
    /\ pc = "inline"
    /\ current \notin connected
    /\ current' = None
    /\ pc' = "sleep"
    /\ UNCHANGED <<listening, udp, children, errors, timeVars, procVars, clientVars, stop, spawns>>

\* Bug: g_stop is not looked at.
SleepOnly ==
    /\ pc = "sleep"
    /\ pc' = "hello"
    /\ UNCHANGED <<listening, udp, children, errors, current, timeVars, procVars,
                   clientVars, stop, spawns>>

\* Between two passes; g_stop is looked at once per pass.
Sleep ==
    /\ pc = "sleep"
    /\ pc' = IF stop THEN "stop" ELSE "hello"
    /\ UNCHANGED <<listening, udp, children, errors, current, timeVars, procVars,
                   clientVars, stop, spawns>>

\* A process lets go of the connections of `gone`.  The queue is the
\* kernel's and is there as long as a process has the listening socket.  A
\* child inherits that over fork and exec and never closes it, so the queue
\* goes with the last of the server and its children.
LetGo(gone, last) ==
    /\ backlog' = IF last THEN <<>> ELSE backlog
    /\ connected' = connected \ (gone \cup {c \in Queued : last})

CloseListener(gone) ==
    /\ listening' = FALSE /\ udp' = FALSE
    /\ LetGo(gone, Running = {})

\* dlr_server_stop.  Children go on with their clients, and whoever is in
\* the queue stays there until they have ended.
Stop ==
    /\ pc = "stop"
    /\ CloseListener({})
    /\ pc' = "stopped"
    /\ UNCHANGED <<children, errors, current, timeVars, procVars, stop, spawns>>

Loop ==
    \/ Start \/ Hello \/ Reap \/ FindSlot \/ Accept \/ AcceptNobody \/ AcceptFails
    \/ Spawn \/ ServeInline \/ Sleep \/ Stop

-----------------------------------------------------------------------------
(* Children, clients, the user and the clock.                              *)

\* dlr_server_child returns when its client has left.  In exit the kernel
\* closes the connection, which this process still has if it kept a copy.
ChildEnds(p) ==
    /\ process[p] = "running"
    /\ conn[p] \notin connected
    /\ process' = [process EXCEPT ![p] = "zombie"]
    /\ conn' = [conn EXCEPT ![p] = None]
    /\ LetGo({}, ~listening /\ Running = {p})
    /\ UNCHANGED <<loopVars, timeVars, stop, spawns>>

ChildCrashes(p) ==
    /\ "crash" \in Faults
    /\ process[p] = "running"
    /\ process' = [process EXCEPT ![p] = "zombie"]
    /\ conn' = [conn EXCEPT ![p] = None]
    /\ LetGo({conn[p]} \ {current}, ~listening /\ Running = {p})
    /\ UNCHANGED <<loopVars, timeVars, stop, spawns>>

\* Connections of a client that the server has not let go of yet.
Held(c) == c \in Queued \/ current = c \/ \E p \in Running : conn[p] = c

\* The kernel takes connections as long as the queue is there, also when the
\* server has stopped and nobody will accept them.
Connect(c) ==
    /\ listening \/ Running # {}
    /\ Len(backlog) < MaxBacklog
    /\ c \notin connected /\ ~Held(c)
    /\ connected' = connected \cup {c}
    /\ backlog' = Append(backlog, c)
    /\ UNCHANGED <<loopVars, timeVars, procVars, stop, spawns>>

\* A client leaves, or is dropped by a timeout of its session.
Leave(c) ==
    /\ c \in connected \ Chatty
    /\ connected' = connected \ {c}
    /\ UNCHANGED <<loopVars, timeVars, procVars, backlog, stop, spawns>>

\* on_interrupt.
Interrupt ==
    /\ "interrupt" \in Faults
    /\ pc # "start" /\ ~stop
    /\ stop' = TRUE
    /\ UNCHANGED <<loopVars, timeVars, procVars, clientVars, spawns>>

\* Minimal-OS ends a program that is still there a second after Ctrl+C.
Kill ==
    /\ ~spawns /\ stop
    /\ pc # "stopped"
    /\ CloseListener({current})
    /\ current' = None
    /\ pc' = "stopped"
    /\ UNCHANGED <<children, errors, timeVars, procVars, stop, spawns>>

HelloFallsDue ==
    /\ ~helloDue /\ helloDue' = TRUE
    /\ UNCHANGED <<loopVars, reapDue, procVars, clientVars, stop, spawns>>

ReapFallsDue ==
    /\ ~reapDue /\ reapDue' = TRUE
    /\ UNCHANGED <<loopVars, helloDue, procVars, clientVars, stop, spawns>>

Next ==
    \/ Loop
    \/ \E p \in Pids : ChildEnds(p) \/ ChildCrashes(p)
    \/ \E c \in Clients : Connect(c) \/ Leave(c)
    \/ Interrupt \/ Kill
    \/ HelloFallsDue \/ ReapFallsDue

Spec == Init /\ [][Next]_vars

\* The loop and the children run, time passes, clients that are not chatty
\* leave some day, and the kernel carries out its threat.
Fairness ==
    /\ WF_vars(Loop)
    /\ \A p \in Pids : WF_vars(ChildEnds(p))
    /\ \A c \in Clients : WF_vars(Leave(c))
    /\ WF_vars(Kill)
    /\ WF_vars(HelloFallsDue) /\ WF_vars(ReapFallsDue)

FairSpec == Spec /\ Fairness

-----------------------------------------------------------------------------
(* What must hold.                                                         *)

\* At most DLR_MAX_CLIENTS clients are served at once, the one inside the
\* loop included, whatever children end or crash between two looks at them.
ServedLimit ==
    Cardinality(Running) + (IF pc = "inline" THEN 1 ELSE 0) <= MaxClients

\* Nobody accepts from the queue any more, but children keep it open.
Orphaned == pc = "stopped" /\ Running # {}

\* Each connection that was accepted has exactly one server, and no two
\* processes read the same one.  A client is left with a connection that
\* nobody reads only in the queue of a server that has stopped
\* (dlr_server_stop) while children of it, which have the listening socket
\* too, still run.
OneServerEach ==
    /\ Queued # {} => listening \/ Orphaned
    /\ connected \subseteq Queued \cup {current} \cup {conn[p] : p \in Running}
    /\ \A p \in Running : conn[p] \notin Queued \cup {current}
    /\ \A p, q \in Running : conn[p] = conn[q] => p = q
    /\ current \notin Queued

\* The loop itself serves a client that never leaves.
Occupied == pc = "inline" /\ current \in Chatty

\* A child of a stopped server serves a client that never leaves.
Lingering == Orphaned /\ \E p \in Running : conn[p] \in Chatty

\* A client in the queue gets a server, or is told that there is none, unless
\* the loop itself had to serve a client that never leaves: with fewer than
\* DLR_MAX_CLIENTS such clients, slots keep coming free.  When the server has
\* stopped it is told once the children have ended, so that one which never
\* ends leaves it waiting.
WaitingIsServed ==
    \A c \in Clients : c \in Queued ~> c \notin Queued \/ Occupied \/ Lingering

\* Ctrl+C ends the server: after the session it is in, and on Minimal-OS
\* even in the middle of one.
InterruptEnds == stop ~> pc = "stopped" \/ (spawns /\ Occupied)

\* No finished child stays in the process table of a running server.
ZombiesAreReaped ==
    \A p \in Pids : process[p] = "zombie" ~> process[p] # "zombie" \/ pc = "stopped" \/ Occupied
=============================================================================
