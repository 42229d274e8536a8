-------------------------- MODULE ServerLoop_proofs --------------------------
(***************************************************************************)
(* Proofs about ServerLoop, for every set of clients and processes, every  *)
(* limit, every combination of faults and both ways of building it.        *)
(***************************************************************************)
EXTENDS ServerLoop, FiniteSetTheorems, TLAPS

-----------------------------------------------------------------------------
(* Types.  The count of errors stays in its range because the loop stops   *)
(* at the first one past the limit.                                        *)

Counted == errors > MaxErrors => pc \in {"stop", "stopped"}

TypeInv == TypeOK /\ Counted

\* The queue when it is empty, and with one more client.
LEMMA Queue ==
    /\ <<>> \in Seq(Clients) /\ Len(<<>>) = 0
    /\ \A q \in Seq(Clients) : Len(q) \in Nat
    /\ \A q \in Seq(Clients), c \in Clients :
          Append(q, c) \in Seq(Clients) /\ Len(Append(q, c)) = Len(q) + 1
OBVIOUS

\* Letting go of the queue empties it or leaves it, and connects no one.
LEMMA LetGoType ==
    ASSUME TypeOK, NEW gone, NEW last, LetGo(gone, last)
    PROVE  /\ backlog' \in Seq(Clients) /\ Len(backlog') <= MaxBacklog
           /\ connected' \subseteq connected \ gone
BY Queue, BoundsAssumption DEF LetGo, TypeOK

LEMMA InitType == Init => TypeInv
<1> SUFFICES ASSUME Init PROVE TypeInv
    OBVIOUS
<1>1. backlog = <<>>
    BY DEF Init
<1>2. backlog \in Seq(Clients) /\ Len(backlog) <= MaxBacklog
    BY <1>1, Queue, BoundsAssumption
<1>3. errors = 0 /\ Counted
    BY BoundsAssumption DEF Init, Counted
<1>4. /\ pc \in Pcs /\ listening \in BOOLEAN /\ udp \in BOOLEAN /\ stop \in BOOLEAN
      /\ helloDue \in BOOLEAN /\ reapDue \in BOOLEAN /\ spawns \in BOOLEAN
    BY BuildsAssumption DEF Init, Pcs
<1>5. /\ children \in [Slots -> Pids \cup {None}]
      /\ process \in [Pids -> {"none", "running", "zombie"}]
      /\ conn \in [Pids -> Clients \cup {None}]
    BY DEF Init
<1>6. connected = {} /\ current = None
    BY DEF Init
<1> QED
    BY <1>2, <1>3, <1>4, <1>5, <1>6, BoundsAssumption DEF TypeInv, TypeOK

\* Each step of the loop keeps the types.
LEMMA LoopType ==
    ASSUME TypeInv, Loop
    PROVE  TypeInv'
<1> USE BoundsAssumption DEF TypeInv, TypeOK, Counted, Pcs, Slots, timeVars, procVars, clientVars
<1>1. CASE Start
    BY <1>1 DEF Start
<1>2. CASE Hello
    BY <1>2 DEF Hello
<1>3. CASE Reap
    BY <1>3 DEF Reap
<1>4. CASE FindSlot
    BY <1>4 DEF FindSlot
<1>5. CASE Accept
    BY <1>5 DEF Accept
<1>6. CASE AcceptNobody
    BY <1>6 DEF AcceptNobody
<1>7. CASE AcceptFails
    BY <1>7 DEF AcceptFails
<1>8. CASE Spawn
    BY <1>8 DEF Spawn, FreeSlots
<1>9. CASE ServeInline
    BY <1>9 DEF ServeInline
<1>10. CASE Sleep
    BY <1>10 DEF Sleep
<1>11. CASE Stop
  <2>1. listening' = FALSE /\ udp' = FALSE
      BY <1>11 DEF Stop, CloseListener
  <2>2. backlog' \in Seq(Clients) /\ Len(backlog') <= MaxBacklog /\ connected' \subseteq connected
      BY <1>11, LetGoType DEF Stop, CloseListener
  <2> QED
      BY <1>11, <2>1, <2>2 DEF Stop
<1> QED
    BY <1>1, <1>2, <1>3, <1>4, <1>5, <1>6, <1>7, <1>8, <1>9, <1>10, <1>11 DEF Loop

\* What the others do is all around the loop.
Others ==
    \/ \E p \in Pids : ChildEnds(p) \/ ChildCrashes(p)
    \/ \E c \in Clients : Connect(c) \/ Leave(c)
    \/ Interrupt \/ Kill \/ HelloFallsDue \/ ReapFallsDue

LEMMA OthersType ==
    ASSUME TypeInv, Others
    PROVE  TypeInv'
<1> USE BoundsAssumption DEF TypeInv, TypeOK, Counted, Pcs, Slots, loopVars, timeVars, procVars, clientVars
<1>1. ASSUME NEW p \in Pids, ChildEnds(p) \/ ChildCrashes(p)
      PROVE  TypeInv'
  <2>1. backlog' \in Seq(Clients) /\ Len(backlog') <= MaxBacklog /\ connected' \subseteq connected
      BY <1>1, LetGoType DEF ChildEnds, ChildCrashes
  <2> QED
      BY <1>1, <2>1 DEF ChildEnds, ChildCrashes
<1>2. ASSUME NEW c \in Clients, Connect(c) \/ Leave(c)
      PROVE  TypeInv'
  <2>1. CASE Connect(c)
      BY <2>1, Queue DEF Connect
  <2>2. CASE Leave(c)
      BY <2>2 DEF Leave
  <2> QED
      BY <1>2, <2>1, <2>2
<1>3. CASE Kill
  <2>1. listening' = FALSE /\ udp' = FALSE
      BY <1>3 DEF Kill, CloseListener
  <2>2. backlog' \in Seq(Clients) /\ Len(backlog') <= MaxBacklog /\ connected' \subseteq connected
      BY <1>3, LetGoType DEF Kill, CloseListener
  <2> QED
      BY <1>3, <2>1, <2>2 DEF Kill
<1>4. CASE Interrupt \/ HelloFallsDue \/ ReapFallsDue
    BY <1>4, ZenonT(60) DEF Interrupt, HelloFallsDue, ReapFallsDue
<1> QED
    BY <1>1, <1>2, <1>3, <1>4 DEF Others

LEMMA NextType == TypeInv /\ [Next]_vars => TypeInv'
<1> SUFFICES ASSUME TypeInv, [Next]_vars PROVE TypeInv'
    OBVIOUS
<1>1. CASE Loop
    BY <1>1, LoopType
<1>2. CASE Others
    BY <1>2, OthersType
<1>3. CASE UNCHANGED vars
    BY <1>3 DEF vars, loopVars, timeVars, procVars, clientVars, TypeInv, TypeOK, Counted
<1> QED
    BY <1>1, <1>2, <1>3 DEF Next, Others

\* Every reachable state is well typed: in particular the count of errors
\* never passes the limit by more than the one that stops the loop.
THEOREM TypeCorrect == Spec => []TypeOK
<1>1. TypeInv => TypeOK
    BY DEF TypeInv
<1> QED
    BY <1>1, InitType, NextType, PTL DEF Spec

-----------------------------------------------------------------------------
(* The limit on clients.  A child that runs is in a slot, and a client is  *)
(* accepted only while a slot is free, which stays free until the child    *)
(* for it is there: no one else writes to the slots.                       *)

Remembered == \A p \in Running : \E i \in Slots : children[i] = p
Room == pc \in {"accept", "spawn", "inline"} => FreeSlots # {}
SlotInv == Remembered /\ Room

LEMMA InitSlots == Init => SlotInv
BY DEF Init, SlotInv, Remembered, Room, Running

LEMMA NextSlots == TypeInv /\ SlotInv /\ [Next]_vars => SlotInv'
<1> SUFFICES ASSUME TypeInv, SlotInv, [Next]_vars PROVE SlotInv'
    OBVIOUS
<1> USE DEF SlotInv, Remembered, Room, Running, FreeSlots
<1>1. CASE Reap
  <2>1. \A i \in Slots : children[i] # None /\ process[children[i]] = "running"
            => children'[i] = children[i]
      BY <1>1 DEF Reap, TypeInv, TypeOK
  <2>2. \A p \in Pids : process'[p] = "running" => process[p] = "running"
      BY <1>1 DEF Reap, TypeInv, TypeOK
  <2>3. Remembered'
      BY <2>1, <2>2, PidsAssumption
  <2> QED
      BY <1>1, <2>3 DEF Reap
<1>2. CASE Spawn
  <2>1. CASE UNCHANGED <<children, procVars>>
      BY <1>2, <2>1 DEF Spawn, procVars
  <2>2. ASSUME NEW p \in Pids, NEW i \in FreeSlots, pc' = "sleep",
               process' = [process EXCEPT ![p] = "running"],
               children' = [children EXCEPT ![i] = p]
        PROVE  SlotInv'
    <3>1. children'[i] = p
        BY <2>2 DEF TypeInv, TypeOK
    <3>2. \A q \in Pids : process'[q] = "running" /\ q # p => process[q] = "running"
        BY <2>2 DEF TypeInv, TypeOK
    <3>3. \A k \in Slots : k # i => children'[k] = children[k]
        BY <2>2 DEF TypeInv, TypeOK
    <3>4. \A q \in Pids, k \in Slots : children[k] = q => k # i
        BY <2>2, PidsAssumption
    <3> QED
        BY <2>2, <3>1, <3>2, <3>3, <3>4
  <2> QED
      BY <1>2, <2>1, <2>2 DEF Spawn
<1>3. CASE FindSlot
    BY <1>3 DEF FindSlot, procVars
<1>4. CASE Start \/ Hello \/ Accept \/ AcceptNobody \/ AcceptFails \/ ServeInline \/ Sleep \/ Stop
    BY <1>4 DEF Start, Hello, Accept, AcceptNobody, AcceptFails, ServeInline, Sleep, Stop, procVars
<1>5. ASSUME NEW p \in Pids, ChildEnds(p) \/ ChildCrashes(p)
      PROVE  SlotInv'
    BY <1>5 DEF ChildEnds, ChildCrashes, TypeInv, TypeOK, loopVars
<1>6. ASSUME NEW c \in Clients, Connect(c) \/ Leave(c)
      PROVE  SlotInv'
    BY <1>6 DEF Connect, Leave, loopVars, procVars
<1>7. CASE Interrupt \/ Kill \/ HelloFallsDue \/ ReapFallsDue
    BY <1>7 DEF Interrupt, Kill, HelloFallsDue, ReapFallsDue, loopVars, procVars
<1>8. CASE UNCHANGED vars
    BY <1>8 DEF vars, loopVars, procVars
<1> QED
    BY <1>1, <1>2, <1>3, <1>4, <1>5, <1>6, <1>7, <1>8 DEF Next, Loop

\* As many processes can be remembered as there are slots.
LEMMA SlotsBound ==
    ASSUME NEW S \in SUBSET Slots, \A p \in Running : \E i \in S : children[i] = p
    PROVE  Cardinality(Running) \in Nat /\ Cardinality(Running) <= Cardinality(S)
<1> DEFINE slotOf == [p \in Running |-> CHOOSE i \in S : children[i] = p]
<1>1. \A p \in Running : slotOf[p] \in S /\ children[slotOf[p]] = p
    OBVIOUS
<1>2. slotOf \in Injection(Running, S)
    BY <1>1 DEF Injection, IsInjective
<1>3. IsFiniteSet(S)
  <2>1. IsFiniteSet(1..MaxClients)
      BY FS_Interval, BoundsAssumption
  <2> QED
      BY <2>1, FS_Subset DEF Slots
<1>4. IsFiniteSet(Running) /\ Cardinality(Running) <= Cardinality(S)
    BY <1>2, <1>3, FS_Injection
<1> QED
    BY <1>4, FS_CardinalityType

LEMMA SlotsLimit ==
    ASSUME TypeInv, SlotInv
    PROVE  ServedLimit
<1>1. IsFiniteSet(Slots) /\ Cardinality(Slots) = MaxClients
  <2>1. MaxClients \in Int /\ 1 \in Int /\ MaxClients >= 1
      BY BoundsAssumption
  <2> QED
      BY <2>1, FS_Interval DEF Slots
<1>2. CASE pc # "inline"
    BY <1>1, <1>2, SlotsBound, BoundsAssumption DEF SlotInv, Remembered, ServedLimit
<1>3. CASE pc = "inline"
  <2>1. PICK i \in FreeSlots : TRUE
      BY <1>3 DEF SlotInv, Room
  <2>2. \A p \in Running : \E k \in Slots \ {i} : children[k] = p
      BY <2>1, PidsAssumption DEF SlotInv, Remembered, FreeSlots, Running
  <2>3. Cardinality(Slots \ {i}) = MaxClients - 1
      BY <1>1, <2>1, FS_RemoveElement DEF FreeSlots
  <2>4. Cardinality(Running) \in Nat /\ Cardinality(Running) <= MaxClients - 1
      BY <2>2, <2>3, SlotsBound
  <2> QED
      BY <1>3, <2>4, BoundsAssumption DEF ServedLimit
<1> QED
    BY <1>2, <1>3

\* At most DLR_MAX_CLIENTS clients are served at once, whenever children
\* end, crash or are looked for, and with a session inside the loop counted.
THEOREM ServesAtMostMaxClients == Spec => []ServedLimit
<1>1. Init => TypeInv /\ SlotInv
    BY InitType, InitSlots
<1>2. TypeInv /\ SlotInv /\ [Next]_vars => (TypeInv /\ SlotInv)'
    BY NextType, NextSlots
<1>3. TypeInv /\ SlotInv => ServedLimit
    BY SlotsLimit
<1> QED
    BY <1>1, <1>2, <1>3, PTL DEF Spec

-----------------------------------------------------------------------------
(* One server for each connection.  Between the accept and the child the   *)
(* loop holds the connection itself, and it holds none at any other time.  *)

Elements(q) == {q[k] : k \in 1..Len(q)}
Distinct(q) == \A i, k \in 1..Len(q) : q[i] = q[k] => i = k

Holding == IF pc \in {"spawn", "inline"} THEN current \in Clients ELSE current = None
Busy == \A p \in Running : conn[p] \in Clients
Owned ==
    /\ connected \subseteq Queued \cup {current} \cup {conn[p] : p \in Running}
    /\ \A p \in Running : conn[p] \notin Queued \cup {current}
    /\ \A p, q \in Running : conn[p] = conn[q] => p = q
    /\ current \notin Queued
OwnerInv == Holding /\ Busy /\ Distinct(backlog) /\ Owned

\* Taking the first client from a queue without repetitions, and adding one
\* that is not in it.
LEMMA QueueTakes ==
    ASSUME NEW q \in Seq(Clients), q # <<>>, Distinct(q)
    PROVE  /\ Head(q) \in Clients
           /\ Distinct(Tail(q))
           /\ Elements(Tail(q)) = Elements(q) \ {Head(q)}
           /\ Head(q) \in Elements(q)
<1>1. Len(q) \in Nat /\ Len(q) >= 1 /\ Len(Tail(q)) = Len(q) - 1
    OBVIOUS
<1>2. Head(q) = q[1] /\ Head(q) \in Clients
    OBVIOUS
<1>3. \A k \in 1..Len(Tail(q)) : Tail(q)[k] = q[k + 1] /\ k + 1 \in 1..Len(q)
    BY <1>1
<1>4. \A k \in 1..Len(q) : k # 1 => k - 1 \in 1..Len(Tail(q)) /\ q[k] = Tail(q)[k - 1]
    BY <1>1, <1>3
<1>5. Distinct(Tail(q))
  <2> SUFFICES ASSUME NEW i \in 1..Len(Tail(q)), NEW k \in 1..Len(Tail(q)), Tail(q)[i] = Tail(q)[k]
               PROVE  i = k
      BY DEF Distinct
  <2>1. i + 1 = k + 1
      BY <1>3 DEF Distinct
  <2> QED
      BY <1>1, <2>1
<1>6. ASSUME NEW x \in Elements(Tail(q)) PROVE x \in Elements(q) \ {Head(q)}
  <2>1. PICK k \in 1..Len(Tail(q)) : x = Tail(q)[k]
      BY <1>6 DEF Elements
  <2>2. x = q[k + 1] /\ k + 1 \in 1..Len(q) /\ k + 1 # 1
      BY <1>1, <1>3, <2>1
  <2>3. x # q[1]
      BY <1>1, <2>2 DEF Distinct
  <2> QED
      BY <1>2, <2>2, <2>3 DEF Elements
<1>7. ASSUME NEW x \in Elements(q) \ {Head(q)} PROVE x \in Elements(Tail(q))
  <2>1. PICK k \in 1..Len(q) : x = q[k]
      BY <1>7 DEF Elements
  <2>2. k # 1
      BY <1>2, <1>7, <2>1
  <2> QED
      BY <1>4, <2>1, <2>2 DEF Elements
<1>8. Head(q) \in Elements(q)
    BY <1>1, <1>2 DEF Elements
<1> QED
    BY <1>2, <1>5, <1>6, <1>7, <1>8

LEMMA QueueGrows ==
    ASSUME NEW q \in Seq(Clients), NEW c \in Clients, c \notin Elements(q), Distinct(q)
    PROVE  /\ Distinct(Append(q, c))
           /\ Elements(Append(q, c)) = Elements(q) \cup {c}
<1> DEFINE r == Append(q, c)
<1>1. Len(q) \in Nat /\ Len(r) = Len(q) + 1 /\ r[Len(r)] = c
    OBVIOUS
<1>2. \A k \in 1..Len(q) : r[k] = q[k] /\ k \in 1..Len(r)
    BY <1>1
<1>3. \A k \in 1..Len(r) : k = Len(r) \/ k \in 1..Len(q)
    BY <1>1
<1>4. Distinct(r)
  <2> SUFFICES ASSUME NEW i \in 1..Len(r), NEW k \in 1..Len(r), r[i] = r[k] PROVE i = k
      BY DEF Distinct
  <2> QED
      BY <1>1, <1>2, <1>3 DEF Distinct, Elements
<1>5. Elements(r) = Elements(q) \cup {c}
    BY <1>1, <1>2, <1>3 DEF Elements
<1> QED
    BY <1>4, <1>5

LEMMA NoneQueued == Elements(<<>>) = {} /\ Distinct(<<>>)
BY Queue DEF Elements, Distinct

LEMMA QueuedElements == Queued = Elements(backlog)
BY DEF Queued, Elements

LEMMA QueuedClients ==
    ASSUME TypeInv
    PROVE  Queued \subseteq Clients
<1>1. backlog \in Seq(Clients)
    BY DEF TypeInv, TypeOK
<1>2. \A k \in 1..Len(backlog) : backlog[k] \in Clients
    BY <1>1
<1> QED
    BY <1>2 DEF Queued

\* Whoever is let go of from the queue is no longer connected.
LEMMA QueueLetGo ==
    ASSUME OwnerInv, NEW gone, NEW last, LetGo(gone, last)
    PROVE  /\ Distinct(backlog') /\ Queued' \subseteq Queued
           /\ connected' \subseteq connected \ (gone \cup (Queued \ Queued'))
<1>1. CASE last
  <2>1. backlog' = <<>> /\ connected' = connected \ (gone \cup Queued)
      BY <1>1 DEF LetGo
  <2>2. Queued' = {} /\ Distinct(backlog')
      BY <2>1, NoneQueued DEF Queued, Elements
  <2> QED
      BY <2>1, <2>2
<1>2. CASE ~last
    BY <1>2 DEF LetGo, OwnerInv, Queued, Distinct
<1> QED
    BY <1>1, <1>2

LEMMA InitOwners == Init => OwnerInv
<1> SUFFICES ASSUME Init PROVE OwnerInv
    OBVIOUS
<1>1. Running = {}
    BY DEF Init, Running
<1>2. Queued = {} /\ Distinct(backlog)
    BY NoneQueued, QueuedElements DEF Init
<1>3. Holding /\ connected = {}
    BY DEF Init, Holding
<1> QED
    BY <1>1, <1>2, <1>3 DEF OwnerInv, Busy, Owned

\* A step that touches neither the queue nor the children nor what the loop
\* holds, and connects no one.
LEMMA PlainOwners ==
    ASSUME OwnerInv, UNCHANGED <<procVars, backlog, current>>, connected' \subseteq connected,
           pc' \in {"spawn", "inline"} <=> pc \in {"spawn", "inline"}
    PROVE  OwnerInv'
BY DEF OwnerInv, Holding, Busy, Owned, Queued, Running, Distinct, procVars

LEMMA LoopOwners ==
    ASSUME TypeInv, OwnerInv, Loop
    PROVE  OwnerInv'
<1> USE DEF timeVars, clientVars
<1>1. CASE Start \/ Hello \/ FindSlot \/ AcceptNobody \/ AcceptFails \/ Sleep
  <2>1. /\ UNCHANGED <<procVars, backlog, current, connected>>
        /\ pc \notin {"spawn", "inline"} /\ pc' \notin {"spawn", "inline"}
      BY <1>1 DEF Start, Hello, FindSlot, AcceptNobody, AcceptFails, Sleep
  <2> QED
      BY <2>1, PlainOwners
<1>2. CASE Reap
  <2>1. Running' = Running
      BY <1>2, PidsAssumption DEF Reap, Running, TypeInv, TypeOK
  <2> QED
      BY <1>2, <2>1 DEF Reap, OwnerInv, Holding, Busy, Owned, Queued
<1>3. CASE Accept
  <2>1. /\ current' \in Clients /\ pc' = "spawn" /\ UNCHANGED <<connected, conn, Running>>
        /\ Distinct(backlog')
        /\ Queued' = Queued \ {current'} /\ current' \in Queued
        /\ current = None
    <3>1. backlog \in Seq(Clients) /\ backlog # <<>> /\ Distinct(backlog)
        BY <1>3 DEF Accept, TypeInv, TypeOK, OwnerInv
    <3>2. backlog' = Tail(backlog) /\ current' = Head(backlog)
        BY <1>3 DEF Accept
    <3>3. Queued' = Elements(backlog')
        BY DEF Queued, Elements
    <3> QED
        BY <1>3, <3>1, <3>2, <3>3, QueueTakes, QueuedElements
        DEF Accept, Running, OwnerInv, Holding, procVars
  <2>2. \A p \in Running : conn[p] \notin Queued
      BY DEF OwnerInv, Owned
  <2>3. connected \subseteq Queued' \cup {current'} \cup {conn[p] : p \in Running}
      BY <2>1, ClientsAssumption DEF OwnerInv, Owned, TypeInv, TypeOK
  <2> QED
      BY <2>1, <2>2, <2>3 DEF OwnerInv, Holding, Busy, Owned
<1>4. CASE Spawn
  <2>1. CASE UNCHANGED <<children, current, procVars>> /\ pc' = "inline"
      BY <1>4, <2>1, PlainOwners DEF Spawn
  <2>2. ASSUME NEW p \in Pids, process[p] = "none", current' = None, pc' = "sleep",
               process' = [process EXCEPT ![p] = "running"],
               conn' = [conn EXCEPT ![p] = current]
        PROVE  OwnerInv'
    <3>1. Running' = Running \cup {p} /\ p \notin Running
        BY <2>2 DEF Running, TypeInv, TypeOK
    <3>2. conn'[p] = current /\ \A q \in Running : conn'[q] = conn[q]
        BY <2>2, <3>1 DEF TypeInv, TypeOK, Running
    <3>3. UNCHANGED <<connected, backlog, Queued>> /\ current \in Clients
        BY <1>4 DEF Spawn, OwnerInv, Holding, Queued
    <3>4. None \notin Queued
        BY QueuedClients, ClientsAssumption
    <3>5. \A q \in Running : conn[q] # current /\ conn[q] \notin Queued /\ conn[q] \in Clients
        BY DEF OwnerInv, Owned, Busy
    <3>6. Busy' /\ Holding'
        BY <2>2, <3>1, <3>2, <3>3, <3>5 DEF Busy, Holding
    <3>7. connected \subseteq Queued \cup {conn'[q] : q \in Running'}
        BY <3>1, <3>2 DEF OwnerInv, Owned
    <3>8. \A q \in Running' : conn'[q] \notin Queued \cup {None}
        BY <3>1, <3>2, <3>3, <3>5, ClientsAssumption DEF OwnerInv, Owned
    <3>9. \A q, r \in Running' : conn'[q] = conn'[r] => q = r
        BY <3>1, <3>2, <3>5 DEF OwnerInv, Owned
    <3> QED
        BY <2>2, <3>3, <3>4, <3>6, <3>7, <3>8, <3>9 DEF OwnerInv, Owned, Distinct
  <2> QED
      BY <1>4, <2>1, <2>2 DEF Spawn
<1>5. CASE ServeInline
  <2>1. UNCHANGED <<backlog, connected, conn, Running, Queued>> /\ current' = None /\ pc' = "sleep"
      BY <1>5 DEF ServeInline, procVars, Running, Queued
  <2>2. None \notin Queued /\ \A p \in Running : conn[p] # None
      BY QueuedClients, ClientsAssumption DEF OwnerInv, Busy
  <2>3. connected \subseteq Queued \cup {conn[p] : p \in Running}
      BY <1>5 DEF ServeInline, OwnerInv, Owned
  <2> QED
      BY <2>1, <2>2, <2>3 DEF OwnerInv, Holding, Busy, Owned
<1>6. CASE Stop
  <2>1. UNCHANGED <<current, conn, Running>> /\ pc = "stop" /\ pc' = "stopped"
      BY <1>6 DEF Stop, procVars, Running
  <2>2. LetGo({}, Running = {})
      BY <1>6 DEF Stop, CloseListener
  <2>3. Distinct(backlog') /\ Queued' \subseteq Queued /\ connected' \subseteq connected \ (Queued \ Queued')
      BY <2>2, QueueLetGo
  <2> QED
      BY <2>1, <2>3 DEF OwnerInv, Holding, Busy, Owned
<1> QED
    BY <1>1, <1>2, <1>3, <1>4, <1>5, <1>6 DEF Loop

LEMMA OthersOwners ==
    ASSUME TypeInv, OwnerInv, Others
    PROVE  OwnerInv'
<1> USE DEF loopVars, timeVars
<1>1. ASSUME NEW p \in Pids, ChildEnds(p) \/ ChildCrashes(p)
      PROVE  OwnerInv'
  <2>1. /\ p \in Running /\ Running' = Running \ {p}
        /\ \A q \in Running' : conn'[q] = conn[q]
        /\ UNCHANGED <<pc, current>>
      BY <1>1 DEF ChildEnds, ChildCrashes, Running, TypeInv, TypeOK
  <2>2. /\ Distinct(backlog') /\ Queued' \subseteq Queued
        /\ connected' \subseteq connected \ ({conn[p]} \cup (Queued \ Queued'))
    <3>1. conn[p] # current
        BY <2>1 DEF OwnerInv, Owned
    <3>2. CASE ChildEnds(p)
        BY <3>2, QueueLetGo DEF ChildEnds
    <3>3. CASE ChildCrashes(p)
        BY <3>1, <3>3, QueueLetGo DEF ChildCrashes
    <3> QED
        BY <1>1, <3>2, <3>3
  <2>3. connected' \subseteq Queued' \cup {current'} \cup {conn'[q] : q \in Running'}
      BY <2>1, <2>2 DEF OwnerInv, Owned
  <2> QED
      BY <2>1, <2>2, <2>3 DEF OwnerInv, Holding, Busy, Owned
<1>2. ASSUME NEW c \in Clients, Connect(c)
      PROVE  OwnerInv'
  <2>1. /\ backlog' = Append(backlog, c) /\ connected' = connected \cup {c}
        /\ UNCHANGED <<pc, current, conn, Running>>
        /\ c \notin Queued /\ current # c /\ \A p \in Running : conn[p] # c
      BY <1>2 DEF Connect, Held, Running, procVars
  <2>2. Queued' = Queued \cup {c} /\ Distinct(backlog')
    <3>1. backlog \in Seq(Clients) /\ Distinct(backlog)
        BY DEF TypeInv, TypeOK, OwnerInv
    <3>2. Queued' = Elements(backlog')
        BY DEF Queued, Elements
    <3> QED
        BY <2>1, <3>1, <3>2, QueueGrows, QueuedElements
  <2> QED
      BY <2>1, <2>2 DEF OwnerInv, Holding, Busy, Owned
<1>3. ASSUME NEW c \in Clients, Leave(c)
      PROVE  OwnerInv'
    BY <1>3, PlainOwners DEF Leave
<1>4. CASE Kill
  <2>1. /\ LetGo({current}, Running = {})
        /\ current' = None /\ pc' = "stopped"
        /\ UNCHANGED <<conn, Running>>
      BY <1>4 DEF Kill, CloseListener, procVars, Running
  <2>2. /\ Distinct(backlog') /\ Queued' \subseteq Queued
        /\ connected' \subseteq connected \ ({current} \cup (Queued \ Queued'))
      BY <2>1, QueueLetGo
  <2>3. None \notin Queued
      BY QueuedClients, ClientsAssumption
  <2> QED
      BY <2>1, <2>2, <2>3, ClientsAssumption DEF OwnerInv, Holding, Busy, Owned
<1>5. CASE Interrupt \/ HelloFallsDue \/ ReapFallsDue
    BY <1>5, PlainOwners DEF Interrupt, HelloFallsDue, ReapFallsDue, clientVars
<1> QED
    BY <1>1, <1>2, <1>3, <1>4, <1>5 DEF Others

LEMMA NextOwners == TypeInv /\ OwnerInv /\ [Next]_vars => OwnerInv'
<1> SUFFICES ASSUME TypeInv, OwnerInv, [Next]_vars PROVE OwnerInv'
    OBVIOUS
<1>1. CASE Loop
    BY <1>1, LoopOwners
<1>2. CASE Others
    BY <1>2, OthersOwners
<1>3. CASE UNCHANGED vars
    BY <1>3, PlainOwners DEF vars, loopVars, clientVars
<1> QED
    BY <1>1, <1>2, <1>3 DEF Next, Others

\* There is a queue while a process has the listening socket, the server or,
\* once that has stopped, one of its children.
QueueInv ==
    /\ listening <=> pc \notin {"start", "stopped"}
    /\ pc = "start" => Running = {}
    /\ ~listening /\ Running = {} => backlog = <<>>

LEMMA NextQueue == TypeInv /\ QueueInv /\ [Next]_vars => QueueInv'
<1> SUFFICES ASSUME TypeInv, QueueInv, [Next]_vars PROVE QueueInv'
    OBVIOUS
<1> USE DEF QueueInv, procVars, clientVars, loopVars
<1>1. CASE Start \/ Hello \/ FindSlot \/ Accept \/ AcceptNobody \/ AcceptFails \/ ServeInline \/ Sleep
  <2>1. Running' = Running
      BY <1>1 DEF Start, Hello, FindSlot, Accept, AcceptNobody, AcceptFails, ServeInline, Sleep, Running
  <2>2. CASE Start
    <3>1. \/ listening' = TRUE /\ pc' = "sleep"
          \/ pc' = "stopped" /\ listening' = listening
        BY <2>2 DEF Start
    <3>2. pc = "start" /\ backlog' = backlog
        BY <2>2 DEF Start
    <3> QED
        BY <2>1, <3>1, <3>2
  <2>3. CASE Accept \/ AcceptNobody \/ AcceptFails
      BY <2>1, <2>3 DEF Accept, AcceptNobody, AcceptFails
  <2>4. CASE Hello \/ FindSlot \/ ServeInline \/ Sleep
      BY <2>1, <2>4 DEF Hello, FindSlot, ServeInline, Sleep
  <2> QED
      BY <1>1, <2>2, <2>3, <2>4
<1>2. CASE Reap \/ Spawn
    BY <1>2 DEF Reap, Spawn
<1>3. CASE Stop \/ Kill
    BY <1>3 DEF Stop, Kill, CloseListener, LetGo, Running
<1>4. ASSUME NEW p \in Pids, ChildEnds(p) \/ ChildCrashes(p)
      PROVE  QueueInv'
  <2>1. /\ p \in Running /\ Running' = Running \ {p} /\ UNCHANGED <<listening, pc>>
        /\ backlog' = IF ~listening /\ Running = {p} THEN <<>> ELSE backlog
      BY <1>4 DEF ChildEnds, ChildCrashes, LetGo, Running, TypeInv, TypeOK
  <2> QED
      BY <2>1
<1>5. ASSUME NEW c \in Clients, Connect(c) \/ Leave(c)
      PROVE  QueueInv'
    BY <1>5 DEF Connect, Leave, Running
<1>6. CASE Interrupt \/ HelloFallsDue \/ ReapFallsDue \/ UNCHANGED vars
    BY <1>6 DEF Interrupt, HelloFallsDue, ReapFallsDue, vars, Running
<1> QED
    BY <1>1, <1>2, <1>3, <1>4, <1>5, <1>6 DEF Next, Loop

\* A connection that is open is in the queue, in the loop or with a child,
\* and in one place only, through every order of accepting, starting and
\* ending children, leaving and stopping; and a queue that nobody accepts
\* from is there only while a child of a stopped server runs.
THEOREM EachHasOneServer == Spec => []OneServerEach
<1>1. Init => TypeInv /\ OwnerInv /\ QueueInv
  <2>1. Init => QueueInv
      BY DEF Init, QueueInv, Running
  <2> QED
      BY <2>1, InitType, InitOwners
<1>2. TypeInv /\ OwnerInv /\ QueueInv /\ [Next]_vars => (TypeInv /\ OwnerInv /\ QueueInv)'
    BY NextType, NextOwners, NextQueue
<1>3. OwnerInv /\ QueueInv => OneServerEach
  <2>1. backlog = <<>> => Queued = {}
      BY NoneQueued, QueuedElements
  <2> QED
      BY <2>1 DEF OwnerInv, Owned, QueueInv, OneServerEach, Orphaned
<1> QED
    BY <1>1, <1>2, <1>3, PTL DEF Spec
=============================================================================
