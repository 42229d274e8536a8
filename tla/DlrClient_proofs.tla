--------------------------- MODULE DlrClient_proofs ---------------------------
(***************************************************************************)
(* Proofs about DlrClient: what a process may find in the shared files,    *)
(* for any number of processes, commands, servers and archives.            *)
(***************************************************************************)
EXTENDS DlrClient, SequenceTheorems, TLAPS

USE ListsAssumption, BoundsAssumption

\* The functions of the processes that TypeOK says nothing of.
Shape ==
    /\ DOMAIN arg = Clients /\ DOMAIN pos = Clients /\ DOMAIN forced = Clients
    /\ DOMAIN verified = Clients /\ DOMAIN wrote = Clients /\ DOMAIN result = Clients
    /\ DOMAIN missed = Clients /\ DOMAIN lost = Clients

\* An archive that may be installed.
Installable(a, force) ==
    /\ Contents[a].ok /\ Contents[a].manifest.name # None
    /\ RunsHere(Contents[a].manifest) \/ force

\* Nothing is written before the archive has been looked through.
LookedThrough ==
    \A c \in Clients :
        /\ pc[c] # "entries" => wrote[c] = {} /\ missed[c] = {}
        /\ pc[c] = "entries" => Installable(mem[c], forced[c])

\* A command that is alone is the only one, and what is in the staging file
\* is its own.
StageIsOwn ==
    \A c \in Clients : alone[c] =>
        /\ Busy(c) => \A d \in Clients : Busy(d) => d = c
        /\ pc[c] = "receive" => stage = PartOf(c)
        /\ pc[c] \in {"read", "copy"} /\ "stage" \notin lost[c] => stage = verified[c]
        /\ Busy(c) /\ pc[c] # "entries" => mem[c] = None
        /\ mem[c] # None /\ "stage" \notin lost[c] => mem[c] = verified[c]

\* While commands follow one another, every list that is kept has a server
\* once, and a list is written into an empty file.
ListsAreTwinless ==
    orderly =>
        /\ \A c, d \in Clients : Busy(c) /\ Busy(d) => c = d
        /\ Twinless(db) /\ \A c \in Clients : Twinless(list[c])
        /\ \A c \in Clients : pc[c] = "saving" => db = <<>>

Base == TypeOK /\ Shape

-----------------------------------------------------------------------------
(* The list of servers.                                                    *)

LEMMA DbAddType ==
  ASSUME NEW l \in Seq(Hellos), NEW s \in Hellos
  PROVE  DbAdd(l, s) \in Seq(Hellos)
  <1>1. CASE \E i \in DOMAIN l : l[i].addr = s.addr
    <2> DEFINE first == CHOOSE i \in DOMAIN l :
                 l[i].addr = s.addr /\ \A j \in 1..(i - 1) : l[j].addr # s.addr
    <2>1. DbAdd(l, s) = [l EXCEPT ![first] = s]
      BY <1>1 DEF DbAdd
    <2> HIDE DEF first
    <2>2. l \in [1..Len(l) -> Hellos] /\ Len(l) \in Nat
      OBVIOUS
    <2>3. [l EXCEPT ![first] = s] \in [1..Len(l) -> Hellos]
      BY <2>2
    <2>4. [l EXCEPT ![first] = s] \in Seq(Hellos)
      BY <2>2, <2>3
    <2> QED BY <2>1, <2>4
  <1>2. CASE ~\E i \in DOMAIN l : l[i].addr = s.addr
    <2>1. DbAdd(l, s) = IF Len(l) >= MaxServers THEN l ELSE Append(l, s)
      BY <1>2 DEF DbAdd
    <2> QED BY <2>1
  <1> QED BY <1>1, <1>2

LEMMA DbAddTwinless ==
  ASSUME NEW l \in Seq(Hellos), NEW s \in Hellos, Twinless(l)
  PROVE  Twinless(DbAdd(l, s))
  <1>1. CASE \E i \in DOMAIN l : l[i].addr = s.addr
    <2> DEFINE P(i) == l[i].addr = s.addr /\ \A j \in 1..(i - 1) : l[j].addr # s.addr
               first == CHOOSE i \in DOMAIN l : P(i)
    <2>1. PICK k \in DOMAIN l : l[k].addr = s.addr
      BY <1>1
    <2>2. \A j \in 1..(k - 1) : l[j].addr # s.addr
      <3> SUFFICES ASSUME NEW j \in 1..(k - 1), l[j].addr = s.addr PROVE FALSE
        OBVIOUS
      <3>1. k \in 1..Len(l) /\ j \in DOMAIN l /\ j # k
        OBVIOUS
      <3> QED BY <2>1, <3>1 DEF Twinless
    <2>3. first \in DOMAIN l /\ P(first)
      <3>1. \E i \in DOMAIN l : P(i)
        BY <2>1, <2>2
      <3> QED BY <3>1
    <2>4. DbAdd(l, s) = [l EXCEPT ![first] = s]
      BY <1>1 DEF DbAdd
    <2> HIDE DEF first, P
    <2>5. l[first].addr = s.addr
      BY <2>3 DEF P
    <2> DEFINE m == [l EXCEPT ![first] = s]
    <2>6. DOMAIN m = DOMAIN l /\ \A i \in DOMAIN l : m[i].addr = l[i].addr
      BY <2>3, <2>5
    <2> HIDE DEF m
    <2>7. Twinless(m)
      BY <2>6 DEF Twinless
    <2> QED BY <2>4, <2>7 DEF m
  <1>2. CASE ~\E i \in DOMAIN l : l[i].addr = s.addr
    <2>1. DbAdd(l, s) = IF Len(l) >= MaxServers THEN l ELSE Append(l, s)
      BY <1>2 DEF DbAdd
    <2> DEFINE m == Append(l, s)
    <2>2. /\ DOMAIN l = 1..Len(l) /\ DOMAIN m = 1..(Len(l) + 1) /\ Len(l) \in Nat
          /\ \A i \in 1..Len(l) : m[i] = l[i]
          /\ m[Len(l) + 1] = s
      OBVIOUS
    <2> HIDE DEF m
    <2>3. Twinless(m)
      <3> SUFFICES ASSUME NEW i \in DOMAIN m, NEW j \in DOMAIN m, m[i].addr = m[j].addr PROVE i = j
        BY DEF Twinless
      <3>1. CASE i \in DOMAIN l /\ j \in DOMAIN l
        BY <2>2, <3>1 DEF Twinless
      <3>2. CASE i \notin DOMAIN l /\ j \notin DOMAIN l
        BY <2>2, <3>2
      <3>3. CASE i \in DOMAIN l /\ j \notin DOMAIN l
        <4>1. j = Len(l) + 1
          BY <2>2, <3>3
        <4> QED BY <1>2, <2>2, <3>3, <4>1
      <3>4. CASE i \notin DOMAIN l /\ j \in DOMAIN l
        <4>1. i = Len(l) + 1
          BY <2>2, <3>4
        <4> QED BY <1>2, <2>2, <3>4, <4>1
      <3> QED BY <3>1, <3>2, <3>3, <3>4
    <2> QED BY <2>1, <2>3 DEF m
  <1> QED BY <1>1, <1>2

\* What SaveWrite leaves: the list, and what was behind its end.
LEMMA WrittenOver ==
  ASSUME NEW l \in Seq(Hellos), NEW old \in Seq(Hellos)
  PROVE  /\ l \o SubSeq(old, Len(l) + 1, Len(old)) \in Seq(Hellos)
         /\ old = <<>> => l \o SubSeq(old, Len(l) + 1, Len(old)) = l
  <1> DEFINE rest == SubSeq(old, Len(l) + 1, Len(old))
  <1>1. rest \in Seq(Hellos)
    BY SubSeqProperties
  <1>2. old = <<>> => rest = <<>>
    BY SubSeqProperties, EmptySeq
  <1>3. l \o <<>> = l
    BY ConcatEmptySeq
  <1> HIDE DEF rest
  <1> QED BY <1>1, <1>2, <1>3 DEF rest

-----------------------------------------------------------------------------
(* Types.                                                                  *)

Stages == {None, Mixed} \cup {PartOf(c) : c \in Clients} \cup Archives
Places == {"idle", "menu", "bind", "hear", "probe", "save", "saving", "open", "enter",
           "fetch", "receive", "copy", "read", "entries"}

\* What End does to the place of a process.
LEMMA EndBase ==
  ASSUME Base, NEW c \in Clients, NEW how, End(c, how)
  PROVE  pc' \in [Clients -> Places] /\ DOMAIN result' = Clients
  BY DEF End, Goto, Base, TypeOK, Shape, Places

LEMMA BeginBase ==
  ASSUME Base, NEW c \in Clients, NEW a, NEW where \in Places, Begin(c, a, where), UNCHANGED menu
  PROVE  Base'
  <1>1. pc' \in [Clients -> Places] /\ menu' \in [Clients -> BOOLEAN]
    BY DEF Begin, Goto, Base, TypeOK, Places
  <1>2. alone' \in [Clients -> BOOLEAN] /\ orderly' \in BOOLEAN
    BY DEF Begin
  <1>3. begun' \in 0..MaxCommands
    BY DEF Begin, Base, TypeOK
  <1>4. list' \in [Clients -> Seq(Hellos)]
    BY DEF Begin, Base, TypeOK, diskVars
  <1>5. mem' \in [Clients -> Archives \cup saved \cup {None}]
    BY DEF Begin, Base, TypeOK
  <1>6. Shape'
    BY DEF Begin, Base, Shape
  <1> QED BY <1>1, <1>2, <1>3, <1>4, <1>5, <1>6 DEF Begin, Base, TypeOK, diskVars, Places

LEMMA InitBase ==
  ASSUME Init
  PROVE  Base
  BY DEF Init, Base, TypeOK, Shape

LEMMA FindingBase ==
  ASSUME Base, NEW c \in Clients,
         Bind(c) \/ Hear(c) \/ Heard(c) \/ Probe(c) \/ Save(c) \/ SaveWrite(c)
  PROVE  Base'
  <1> USE DEF restOfFinding
  <1>1. pc' \in [Clients -> Places]
    BY DEF Bind, Hear, Heard, Probe, Save, SaveWrite, End, Goto, Base, TypeOK, Places
  <1>2. DOMAIN result' = Clients
    BY DEF Bind, Hear, Heard, Probe, Save, SaveWrite, End, Base, Shape
  <1>3. \A h \in Hellos : DbAdd(list[c], h) \in Seq(Hellos) /\ DbAdd(db, h) \in Seq(Hellos)
    BY DbAddType DEF Base, TypeOK
  <1>4. list' \in [Clients -> Seq(Hellos)]
    <2>1. \A l \in Seq(Hellos) : [list EXCEPT ![c] = l] \in [Clients -> Seq(Hellos)]
      BY DEF Base, TypeOK
    <2>2. <<>> \in Seq(Hellos)
      OBVIOUS
    <2>3. CASE Bind(c)
      BY <2>1, <2>2, <2>3 DEF Bind, Base, TypeOK
    <2>4. CASE Hear(c)
      BY <1>3, <2>1, <2>4 DEF Hear
    <2>5. CASE Probe(c)
      BY <1>3, <2>1, <2>5 DEF Probe, Base, TypeOK
    <2>6. CASE Heard(c) \/ Save(c) \/ SaveWrite(c)
      BY <2>6 DEF Heard, Save, SaveWrite, Base, TypeOK
    <2> QED BY <2>3, <2>4, <2>5, <2>6
  <1>5. db' \in Seq(Hellos)
    <2>1. CASE Save(c)
      <3>1. <<>> \in Seq(Hellos) /\ db \in Seq(Hellos)
        BY DEF Base, TypeOK
      <3> QED BY <2>1, <3>1 DEF Save
    <2>2. CASE SaveWrite(c)
      <3>1. list[c] \in Seq(Hellos) /\ db \in Seq(Hellos)
        BY DEF Base, TypeOK
      <3>2. list[c] \o SubSeq(db, Len(list[c]) + 1, Len(db)) \in Seq(Hellos)
        BY <3>1, WrittenOver
      <3> HIDE DEF restOfFinding
      <3> QED BY <2>2, <3>1, <3>2 DEF SaveWrite
    <2>3. CASE Bind(c) \/ Hear(c) \/ Heard(c) \/ Probe(c)
      BY <2>3 DEF Bind, Hear, Heard, Probe, Base, TypeOK
    <2> QED BY <2>1, <2>2, <2>3
  <1>6. UNCHANGED restOfFinding
    BY DEF Bind, Hear, Heard, Probe, Save, SaveWrite
  <1>7. Shape'
    BY <1>2, <1>6 DEF Base, Shape, history
  <1> QED BY <1>1, <1>4, <1>5, <1>6, <1>7 DEF Base, TypeOK, Places, history

\* The steps that fetch, read and unpack an archive.
Fetching(c) == Ask(c) \/ Enter(c) \/ Open(c) \/ Receive(c) \/ CopyDownload(c)
               \/ Read(c) \/ Entry(c) \/ Finish(c)

LEMMA FetchingBase ==
  ASSUME Base, NEW c \in Clients, Fetching(c)
  PROVE  Base'
  <1> USE DEF restOfFetching, restOfReading
  <1>1. pc' \in [Clients -> Places]
    BY DEF Fetching, Ask, Enter, Open, Receive, CopyDownload, Read, Entry, Finish, End, Goto,
           Base, TypeOK, Places
  <1>2. DOMAIN result' = Clients /\ DOMAIN verified' = Clients /\ DOMAIN wrote' = Clients
        /\ DOMAIN pos' = Clients /\ DOMAIN forced' = Clients
        /\ DOMAIN missed' = Clients /\ DOMAIN lost' = Clients
    BY DEF Fetching, Ask, Enter, Open, Receive, CopyDownload, Read, Entry, Finish, End, Base, Shape,
           Forget, DropStage, Loses
  <1>3. stage' \in Stages
    <2>1. CASE Open(c)
      BY <2>1 DEF Open, Base, TypeOK, Stages
    <2>2. CASE Receive(c)
      BY <2>2 DEF Receive, DropStage, CutOff, Base, TypeOK, Stages
    <2>3. CASE CopyDownload(c) \/ Finish(c)
      BY <2>3 DEF CopyDownload, Finish, DropStage, Base, TypeOK, Stages
    <2>4. CASE Ask(c) \/ Enter(c) \/ Read(c) \/ Entry(c)
      BY <2>4 DEF Ask, Enter, Read, Entry, Base, TypeOK, Stages
    <2> QED BY <2>1, <2>2, <2>3, <2>4 DEF Fetching
  <1>4. /\ saved \subseteq saved' /\ mem' \in [Clients -> Archives \cup saved' \cup {None}]
        /\ saved' \subseteq Archives \cup {Mixed} \cup {PartOf(d) : d \in Clients}
    <2>1. CASE CopyDownload(c)
      BY <2>1 DEF CopyDownload, Base, TypeOK
    <2>2. CASE Read(c)
      BY <2>2 DEF Read, Known, Base, TypeOK
    <2>3. CASE Ask(c) \/ Enter(c) \/ Open(c) \/ Receive(c) \/ Entry(c) \/ Finish(c)
      BY <2>3 DEF Ask, Enter, Open, Receive, Entry, Finish, Base, TypeOK
    <2> QED BY <2>1, <2>2, <2>3 DEF Fetching
  <1>5. UNCHANGED <<db, menu, list, arg, begun, alone, orderly>>
    BY DEF Fetching, Ask, Enter, Open, Receive, CopyDownload, Read, Entry, Finish
  <1>6. Shape'
    BY <1>2, <1>5 DEF Base, Shape
  <1> QED BY <1>1, <1>3, <1>4, <1>5, <1>6 DEF Base, TypeOK, Places, Stages

Beginnings == {"bind", "probe", "open", "enter"}

\* Every command begins in the same way.
LEMMA CommandBegins ==
  ASSUME NEW c \in Clients, Command(c)
  PROVE  UNCHANGED menu /\ \E a, where : where \in Beginnings /\ Begin(c, a, where)
  <1>1. CASE Scan(c)
    BY <1>1 DEF Scan, Command, Beginnings
  <1>2. CASE Begin(c, [NoArg EXCEPT !.kind = "add"], "probe")
    BY <1>2 DEF Command, Beginnings
  <1>3. CASE \E k \in Commands \cap {"ask", "install", "download"}, p \in Packages :
               Begin(c, [kind |-> k, package |-> p], IF menu[c] THEN "enter" ELSE "open")
    <2>1. PICK k \in Commands, p \in Packages :
            Begin(c, [kind |-> k, package |-> p], IF menu[c] THEN "enter" ELSE "open")
      BY <1>3
    <2>2. (IF menu[c] THEN "enter" ELSE "open") \in Beginnings
      BY DEF Beginnings
    <2> QED BY <2>1, <2>2 DEF Command
  <1> QED BY <1>1, <1>2, <1>3 DEF Command

LEMMA CommandBase ==
  ASSUME Base, NEW c \in Clients, Command(c)
  PROVE  Base'
  <1>1. PICK a, where : where \in Beginnings /\ Begin(c, a, where)
    BY CommandBegins
  <1>2. UNCHANGED menu /\ where \in Places
    BY <1>1, CommandBegins DEF Beginnings, Places
  <1> QED BY <1>1, <1>2, BeginBase

LEMMA MenuBase ==
  ASSUME Base, NEW c \in Clients, OpenMenu(c) \/ Quit(c) \/ Kill(c)
  PROVE  Base'
  <1>1. pc' \in [Clients -> Places] /\ menu' \in [Clients -> BOOLEAN]
    BY DEF OpenMenu, Quit, Kill, Goto, Base, TypeOK, Places
  <1>2. list' \in [Clients -> Seq(Hellos)]
    BY DEF OpenMenu, Quit, Kill, Base, TypeOK
  <1>3. DOMAIN result' = Clients
    BY DEF OpenMenu, Quit, Kill, Base, Shape
  <1>4. /\ UNCHANGED <<diskVars, arg, mem, pos, begun, forced, verified, lost, orderly, alone>>
        /\ DOMAIN wrote' = Clients /\ DOMAIN missed' = Clients
    BY DEF OpenMenu, Quit, Kill, Forget, history, Base, Shape
  <1> QED BY <1>1, <1>2, <1>3, <1>4 DEF Base, TypeOK, Shape, Places, diskVars

LEMMA NextBase ==
  ASSUME Base, [Next]_vars
  PROVE  Base'
  <1>1. CASE UNCHANGED vars
    BY <1>1 DEF vars, diskVars, history, Base, TypeOK, Shape
  <1>2. CASE Next
    <2>1. PICK c \in Clients :
            Command(c) \/ OpenMenu(c) \/ Quit(c) \/ Hear(c) \/ Step(c) \/ Kill(c)
      BY <1>2 DEF Next
    <2> QED BY <2>1, CommandBase, MenuBase, FindingBase, FetchingBase DEF Step, Fetching
  <1> QED BY <1>1, <1>2

\* Spec => []TypeOK: every process is at one of its places, with an archive
\* that a server may have sent or another process has saved.
THEOREM TypeCorrect == Spec => []TypeOK
  <1>1. Spec => []Base
    BY InitBase, NextBase, PTL DEF Spec
  <1>2. Base => TypeOK
    BY DEF Base
  <1> QED BY <1>1, <1>2, PTL

-----------------------------------------------------------------------------
(* Nothing of an archive is written that has not been looked through.      *)

\* What one process does leaves the others' part as it is.
Apart(c) ==
    \A d \in Clients \ {c} :
        /\ pc'[d] = pc[d] /\ wrote'[d] = wrote[d] /\ missed'[d] = missed[d]
        /\ mem'[d] = mem[d] /\ forced'[d] = forced[d] /\ lost'[d] = lost[d]

LEMMA StepsApart ==
  ASSUME Base, NEW c \in Clients,
         Command(c) \/ OpenMenu(c) \/ Quit(c) \/ Hear(c) \/ Step(c) \/ Kill(c)
  PROVE  Apart(c)
  <1> USE DEF Base, TypeOK, Shape, Apart, Forget, DropStage, Loses
  <1>1. CASE Command(c)
    <2>1. PICK a, where : where \in Beginnings /\ Begin(c, a, where)
      BY <1>1, CommandBegins
    <2> QED BY <2>1 DEF Begin, Goto
  <1>2. CASE OpenMenu(c) \/ Quit(c) \/ Kill(c)
    BY <1>2 DEF OpenMenu, Quit, Kill, Goto, history
  <1>3. CASE Hear(c) \/ Bind(c) \/ Heard(c) \/ Probe(c) \/ Save(c) \/ SaveWrite(c)
    BY <1>3 DEF Hear, Bind, Heard, Probe, Save, SaveWrite, End, Goto, restOfFinding, history
  <1>4. CASE Ask(c) \/ Enter(c) \/ Open(c) \/ Receive(c)
    BY <1>4 DEF Ask, Enter, Open, Receive, End, Goto, restOfFetching
  <1>5. CASE CopyDownload(c) \/ Entry(c)
    BY <1>5 DEF CopyDownload, Entry, End, Goto, restOfFetching
  <1>6. CASE Read(c)
    BY <1>6 DEF Read, End, Goto, restOfReading
  <1>7. CASE Finish(c)
    BY <1>7 DEF Finish, End, Goto
  <1> QED BY <1>1, <1>2, <1>3, <1>4, <1>5, <1>6, <1>7 DEF Step

Own(c) ==
    /\ pc[c] # "entries" => wrote[c] = {} /\ missed[c] = {}
    /\ pc[c] = "entries" => Installable(mem[c], forced[c])

LEMMA OwnStep ==
  ASSUME Base, NEW c \in Clients, Own(c),
         Command(c) \/ OpenMenu(c) \/ Quit(c) \/ Hear(c) \/ Step(c) \/ Kill(c)
  PROVE  Own(c)'
  <1> USE DEF Base, TypeOK, Shape, Own, Busy, Forget
  <1>1. CASE Command(c)
    <2>1. PICK a, where : where \in Beginnings /\ Begin(c, a, where)
      BY <1>1, CommandBegins
    <2>2. wrote'[c] = {} /\ missed'[c] = {} /\ pc'[c] # "entries"
      BY <2>1 DEF Begin, Goto, Beginnings
    <2> QED BY <2>2
  <1>2. CASE OpenMenu(c) \/ Quit(c) \/ Kill(c)
    BY <1>2 DEF OpenMenu, Quit, Kill, Goto, history
  <1>3. CASE Hear(c) \/ Bind(c) \/ Heard(c) \/ Probe(c) \/ Save(c) \/ SaveWrite(c)
    BY <1>3 DEF Hear, Bind, Heard, Probe, Save, SaveWrite, End, Goto, restOfFinding, history
  <1>4. CASE Ask(c) \/ Enter(c) \/ Open(c) \/ Receive(c)
    BY <1>4 DEF Ask, Enter, Opening, Open, Receive, End, Goto, restOfFetching
  <1>5. CASE CopyDownload(c)
    BY <1>5 DEF CopyDownload, End, Goto, restOfFetching
  <1>6. CASE Entry(c)
    BY <1>6 DEF Entry, End, Goto, restOfFetching
  <1>7. CASE Read(c)
    <2>1. wrote'[c] = {} /\ missed'[c] = {}
      BY <1>7 DEF Read
    <2>2. pc'[c] = "entries" => Installable(mem'[c], forced'[c])
      BY <1>7, ZenonT(60) DEF Read, End, Goto, Installable
    <2> QED BY <2>1, <2>2
  <1>8. CASE Finish(c)
    BY <1>8, ZenonT(60) DEF Finish, End, Goto
  <1> QED BY <1>1, <1>2, <1>3, <1>4, <1>5, <1>6, <1>7, <1>8 DEF Step

LEMMA LookedThroughStep ==
  ASSUME Base, LookedThrough, [Next]_vars
  PROVE  LookedThrough'
  <1> SUFFICES ASSUME NEW d \in Clients PROVE Own(d)'
    BY DEF LookedThrough, Own
  <1>1. Own(d)
    BY DEF LookedThrough, Own
  <1>2. CASE UNCHANGED vars
    BY <1>1, <1>2 DEF vars, history, Own, Busy
  <1>3. CASE Next
    <2>1. PICK c \in Clients :
            Command(c) \/ OpenMenu(c) \/ Quit(c) \/ Hear(c) \/ Step(c) \/ Kill(c)
      BY <1>3 DEF Next
    <2>2. CASE d = c
      BY <1>1, <2>1, <2>2, OwnStep
    <2>3. CASE d # c
      <3>1. Apart(c)
        BY <2>1, StepsApart
      <3> QED BY <1>1, <2>3, <3>1 DEF Apart, Own, Busy
    <2> QED BY <2>2, <2>3
  <1> QED BY <1>2, <1>3

\* Spec => []RefusedWritesNothing: whoever else runs, and whatever fails, a
\* command writes files only of an archive that dlr_client_install has read
\* to its end and found to have a manifest and to be for here, or forced.
THEOREM RefusalsWriteNothing == Spec => []RefusedWritesNothing
  <1>1. Init => LookedThrough
    BY DEF Init, LookedThrough, Busy
  <1>2. Spec => [](Base /\ LookedThrough)
    BY <1>1, InitBase, NextBase, LookedThroughStep, PTL DEF Spec
  <1>3. LookedThrough => RefusedWritesNothing
    BY DEF LookedThrough, RefusedWritesNothing, Installable, Manifest
  <1> QED BY <1>2, <1>3, PTL

-----------------------------------------------------------------------------
(* The staging file of a command that runs alone.                          *)

\* Whoever does anything but begin, open the menu or leave it was busy.
Working(c) ==
    Hear(c) \/ Bind(c) \/ Heard(c) \/ Probe(c) \/ Save(c) \/ SaveWrite(c) \/ Fetching(c) \/ Kill(c)

LEMMA WorkingIsBusy ==
  ASSUME NEW c \in Clients, Working(c)
  PROVE  Busy(c) /\ alone' = alone /\ orderly' = orderly
  <1>1. CASE Hear(c) \/ Bind(c) \/ Heard(c) \/ Probe(c) \/ Save(c) \/ SaveWrite(c)
    BY <1>1 DEF Hear, Bind, Heard, Probe, Save, SaveWrite, restOfFinding, history, Busy
  <1>2. CASE Fetching(c)
    BY <1>2 DEF Fetching, Ask, Enter, Opening, Open, Receive, CopyDownload, Read, Entry, Finish,
                restOfFetching, restOfReading, Busy
  <1>3. CASE Kill(c)
    BY <1>3 DEF Kill, history
  <1> QED BY <1>1, <1>2, <1>3 DEF Working

OwnStage(c) ==
    /\ pc[c] = "receive" => stage = PartOf(c)
    /\ pc[c] \in {"read", "copy"} /\ "stage" \notin lost[c] => stage = verified[c]
    /\ Busy(c) /\ pc[c] # "entries" => mem[c] = None
    /\ mem[c] # None /\ "stage" \notin lost[c] => mem[c] = verified[c]

\* A step of a command whose staging file is its own leaves it so.
LEMMA WorkingAlone ==
  ASSUME Base, NEW c \in Clients, Working(c), OwnStage(c)
  PROVE  OwnStage(c)'
  <1> USE DEF Base, TypeOK, Shape, OwnStage, Busy
  <1>1. CASE Hear(c) \/ Bind(c) \/ Heard(c) \/ Probe(c) \/ Save(c) \/ SaveWrite(c)
    <2>1. UNCHANGED <<stage, mem, verified>>
      BY <1>1 DEF Hear, Bind, Heard, Probe, Save, SaveWrite, restOfFinding, history
    <2>2. Busy(c) /\ pc[c] # "entries"
      BY <1>1 DEF Hear, Bind, Heard, Probe, Save, SaveWrite
    <2>3. pc'[c] \notin {"receive", "read", "copy"}
      BY <1>1 DEF Hear, Bind, Heard, Probe, Save, SaveWrite, End, Goto
    <2> QED BY <2>1, <2>2, <2>3
  <1>2. CASE Ask(c) \/ Enter(c)
    BY <1>2 DEF Ask, Enter, End, Goto, restOfFetching
  <1>3. CASE Open(c)
    BY <1>3 DEF Opening, Open, End, Goto, restOfFetching
  <1>4. CASE Receive(c)
    <2>1. mem' = mem /\ mem[c] = None
      BY <1>4 DEF Receive, Busy
    <2>2. CASE End(c, "failed") /\ UNCHANGED verified
      <3>1. pc'[c] \notin {"receive", "read", "copy"}
        BY <2>2 DEF End, Goto
      <3> QED BY <2>1, <2>2, <3>1
    <2>3. CASE \E a \in Archives :
                 /\ \/ /\ stage' = CASE stage = PartOf(c) -> a
                                     [] stage = None -> None
                                     [] OTHER -> Mixed
                       /\ UNCHANGED lost
                    \/ Loses(c, "stage")
                 /\ verified' = [verified EXCEPT ![c] = a]
                 /\ Goto(c, IF arg[c].kind = "install" THEN "read" ELSE "copy")
      <3>1. stage = PartOf(c)
        BY <1>4 DEF Receive
      <3>2. PICK a \in Archives :
              /\ \/ /\ stage' = CASE stage = PartOf(c) -> a
                                  [] stage = None -> None
                                  [] OTHER -> Mixed
                    /\ UNCHANGED lost
                 \/ Loses(c, "stage")
              /\ verified' = [verified EXCEPT ![c] = a]
              /\ Goto(c, IF arg[c].kind = "install" THEN "read" ELSE "copy")
        BY <2>3
      <3>3. verified'[c] = a /\ pc'[c] \in {"read", "copy"}
        BY <3>2 DEF Goto
      <3>4. "stage" \notin lost'[c] => stage' = a
        BY <3>1, <3>2, NoneAssumption DEF Loses
      <3> QED BY <2>1, <3>3, <3>4
    <2> QED BY <1>4, <2>2, <2>3 DEF Receive
  <1>5. CASE CopyDownload(c)
    <2>1. pc'[c] \notin {"receive", "read", "copy"} /\ ~Busy(c)'
      BY <1>5 DEF CopyDownload, End, Goto
    <2>2. "stage" \notin lost'[c] => "stage" \notin lost[c]
      BY <1>5 DEF CopyDownload, DropStage, Loses
    <2>3. verified' = verified /\ (mem' = mem \/ mem' = [mem EXCEPT ![c] = stage])
      BY <1>5 DEF CopyDownload
    <2>4. pc[c] = "copy"
      BY <1>5 DEF CopyDownload
    <2> QED BY <2>1, <2>2, <2>3, <2>4
  <1>6. CASE Entry(c)
    BY <1>6 DEF Entry, End, Goto, restOfFetching
  <1>7. CASE Read(c)
    BY <1>7 DEF Read, End, Goto
  <1>8. CASE Finish(c)
    <2>1. pc'[c] \notin {"receive", "read", "copy"} /\ ~Busy(c)'
      BY <1>8, ZenonT(60) DEF Finish, End, Goto
    <2>2. "stage" \notin lost'[c] => "stage" \notin lost[c]
      BY <1>8 DEF Finish, DropStage, Loses
    <2> QED BY <1>8, <2>1, <2>2 DEF Finish
  <1>9. CASE Kill(c)
    BY <1>9 DEF Kill, Goto, diskVars, history
  <1> QED BY <1>1, <1>2, <1>3, <1>4, <1>5, <1>6, <1>7, <1>8, <1>9 DEF Working, Fetching

\* A command that is alone has been the only one busy since it began.
AloneStage(c) ==
    alone[c] => (Busy(c) => \A d \in Clients : Busy(d) => d = c) /\ OwnStage(c)

\* A process that works, and another one that looks on.
LEMMA OnlookerStage ==
  ASSUME Base, NEW c \in Clients, NEW d \in Clients, d # c, Working(c), AloneStage(d)
  PROVE  AloneStage(d)'
  <1> SUFFICES ASSUME alone'[d]
               PROVE  (Busy(d) => \A e \in Clients : Busy(e) => e = d)' /\ OwnStage(d)'
    BY DEF AloneStage
  <1>1. Busy(c) /\ alone[d]
    BY WorkingIsBusy
  <1>2. ~Busy(d) /\ OwnStage(d)
    BY <1>1 DEF AloneStage
  <1>3. Apart(c) /\ verified'[d] = verified[d]
    <2>1. Apart(c)
      BY StepsApart DEF Working, Fetching, Step
    <2>2. verified'[d] = verified[d]
      <3>1. CASE Hear(c) \/ Bind(c) \/ Heard(c) \/ Probe(c) \/ Save(c) \/ SaveWrite(c)
        BY <3>1 DEF Hear, Bind, Heard, Probe, Save, SaveWrite, restOfFinding, history
      <3>2. CASE Fetching(c)
        BY <3>2 DEF Fetching, Ask, Enter, Open, Receive, CopyDownload, Read, Entry, Finish,
                    Base, Shape
      <3>3. CASE Kill(c)
        BY <3>3 DEF Kill, history
      <3> QED BY <3>1, <3>2, <3>3 DEF Working
    <2> QED BY <2>1, <2>2
  <1>4. ~Busy(d)'
    BY <1>2, <1>3 DEF Apart, Busy
  <1> QED BY <1>2, <1>3, <1>4 DEF Apart, OwnStage, Busy

LEMMA WorkerStage ==
  ASSUME Base, NEW c \in Clients, Working(c), AloneStage(c)
  PROVE  AloneStage(c)'
  <1> SUFFICES ASSUME alone'[c]
               PROVE  (Busy(c) => \A e \in Clients : Busy(e) => e = c)' /\ OwnStage(c)'
    BY DEF AloneStage
  <1>1. alone[c] /\ Busy(c)
    BY WorkingIsBusy
  <1>2. OwnStage(c)'
    BY <1>1, WorkingAlone DEF AloneStage
  <1>3. Apart(c)
    BY StepsApart DEF Working, Fetching, Step
  <1> QED BY <1>1, <1>2, <1>3 DEF AloneStage, Apart, Busy

LEMMA BeginStage ==
  ASSUME Base, NEW c \in Clients, NEW d \in Clients, Command(c), AloneStage(d)
  PROVE  AloneStage(d)'
  <1>1. PICK a, where : where \in Beginnings /\ Begin(c, a, where)
    BY CommandBegins
  <1> SUFFICES ASSUME alone'[d]
               PROVE  (Busy(d) => \A e \in Clients : Busy(e) => e = d)' /\ OwnStage(d)'
    BY DEF AloneStage
  <1>2. pc' = [pc EXCEPT ![c] = where] /\ mem' = [mem EXCEPT ![c] = None]
        /\ verified' = [verified EXCEPT ![c] = None] /\ stage' = stage
        /\ lost' = [lost EXCEPT ![c] = {}]
    BY <1>1 DEF Begin, Goto, diskVars
  <1>3. alone'[d] = IF d = c THEN \A e \in Clients \ {c} : ~Busy(e) ELSE alone[d] /\ ~Busy(d)
    BY <1>1 DEF Begin
  <1>4. CASE d = c
    BY <1>1, <1>2, <1>3, <1>4 DEF OwnStage, Busy, Beginnings, Base, TypeOK
  <1>5. CASE d # c
    <2>1. alone[d] /\ ~Busy(d)
      BY <1>3, <1>5
    <2>2. ~Busy(d)' /\ pc'[d] = pc[d] /\ mem'[d] = mem[d] /\ verified'[d] = verified[d]
          /\ lost'[d] = lost[d]
      BY <1>2, <1>5, <2>1 DEF Busy, Base, TypeOK, Shape
    <2> QED BY <1>2, <2>1, <2>2 DEF AloneStage, OwnStage, Busy
  <1> QED BY <1>4, <1>5

LEMMA MenuStage ==
  ASSUME Base, NEW c \in Clients, NEW d \in Clients, OpenMenu(c) \/ Quit(c), AloneStage(d)
  PROVE  AloneStage(d)'
  <1>1. UNCHANGED <<stage, mem, verified, lost, alone>>
    BY DEF OpenMenu, Quit, diskVars, history
  <1>2. \A e \in Clients : (Busy(e)' <=> Busy(e)) /\ (Busy(e) => pc'[e] = pc[e])
                           /\ pc'[e] \in {pc[e], "menu", "idle"}
    BY DEF OpenMenu, Quit, Goto, Busy, Base, TypeOK
  <1> QED BY <1>1, <1>2 DEF AloneStage, OwnStage, Busy

LEMMA StageIsOwnStep ==
  ASSUME Base, StageIsOwn, [Next]_vars
  PROVE  StageIsOwn'
  <1> SUFFICES ASSUME NEW d \in Clients PROVE AloneStage(d)'
    BY DEF StageIsOwn, AloneStage, OwnStage
  <1>1. AloneStage(d)
    BY DEF StageIsOwn, AloneStage, OwnStage
  <1>2. CASE UNCHANGED vars
    BY <1>1, <1>2 DEF vars, history, diskVars, AloneStage, OwnStage, Busy
  <1>3. CASE Next
    <2>1. PICK c \in Clients :
            Command(c) \/ OpenMenu(c) \/ Quit(c) \/ Hear(c) \/ Step(c) \/ Kill(c)
      BY <1>3 DEF Next
    <2>2. CASE Working(c)
      BY <1>1, <2>2, OnlookerStage, WorkerStage
    <2> QED BY <1>1, <2>1, <2>2, BeginStage, MenuStage DEF Step, Working, Fetching
  <1> QED BY <1>2, <1>3

\* Spec => []UndisturbedIsVerified: what a command installs or saves is the
\* archive whose SHA-256 dlr_download has checked, if no other process was in
\* a command at the time, whatever was left by those before it.
THEOREM UndisturbedInstallsVerified == Spec => []UndisturbedIsVerified
  <1>1. Init => StageIsOwn
    BY DEF Init, StageIsOwn, Busy
  <1>2. Spec => [](Base /\ StageIsOwn)
    BY <1>1, InitBase, NextBase, StageIsOwnStep, PTL DEF Spec
  <1>3. StageIsOwn => UndisturbedIsVerified
    BY DEF StageIsOwn, UndisturbedIsVerified
  <1> QED BY <1>2, <1>3, PTL

-----------------------------------------------------------------------------
(* The saved list.                                                         *)

OneByOne == \A c, d \in Clients : Busy(c) /\ Busy(d) => c = d

LEMMA FindingTwinless ==
  ASSUME Base, NEW c \in Clients, orderly, ListsAreTwinless,
         Hear(c) \/ Bind(c) \/ Heard(c) \/ Probe(c) \/ Save(c) \/ SaveWrite(c)
  PROVE  /\ Twinless(db') /\ \A d \in Clients : Twinless(list'[d])
         /\ \A d \in Clients : pc'[d] = "saving" => db' = <<>>
  <1> USE DEF Base, TypeOK
  <1>1. Busy(c) /\ \A d \in Clients : d # c => pc[d] # "saving" /\ pc'[d] = pc[d]
    <2>1. Working(c) /\ Apart(c)
      BY StepsApart DEF Working, Step
    <2> QED BY <2>1, WorkingIsBusy DEF ListsAreTwinless, Apart, Busy
  <1>2. Twinless(<<>>)
    BY DEF Twinless
  <1>3. CASE Bind(c) \/ Hear(c) \/ Heard(c) \/ Probe(c)
    <2>1. db' = db /\ pc'[c] # "saving"
      BY <1>3 DEF Bind, Hear, Heard, Probe, End, Goto
    <2>2. \A h \in Hellos : Twinless(DbAdd(list[c], h)) /\ Twinless(DbAdd(db, h))
      BY DbAddTwinless DEF ListsAreTwinless
    <2>3. \A d \in Clients : Twinless(list'[d])
      <3>1. list' = list \/ \E l : Twinless(l) /\ list' = [list EXCEPT ![c] = l]
        BY <1>2, <1>3, <2>2 DEF Bind, Hear, Heard, Probe
      <3> QED BY <3>1 DEF ListsAreTwinless
    <2> QED BY <1>1, <2>1, <2>3 DEF ListsAreTwinless
  <1>4. CASE Save(c)
    <2>1. list' = list /\ (db' = <<>> \/ (db' = db /\ pc'[c] # "saving"))
      BY <1>4 DEF Save, End, Goto
    <2> QED BY <1>1, <1>2, <2>1 DEF ListsAreTwinless
  <1>5. CASE SaveWrite(c)
    <2>1. list' = list /\ pc'[c] # "saving" /\ db = <<>>
      BY <1>5 DEF SaveWrite, End, Goto, ListsAreTwinless
    <2>2. db' = db \/ db' = list[c]
      <3>1. list[c] \in Seq(Hellos) /\ db \in Seq(Hellos)
        OBVIOUS
      <3>2. list[c] \o SubSeq(db, Len(list[c]) + 1, Len(db)) = list[c]
        BY <2>1, <3>1, WrittenOver
      <3> QED BY <1>5, <3>2 DEF SaveWrite
    <2> QED BY <1>1, <2>1, <2>2 DEF ListsAreTwinless
  <1> QED BY <1>3, <1>4, <1>5

LEMMA ListsAreTwinlessStep ==
  ASSUME Base, ListsAreTwinless, [Next]_vars
  PROVE  ListsAreTwinless'
  <1> SUFFICES ASSUME orderly'
               PROVE  /\ OneByOne'
                      /\ Twinless(db') /\ \A d \in Clients : Twinless(list'[d])
                      /\ \A d \in Clients : pc'[d] = "saving" => db' = <<>>
    BY DEF ListsAreTwinless, OneByOne
  <1>1. CASE UNCHANGED vars
    BY <1>1 DEF vars, diskVars, history, ListsAreTwinless, OneByOne, Busy
  <1>2. ASSUME NEW c \in Clients, Command(c)
        PROVE  /\ OneByOne'
               /\ Twinless(db') /\ \A d \in Clients : Twinless(list'[d])
               /\ \A d \in Clients : pc'[d] = "saving" => db' = <<>>
    <2>1. PICK a, where : where \in Beginnings /\ Begin(c, a, where)
      BY <1>2, CommandBegins
    <2>2. orderly /\ (\A e \in Clients : ~Busy(e)) /\ pc' = [pc EXCEPT ![c] = where] /\ db' = db
      BY <2>1 DEF Begin, Goto, diskVars
    <2>3. \A e \in Clients : e # c => ~Busy(e)'
      BY <2>2 DEF Busy, Base, TypeOK
    <2>4. \A d \in Clients : Twinless(list'[d])
      BY <2>1, <2>2 DEF Begin, ListsAreTwinless, Base, TypeOK
    <2>5. \A d \in Clients : pc'[d] # "saving"
      BY <2>1, <2>2, <2>3 DEF Busy, Beginnings, Base, TypeOK
    <2> QED BY <2>2, <2>3, <2>4, <2>5 DEF OneByOne, ListsAreTwinless
  <1>3. ASSUME NEW c \in Clients, OpenMenu(c) \/ Quit(c)
        PROVE  /\ OneByOne'
               /\ Twinless(db') /\ \A d \in Clients : Twinless(list'[d])
               /\ \A d \in Clients : pc'[d] = "saving" => db' = <<>>
    <2>1. db' = db /\ orderly
      BY <1>3 DEF OpenMenu, Quit, diskVars, history
    <2>2. \A e \in Clients : (Busy(e)' <=> Busy(e)) /\ (pc'[e] = "saving" => pc[e] = "saving")
      BY <1>3 DEF OpenMenu, Quit, Goto, Busy, Base, TypeOK
    <2>3. \A d \in Clients : list'[d] = list[d] \/ list'[d] = db
      BY <1>3 DEF OpenMenu, Quit, Base, TypeOK
    <2> QED BY <2>1, <2>2, <2>3 DEF ListsAreTwinless, OneByOne
  <1>4. ASSUME NEW c \in Clients, Working(c)
        PROVE  /\ OneByOne'
               /\ Twinless(db') /\ \A d \in Clients : Twinless(list'[d])
               /\ \A d \in Clients : pc'[d] = "saving" => db' = <<>>
    <2>1. Busy(c) /\ orderly
      BY <1>4, WorkingIsBusy
    <2>2. Apart(c)
      BY <1>4, StepsApart DEF Working, Fetching, Step
    <2>3. OneByOne'
      BY <2>1, <2>2 DEF ListsAreTwinless, OneByOne, Apart, Busy
    <2>4. CASE Hear(c) \/ Bind(c) \/ Heard(c) \/ Probe(c) \/ Save(c) \/ SaveWrite(c)
      BY <2>1, <2>3, <2>4, FindingTwinless
    <2>5. CASE Fetching(c) \/ Kill(c)
      <3>1. db' = db /\ list' = list
        BY <2>5 DEF Fetching, Ask, Enter, Open, Receive, CopyDownload, Read, Entry, Finish, Kill,
                    restOfFetching, restOfReading, diskVars
      <3>2. pc'[c] # "saving"
        BY <2>5 DEF Fetching, Ask, Enter, Open, Receive, CopyDownload, Read, Entry, Finish, Kill,
                    End, Goto, Base, TypeOK
      <3> QED BY <2>1, <2>2, <2>3, <3>1, <3>2 DEF ListsAreTwinless, Apart
    <2> QED BY <1>4, <2>4, <2>5 DEF Working
  <1>5. CASE Next
    <2>1. PICK c \in Clients :
            Command(c) \/ OpenMenu(c) \/ Quit(c) \/ Hear(c) \/ Step(c) \/ Kill(c)
      BY <1>5 DEF Next
    <2> QED BY <2>1, <1>2, <1>3, <1>4 DEF Step, Working, Fetching
  <1> QED BY <1>1, <1>5

\* Spec => []NoTwins: dlr_db_add and dlr_db_save keep one line for each
\* address through scans, additions, failed writes and kills, as long as
\* commands follow one another.
THEOREM ListHasNoTwins == Spec => []NoTwins
  <1>1. Init => ListsAreTwinless
    BY DEF Init, ListsAreTwinless, Twinless, Busy
  <1>2. Spec => [](Base /\ ListsAreTwinless)
    BY <1>1, InitBase, NextBase, ListsAreTwinlessStep, PTL DEF Spec
  <1>3. ListsAreTwinless => NoTwins
    BY DEF ListsAreTwinless, NoTwins
  <1> QED BY <1>2, <1>3, PTL

-----------------------------------------------------------------------------
(* Names in an archive.                                                    *)

\* One component in front of a path, and its removal.
LEMMA Under ==
  ASSUME NEW S, NEW x \in S, NEW e \in Seq(S)
  PROVE  /\ <<x>> \o e \in Seq(S) /\ Len(<<x>> \o e) = Len(e) + 1
         /\ (<<x>> \o e)[1] = x /\ Tail(<<x>> \o e) = e
  <1> DEFINE n == <<x>> \o e
  <1>1. <<x>> \in Seq(S) /\ Len(<<x>>) = 1
    OBVIOUS
  <1>2. n \in Seq(S) /\ Len(n) = Len(e) + 1 /\ n[1] = x
        /\ \A i \in 1..Len(e) : n[i + 1] = e[i]
    BY <1>1
  <1> HIDE DEF n
  <1>3. Tail(n) \in Seq(S) /\ Len(Tail(n)) = Len(e)
        /\ \A i \in 1..Len(Tail(n)) : Tail(n)[i] = n[i + 1]
    BY <1>2
  <1>4. Tail(n) = e
    BY <1>2, <1>3, SeqEqual
  <1> QED BY <1>2, <1>4 DEF n

\* The same for two.
LEMMA UnderTwo ==
  ASSUME NEW S, NEW x \in S, NEW y \in S, NEW e \in Seq(S)
  PROVE  <<x, y>> \o e = <<x>> \o (<<y>> \o e)
  <1>1. <<x>> \in Seq(S) /\ <<y>> \in Seq(S) /\ <<x, y>> \in Seq(S)
        /\ Len(<<x>>) = 1 /\ Len(<<y>>) = 1 /\ Len(<<x, y>>) = 2
    OBVIOUS
  <1> DEFINE u == <<x>> \o <<y>>
  <1>2. u \in Seq(S) /\ Len(u) = 2 /\ u[1] = x /\ u[2] = y
    BY <1>1
  <1> HIDE DEF u
  <1>3. \A i \in 1..2 : u[i] = <<x, y>>[i]
    BY <1>2
  <1>4. u = <<x, y>>
    BY <1>1, <1>2, <1>3, SeqEqual
  <1>5. (<<x>> \o <<y>>) \o e = <<x>> \o (<<y>> \o e)
    BY <1>1, ConcatAssociative
  <1> QED BY <1>4, <1>5 DEF u

LEMMA HeadAndTail ==
  ASSUME NEW S, NEW n \in Seq(S), n # <<>>
  PROVE  /\ n[1] \in S /\ Tail(n) \in Seq(S) /\ Len(Tail(n)) = Len(n) - 1 /\ Len(n) >= 1
         /\ n = <<n[1]>> \o Tail(n)
  <1> DEFINE t == Tail(n)
             u == <<n[1]>> \o t
  <1>1. Len(n) \in Nat /\ Len(n) >= 1
    BY EmptySeq
  <1>2. n[1] \in S
    BY <1>1
  <1>3. t \in Seq(S) /\ Len(t) = Len(n) - 1 /\ \A i \in 1..Len(t) : t[i] = n[i + 1]
    BY HeadTailProperties
  <1> HIDE DEF t
  <1>4. u \in Seq(S) /\ Len(u) = Len(t) + 1 /\ u[1] = n[1] /\ Tail(u) = t
    BY <1>2, <1>3, Under
  <1> HIDE DEF u
  <1>5. u # <<>>
    BY <1>3, <1>4, <1>1
  <1>6. \A i \in 1..Len(t) : t[i] = u[i + 1]
    BY <1>4, <1>5, HeadTailProperties
  <1>7. \A i \in 1..Len(n) : u[i] = n[i]
    <2> SUFFICES ASSUME NEW i \in 1..Len(n) PROVE u[i] = n[i]
      OBVIOUS
    <2>1. CASE i = 1
      BY <1>4, <2>1
    <2>2. CASE i # 1
      <3>1. i - 1 \in 1..Len(t) /\ (i - 1) + 1 = i
        BY <1>1, <1>3, <2>2
      <3> QED BY <1>3, <1>6, <3>1
    <2> QED BY <2>1, <2>2
  <1>8. Len(u) = Len(n)
    BY <1>1, <1>3, <1>4
  <1>9. u = n
    BY <1>4, <1>7, <1>8, SeqEqual
  <1> QED BY <1>1, <1>2, <1>3, <1>9 DEF u, t

\* What canonical_rel returns is a path, and an end of the name.
LEMMA CanonicalIsEnd ==
  ASSUME NEW name \in Seq(STRING), name # <<>>, NEW requested, NEW pkg
  PROVE  /\ Canonical(name, requested, pkg) \in Seq(STRING)
         /\ Canonical(name, requested, pkg) # <<>>
         /\ Canonical(name, requested, pkg) \in Ends(name)
  <1> DEFINE L == Len(name)
             n == IF L > 1 /\ name[1] = "." THEN Tail(name) ELSE name
             e == IF Len(n) > 1 /\ n[1] \in {requested, pkg.name} THEN Tail(n) ELSE n
             From(k) == SubSeq(name, k, L)
  <1>1. Canonical(name, requested, pkg) = e
    BY DEF Canonical
  <1>2. L \in Nat /\ L >= 1
    BY EmptySeq
  <1>3. name = From(1)
    BY SubSeqFull
  <1>4. \A k \in 1..L : From(k) \in Seq(STRING) /\ Len(From(k)) = L - k + 1 /\ From(k) # <<>>
    <2> SUFFICES ASSUME NEW k \in 1..L
                 PROVE  From(k) \in Seq(STRING) /\ Len(From(k)) = L - k + 1 /\ From(k) # <<>>
      OBVIOUS
    <2>1. \A i \in k..L : name[i] \in STRING
      BY <1>2
    <2>2. From(k) \in Seq(STRING) /\ Len(From(k)) = L - k + 1
      BY <1>2, <2>1, SubSeqProperties
    <2>3. Len(From(k)) # 0
      BY <1>2, <2>2
    <2> QED BY <2>2, <2>3, EmptySeq
  <1>5. \A k \in 1..L : Tail(From(k)) = From(k + 1)
    BY <1>2, HeadTailOfSubSeq
  <1> HIDE DEF From, L
  <1>6. \E k \in 1..L : n = From(k)
    <2>1. CASE L > 1 /\ name[1] = "."
      BY <1>2, <1>3, <1>5, <2>1
    <2>2. CASE ~(L > 1 /\ name[1] = ".")
      BY <1>2, <1>3, <2>2
    <2> QED BY <2>1, <2>2
  <1> HIDE DEF n
  <1>7. PICK k \in 1..L : n = From(k)
    BY <1>6
  <1>8. \E j \in 1..L : e = From(j)
    <2>1. CASE e = n
      BY <1>7, <2>1
    <2>2. CASE Len(n) > 1 /\ e = Tail(n)
      <3>1. k + 1 \in 1..L
        BY <1>2, <1>4, <1>7, <2>2
      <3> QED BY <1>5, <1>7, <2>2, <3>1
    <2> QED BY <2>1, <2>2
  <1> HIDE DEF e
  <1>9. e \in Ends(name)
    BY <1>8 DEF Ends, From, L
  <1> QED BY <1>1, <1>4, <1>8, <1>9

\* A file that can only mean one thing is what is left of its name, wrapped or
\* not, and of no other.
LEMMA Unwrapping ==
  ASSUME NEW name \in Seq(STRING), name # <<>>, NEW e \in Seq(STRING), e # <<>>,
         NEW requested, NEW pkg, e[1] \notin {".", requested, pkg.name}
  PROVE  name \in Wrapped(e, {requested, pkg.name}) <=> Canonical(name, requested, pkg) = e
  <1> DEFINE W == {requested, pkg.name}
             n == IF Len(name) > 1 /\ name[1] = "." THEN Tail(name) ELSE name
             S == STRING \cup {"."} \cup W
  <1>1. Canonical(name, requested, pkg) = IF Len(n) > 1 /\ n[1] \in W THEN Tail(n) ELSE n
    BY DEF Canonical
  <1>2. Len(e) \in Nat /\ Len(e) >= 1 /\ Len(name) \in Nat /\ Len(name) >= 1
    BY EmptySeq
  <1>3. e \in Seq(S) /\ "." \in S
    <2>1. STRING \subseteq S /\ "." \in S
      OBVIOUS
    <2> HIDE DEF S
    <2> QED BY <2>1, SeqMonotonic
  <1>4. \A w \in W : w \in S
    OBVIOUS
  <1>5. e[1] # "." /\ e[1] \notin W
    OBVIOUS
  <1> HIDE DEF S, W
  <1>6. \A w \in W : LET u == <<w>> \o e IN
          /\ u \in Seq(S) /\ Len(u) = Len(e) + 1 /\ u[1] = w /\ Tail(u) = e
          /\ <<".", w>> \o e = <<".">> \o u
    <2> SUFFICES ASSUME NEW w \in W
                 PROVE  LET u == <<w>> \o e IN
                          /\ u \in Seq(S) /\ Len(u) = Len(e) + 1 /\ u[1] = w /\ Tail(u) = e
                          /\ <<".", w>> \o e = <<".">> \o u
      OBVIOUS
    <2>1. w \in S
      BY <1>4
    <2>2. <<".", w>> \o e = <<".">> \o (<<w>> \o e)
      <3>1. \A x, y \in S : <<x, y>> \o e = <<x>> \o (<<y>> \o e)
        BY <1>3, UnderTwo
      <3> QED BY <1>3, <2>1, <3>1
    <2> QED BY <1>3, <2>1, <2>2, Under
  <1>7. ASSUME name \in Wrapped(e, W) PROVE Canonical(name, requested, pkg) = e
    <2>1. CASE name = e
      BY <1>1, <1>5, <2>1
    <2>2. CASE name = <<".">> \o e
      <3>1. Len(name) = Len(e) + 1 /\ name[1] = "." /\ Tail(name) = e
        BY <1>3, <2>2, Under
      <3>2. n = e
        BY <1>2, <3>1
      <3> QED BY <1>1, <1>5, <3>2
    <2>3. ASSUME NEW w \in W, name = <<w>> \o e PROVE Canonical(name, requested, pkg) = e
      <3>1. Len(name) = Len(e) + 1 /\ name[1] = w /\ Tail(name) = e
        BY <1>6, <2>3
      <3>2. CASE w = "."
        <4>1. n = e
          BY <1>2, <3>1, <3>2
        <4> QED BY <1>1, <1>5, <4>1
      <3>3. CASE w # "."
        <4>1. n = name
          BY <3>1, <3>3
        <4>2. Len(name) > 1 /\ name[1] \in W
          BY <1>2, <3>1
        <4> QED BY <1>1, <3>1, <4>1, <4>2
      <3> QED BY <3>2, <3>3
    <2>4. ASSUME NEW w \in W, name = <<".", w>> \o e PROVE Canonical(name, requested, pkg) = e
      <3> DEFINE u == <<w>> \o e
      <3>1. u \in Seq(S) /\ Len(u) = Len(e) + 1 /\ u[1] = w /\ Tail(u) = e /\ name = <<".">> \o u
        BY <1>6, <2>4
      <3> HIDE DEF u
      <3>2. Len(name) = Len(u) + 1 /\ name[1] = "." /\ Tail(name) = u
        BY <1>3, <3>1, Under
      <3>3. n = u /\ Len(u) > 1 /\ u[1] \in W
        BY <1>2, <3>1, <3>2
      <3> HIDE DEF n
      <3> QED BY <1>1, <3>1, <3>3
    <2> QED BY <1>7, <2>1, <2>2, <2>3, <2>4 DEF Wrapped
  <1>8. ASSUME Canonical(name, requested, pkg) = e PROVE name \in Wrapped(e, W)
    <2>1. n \in Seq(STRING) /\ n # <<>> /\ (n = name \/ name = <<".">> \o n)
      <3>1. CASE Len(name) > 1 /\ name[1] = "."
        <4>1. /\ Tail(name) \in Seq(STRING) /\ Len(Tail(name)) = Len(name) - 1
              /\ name = <<name[1]>> \o Tail(name)
          BY HeadAndTail
        <4>2. Len(Tail(name)) # 0
          BY <1>2, <3>1, <4>1
        <4>3. Tail(name) # <<>>
          BY <4>2, EmptySeq
        <4> QED BY <3>1, <4>1, <4>3
      <3>2. CASE ~(Len(name) > 1 /\ name[1] = ".")
        BY <3>2
      <3> QED BY <3>1, <3>2
    <2> HIDE DEF n
    <2>2. n = e \/ (n[1] \in W /\ n = <<n[1]>> \o e)
      <3>1. n = <<n[1]>> \o Tail(n)
        BY <2>1, HeadAndTail
      <3> QED BY <1>1, <1>8, <3>1
    <2>3. CASE n = e
      BY <2>1, <2>3 DEF Wrapped
    <2>4. CASE n[1] \in W /\ n = <<n[1]>> \o e
      <3> DEFINE w == n[1]
      <3>1. w \in W /\ n = <<w>> \o e
        BY <2>4
      <3> HIDE DEF w
      <3>2. name = <<w>> \o e \/ name = <<".", w>> \o e
        BY <1>6, <2>1, <3>1
      <3>3. name \in {<<w>> \o e, <<".", w>> \o e}
        BY <3>2
      <3> QED BY <3>1, <3>3 DEF Wrapped
    <2> QED BY <2>2, <2>3, <2>4
  <1> QED BY <1>7, <1>8 DEF W

\* Two files in one place are one file of the package.
LEMMA SamePlace ==
  ASSUME NEW S, NEW t \in Seq(S), NEW x \in Seq(S), NEW y \in Seq(S), t \o x = t \o y
  PROVE  x = y
  <1>1. Len(t) \in Nat /\ Len(x) \in Nat /\ Len(y) \in Nat
    BY LenProperties
  <1>2. Len(t \o x) = Len(t) + Len(x) /\ Len(t \o y) = Len(t) + Len(y)
    BY ConcatProperties
  <1>3. Len(x) = Len(y)
    BY <1>1, <1>2
  <1>4. \A i \in 1..Len(x) : x[i] = y[i]
    <2> SUFFICES ASSUME NEW i \in 1..Len(x) PROVE x[i] = y[i]
      OBVIOUS
    <2>1. Len(t) + i \in 1..(Len(t) + Len(x)) /\ ~(Len(t) + i <= Len(t))
          /\ (Len(t) + i) - Len(t) = i
      BY <1>1
    <2>2. (t \o x)[Len(t) + i] = x[i]
      BY <2>1, ConcatProperties
    <2>3. (t \o y)[Len(t) + i] = y[i]
      BY <1>3, <2>1, ConcatProperties
    <2> QED BY <2>2, <2>3
  <1> QED BY <1>3, <1>4, SeqEqual

-----------------------------------------------------------------------------
(* What an installation that says it is done has put where.                *)

\* The calls of which the second pass makes files.
Wants(c) == {i \in DOMAIN Calls(c) : Wanted(Calls(c)[i], arg[c].package, Manifest(c))}

\* The last file of a place that has been dealt with and not left out is there.
Kept(c) ==
    \A i \in Wants(c) :
        /\ i <= pos[c] /\ i \notin missed[c]
        /\ \A k \in Wants(c) : i < k => FileAt(c, k).path # FileAt(c, i).path
        => FileAt(c, i) \in installed

\* A command begins with the first call, and has written only files that its
\* archive asks for.
Log(c) ==
    /\ Busy(c) /\ pc[c] # "entries" => pos[c] = 0
    /\ pc[c] = "entries" =>
        /\ mem[c] \in Archives /\ pos[c] \in Nat
        /\ \A w \in wrote[c] : w[1] \in Wants(c) /\ w[2] = FileAt(c, w[1])
        /\ alone[c] => Kept(c)

LogInv == \A c \in Clients : Log(c)

\* The positions in an archive are numbers.
LEMMA CallsAre ==
  ASSUME NEW a \in Archives
  PROVE  /\ Contents[a].calls = Extract(a).calls
         /\ Contents[a].manifest = ManifestOf(Contents[a].calls)
         /\ Len(Contents[a].calls) \in Nat
         /\ DOMAIN Contents[a].calls = 1..Len(Contents[a].calls)
         /\ \A i \in DOMAIN Contents[a].calls :
               Contents[a].calls[i].name \in Seq(STRING) /\ Contents[a].calls[i].name # <<>>
         /\ TargetOf(Contents[a].manifest) \in Seq(STRING)
  <1>1. Contents[a].calls = Extract(a).calls
        /\ Contents[a].manifest = ManifestOf(Extract(a).calls)
    BY DEF Contents
  <1> QED BY <1>1, ArchivesAssumption

\* The next file of an archive is written, cut, left out, or ends it.
LEMMA EntryLog ==
  ASSUME Base, NEW c \in Clients, Log(c), Entry(c)
  PROVE  Log(c)'
  <1> USE DEF Base, TypeOK, Shape
  <1>1. /\ pc[c] = "entries" /\ mem[c] \in Archives /\ pos[c] \in Nat /\ alone' = alone
        /\ \A w \in wrote[c] : w[1] \in Wants(c) /\ w[2] = FileAt(c, w[1])
        /\ alone[c] => Kept(c)
        /\ mem' = mem /\ arg' = arg
    BY DEF Entry, Log, restOfReading
  <1>2. /\ Wants(c)' = Wants(c) /\ (\A k : FileAt(c, k)' = FileAt(c, k))
    BY <1>1 DEF Wants, FileAt, Calls, Manifest
  <1> DEFINE File(k) == FileAt(c, k)
             W == Wants(c)
  <1>3. PICK i \in Todo(c) :
          /\ \A j \in Todo(c) : i <= j
          /\ \/ /\ pos' = [pos EXCEPT ![c] = i] /\ UNCHANGED pc
                /\ \/ /\ installed' = Put(File(i)) /\ UNCHANGED missed
                      /\ wrote' = [wrote EXCEPT ![c] = @ \cup {<<i, File(i)>>}]
                   \/ /\ installed' = Put([File(i) EXCEPT !.data = Cut])
                      /\ wrote' = [wrote EXCEPT ![c] = @ \cup {<<i, File(i)>>}]
                      /\ missed' = [missed EXCEPT ![c] = @ \cup {i}]
                   \/ /\ UNCHANGED <<installed, wrote>>
                      /\ missed' = [missed EXCEPT ![c] = @ \cup {i}]
             \/ End(c, "aborted")
    BY DEF Entry
  <1>4. W \subseteq Nat
    BY <1>1, CallsAre DEF Wants, Calls
  <1>5. i \in W /\ i > pos[c] /\ \A k \in W : k > pos[c] => i <= k
    BY <1>3 DEF Todo, Wants
  <1>6. CASE End(c, "aborted")
    BY <1>6 DEF End, Goto, Log, Busy
  <1>7. CASE pos' = [pos EXCEPT ![c] = i] /\ UNCHANGED pc
    <2>1. pos'[c] = i /\ pc'[c] = "entries"
      BY <1>1, <1>7
    <2>9. ~End(c, "aborted")
      BY <1>1, <2>1 DEF End, Goto
    <2>2. wrote'[c] \subseteq wrote[c] \cup {<<i, File(i)>>}
      BY <1>1, <1>3, <2>9
    <2>3. \A w \in wrote'[c] : w[1] \in W /\ w[2] = File(w[1])
      <3> SUFFICES ASSUME NEW w \in wrote'[c] PROVE w[1] \in W /\ w[2] = File(w[1])
        OBVIOUS
      <3>1. CASE w \in wrote[c]
        BY <1>1, <3>1
      <3>2. CASE w = <<i, File(i)>>
        <4>1. w[1] = i /\ w[2] = File(i)
          BY <3>2
        <4> QED BY <1>5, <4>1
      <3> QED BY <2>2, <3>1, <3>2
    <2>4. ASSUME Kept(c), NEW k \in W, k <= i, k \notin missed'[c],
                 \A j \in W : k < j => File(j).path # File(k).path
          PROVE  File(k) \in installed'
      <3>0. k \in Nat /\ i \in Nat
        BY <1>4, <1>5
      <3>1. CASE k = i
        <4>1. ~(i \in missed'[c])
          BY <2>4, <3>1
        <4>2. installed' = Put(File(i)) \/ missed' = [missed EXCEPT ![c] = @ \cup {i}]
              \/ End(c, "aborted")
          BY <1>3
        <4>3. installed' = Put(File(i))
          BY <4>1, <4>2, <2>1, <1>1 DEF End, Goto
        <4> QED BY <3>1, <4>3 DEF Put
      <3>2. CASE k # i
        <4>1. k <= pos[c] /\ k < i
          <5>1. k > pos[c] => i <= k
            BY <1>5, <2>4
          <5>2. pos[c] \in Nat
            BY <1>1
          <5> QED BY <2>4, <3>0, <3>2, <5>1, <5>2
        <4>2. File(i).path # File(k).path
          BY <1>5, <2>4, <4>1
        <4>3. missed[c] \subseteq missed'[c]
          BY <1>1, <1>3, <2>1 DEF End, Goto
        <4>4. File(k) \in installed
          BY <2>4, <4>1, <4>3 DEF Kept
        <4>5. [File(i) EXCEPT !.data = Cut].path = File(i).path
          BY DEF FileAt
        <4>6. installed' = installed \/ \E f : f.path = File(i).path /\ installed' = Put(f)
          BY <1>1, <1>3, <2>1, <4>5 DEF End, Goto
        <4> QED BY <4>2, <4>4, <4>6 DEF Put
      <3> QED BY <3>1, <3>2
    <2>5. alone'[c] => Kept(c)'
      <3> SUFFICES ASSUME Kept(c), NEW k \in Wants(c)', k <= pos'[c], k \notin missed'[c],
                          \A j \in Wants(c)' : k < j => FileAt(c, j)'.path # FileAt(c, k)'.path
                   PROVE  FileAt(c, k)' \in installed'
        BY <1>1 DEF Kept
      <3>1. k \in W /\ k <= i /\ FileAt(c, k)' = File(k)
        BY <1>1, <2>1 DEF Wants, FileAt, Calls, Manifest
      <3>2. ASSUME NEW j \in W, k < j PROVE File(j).path # File(k).path
        <4>1. FileAt(c, j)'.path # FileAt(c, k)'.path
          BY <1>2, <3>2
        <4> QED BY <1>1, <4>1 DEF FileAt, Calls, Manifest
      <3> QED BY <2>4, <3>1, <3>2
    <2> QED BY <1>1, <1>2, <1>5, <1>4, <2>1, <2>3, <2>5 DEF Log
  <1> QED BY <1>3, <1>6, <1>7

\* The other steps of a command, and its beginning.
LEMMA OwnLog ==
  ASSUME Base, LookedThrough, NEW c \in Clients, Log(c),
         Command(c) \/ OpenMenu(c) \/ Quit(c) \/ Hear(c) \/ Step(c) \/ Kill(c)
  PROVE  Log(c)'
  <1> USE DEF Base, TypeOK, Shape, Busy
  <1>1. CASE Command(c)
    <2>1. PICK a, where : where \in Beginnings /\ Begin(c, a, where)
      BY <1>1, CommandBegins
    <2>2. pos'[c] = 0 /\ pc'[c] # "entries"
      BY <2>1 DEF Begin, Goto, Beginnings
    <2> QED BY <2>2 DEF Log
  <1>2. CASE OpenMenu(c) \/ Quit(c) \/ Kill(c)
    BY <1>2 DEF OpenMenu, Quit, Kill, Goto, Log
  <1>3. CASE Hear(c) \/ Bind(c) \/ Heard(c) \/ Probe(c) \/ Save(c) \/ SaveWrite(c)
    BY <1>3 DEF Hear, Bind, Heard, Probe, Save, SaveWrite, End, Goto, restOfFinding, Log
  <1>4. CASE Ask(c) \/ Enter(c) \/ Open(c) \/ Receive(c)
    BY <1>4 DEF Ask, Enter, Opening, Open, Receive, End, Goto, restOfFetching, Log
  <1>5. CASE CopyDownload(c)
    BY <1>5 DEF CopyDownload, End, Goto, restOfFetching, Log
  <1>6. CASE Entry(c)
    BY <1>6, EntryLog
  <1>7. CASE Read(c)
    <2>1. pos'[c] = 0 /\ wrote'[c] = {}
      BY <1>7 DEF Read, Log, LookedThrough
    <2>2. pc'[c] = "entries" => mem'[c] \in Archives
      BY <1>7 DEF Read, Known, End, Goto
    <2>3. ASSUME pc'[c] = "entries" PROVE Kept(c)'
      <3>1. \A i \in Wants(c)' : ~(i <= pos'[c])
        <4>1. \A i \in Wants(c)' : i \in 1..Len(Calls(c)')
          BY <2>2, <2>3, CallsAre DEF Wants, Calls
        <4>2. Len(Calls(c)') \in Nat
          BY <2>2, <2>3, CallsAre DEF Calls
        <4> QED BY <2>1, <4>1, <4>2
      <3> QED BY <3>1 DEF Kept
    <2> QED BY <2>1, <2>2, <2>3 DEF Log
  <1>8. CASE Finish(c)
    BY <1>8, ZenonT(60) DEF Finish, End, Goto, Log
  <1> QED BY <1>1, <1>2, <1>3, <1>4, <1>5, <1>6, <1>7, <1>8 DEF Step

\* A process that looks on keeps its place in its archive, and what it has
\* installed if it is alone.
LEMMA OnlookerLog ==
  ASSUME Base, StageIsOwn, NEW c \in Clients, NEW d \in Clients, d # c, Log(d),
         Command(c) \/ OpenMenu(c) \/ Quit(c) \/ Hear(c) \/ Step(c) \/ Kill(c)
  PROVE  Log(d)'
  <1> USE DEF Base, TypeOK, Shape
  <1>1. Apart(c)
    BY StepsApart
  <1>2. pos'[d] = pos[d] /\ arg'[d] = arg[d]
    <2>1. CASE Command(c)
      <3>1. PICK a, where : where \in Beginnings /\ Begin(c, a, where)
        BY <2>1, CommandBegins
      <3> QED BY <3>1 DEF Begin
    <2>2. CASE OpenMenu(c) \/ Quit(c) \/ Kill(c)
      BY <2>2 DEF OpenMenu, Quit, Kill
    <2>3. CASE Hear(c) \/ Bind(c) \/ Heard(c) \/ Probe(c) \/ Save(c) \/ SaveWrite(c)
      BY <2>3 DEF Hear, Bind, Heard, Probe, Save, SaveWrite, restOfFinding
    <2>4. CASE Fetching(c)
      BY <2>4 DEF Fetching, Ask, Enter, Open, Receive, CopyDownload, Read, Entry, Finish,
                  restOfFetching, restOfReading
    <2> QED BY <2>1, <2>2, <2>3, <2>4 DEF Step, Fetching
  <1>3. Wants(d)' = Wants(d) /\ \A i : FileAt(d, i)' = FileAt(d, i)
    BY <1>1, <1>2 DEF Apart, Wants, FileAt, Calls, Manifest
  <1>4. pc[d] = "entries" /\ alone'[d] => alone[d] /\ installed' = installed
    <2> SUFFICES ASSUME pc[d] = "entries", alone'[d] PROVE alone[d] /\ installed' = installed
      OBVIOUS
    <2>1. CASE Command(c)
      <3>1. PICK a, where : where \in Beginnings /\ Begin(c, a, where)
        BY <2>1, CommandBegins
      <3> QED BY <3>1 DEF Begin, Busy
    <2>2. CASE OpenMenu(c) \/ Quit(c)
      BY <2>2 DEF OpenMenu, Quit, diskVars
    <2>3. CASE Working(c)
      BY <2>3, WorkingIsBusy, ZenonT(60) DEF StageIsOwn, Busy
    <2> QED BY <2>1, <2>2, <2>3 DEF Step, Working, Fetching
  <1>5. /\ pc'[d] = pc[d] /\ mem'[d] = mem[d]
        /\ wrote'[d] = wrote[d] /\ missed'[d] = missed[d]
    BY <1>1 DEF Apart
  <1>6. CASE pc[d] = "entries"
    <2>1. Kept(d) /\ installed' = installed => Kept(d)'
      <3> SUFFICES ASSUME Kept(d), installed' = installed, NEW k \in Wants(d)', k <= pos'[d],
                          k \notin missed'[d],
                          \A j \in Wants(d)' : k < j => FileAt(d, j)'.path # FileAt(d, k)'.path
                   PROVE  FileAt(d, k)' \in installed'
        BY DEF Kept
      <3>1. k \in Wants(d) /\ k <= pos[d] /\ k \notin missed[d] /\ FileAt(d, k)' = FileAt(d, k)
        BY <1>2, <1>5 DEF Wants, FileAt, Calls, Manifest
      <3>2. ASSUME NEW j \in Wants(d), k < j PROVE FileAt(d, j).path # FileAt(d, k).path
        <4>1. FileAt(d, j)'.path # FileAt(d, k)'.path
          BY <1>3, <3>2
        <4> QED BY <1>2, <1>5, <4>1 DEF FileAt, Calls, Manifest
      <3> QED BY <3>1, <3>2 DEF Kept
    <2>2. mem[d] \in Archives /\ pos[d] \in Nat /\ (alone[d] => Kept(d))
          /\ \A w \in wrote[d] : w[1] \in Wants(d) /\ w[2] = FileAt(d, w[1])
      BY <1>6 DEF Log
    <2>3. \A w \in wrote'[d] : w[1] \in Wants(d)' /\ w[2] = FileAt(d, w[1])'
      BY <1>3, <1>5, <2>2
    <2> QED BY <1>2, <1>4, <1>5, <1>6, <2>1, <2>2, <2>3 DEF Log, Busy
  <1>7. CASE pc[d] # "entries"
    BY <1>2, <1>5, <1>7 DEF Log, Busy
  <1> QED BY <1>6, <1>7

LEMMA LogStep ==
  ASSUME Base, LookedThrough, StageIsOwn, LogInv, [Next]_vars
  PROVE  LogInv'
  <1> SUFFICES ASSUME NEW d \in Clients PROVE Log(d)'
    BY DEF LogInv
  <1>1. Log(d)
    BY DEF LogInv
  <1>2. CASE UNCHANGED vars
    BY <1>1, <1>2 DEF vars, history, diskVars, Log, Kept, Wants, FileAt, Calls, Manifest, Busy
  <1>3. CASE Next
    <2>1. PICK c \in Clients :
            Command(c) \/ OpenMenu(c) \/ Quit(c) \/ Hear(c) \/ Step(c) \/ Kill(c)
      BY <1>3 DEF Next
    <2> QED BY <1>1, <2>1, OwnLog, OnlookerLog
  <1> QED BY <1>2, <1>3

\* Only the end of its own installation says that a command is done.
LEMMA DoneIsFinish ==
  ASSUME Base, NEW c \in Clients, [Next]_vars,
         pc[c] = "entries", ~Busy(c)', result'[c] \in {"done", "not run"}
  PROVE  Finish(c)
  <1> USE DEF Busy
  <1>1. CASE UNCHANGED vars
    BY <1>1 DEF vars
  <1>2. CASE Next
    <2>1. PICK d \in Clients :
            Command(d) \/ OpenMenu(d) \/ Quit(d) \/ Hear(d) \/ Step(d) \/ Kill(d)
      BY <1>2 DEF Next
    <2>2. d = c
      BY <2>1, StepsApart DEF Apart
    <2>3. ~Command(c) /\ ~OpenMenu(c) /\ ~Quit(c)
      <3>1. ~\E a, where : Begin(c, a, where)
        BY DEF Begin
      <3> QED BY <3>1, CommandBegins DEF OpenMenu, Quit
    <2>4. ~Kill(c)
      BY DEF Kill, Base, Shape
    <2>5. ~Entry(c)
      BY DEF Entry, End, Base, Shape
    <2>6. \/ ~Step(c)
          \/ Entry(c) \/ Finish(c)
      BY DEF Step, Bind, Heard, Probe, Save, SaveWrite, Ask, Enter, Opening, Open, Receive,
             CopyDownload, Read
    <2>7. ~Hear(c)
      BY DEF Hear
    <2> QED BY <2>1, <2>2, <2>3, <2>4, <2>5, <2>6, <2>7
  <1> QED BY <1>1, <1>2

\* The manifest whose word counts is the one the first pass has found.
LEMMA ManifestCounts ==
  ASSUME NEW c \in Clients, mem[c] \in Archives, Manifest(c).name # None
  PROVE  \E m \in DOMAIN Calls(c) : Counts(c, m) /\ Parse(Calls(c)[m].data) = Manifest(c)
  <1> DEFINE calls == Calls(c)
             Named(i) == /\ calls[i].kind = "file" /\ IsManifest(calls[i].name)
                         /\ Parse(calls[i].data).name # None
             found == {i \in DOMAIN calls : Named(i) /\ \A j \in 1..(i - 1) : ~Named(j)}
             m == CHOOSE i \in found : TRUE
  <1>1. Manifest(c) = IF found = {} THEN NoPackage ELSE Parse(calls[m].data)
    <2>1. Manifest(c) = ManifestOf(calls)
      BY CallsAre DEF Manifest, Calls
    <2> HIDE DEF calls
    <2> QED BY <2>1 DEF ManifestOf
  <1>2. NoPackage.name = None
    BY DEF NoPackage
  <1>3. m \in found /\ Parse(calls[m].data) = Manifest(c)
    BY <1>1, <1>2
  <1>4. Counts(c, m)
    BY <1>3 DEF Counts, IsManifest
  <1> QED BY <1>3, <1>4

\* The last file of its kind in the archive, if it was not left out, is where
\* the package wants it.
LEMMA LastIsInstalled ==
  ASSUME NEW c \in Clients, mem[c] \in Archives, Kept(c), Todo(c) = {}, pos[c] \in Nat,
         NEW i \in DOMAIN Calls(c), i \notin missed[c],
         NEW e \in Ends(Calls(c)[i].name),
         Asks(c, Manifest(c), e), LastIs(c, Manifest(c), i, e)
  PROVE  [path |-> TargetOf(Manifest(c)) \o e, data |-> Calls(c)[i].data] \in installed
  <1> DEFINE calls == Calls(c)
             pkg == Manifest(c)
             asked == arg[c].package
             Rel(k) == Canonical(calls[k].name, asked, pkg)
             Is(k) == calls[k].kind = "file" /\ calls[k].name \in Wrapped(e, {asked, pkg.name})
  <1>1. /\ Len(calls) \in Nat /\ DOMAIN calls = 1..Len(calls)
        /\ \A k \in DOMAIN calls : calls[k].name \in Seq(STRING) /\ calls[k].name # <<>>
        /\ TargetOf(pkg) \in Seq(STRING)
    BY CallsAre DEF Calls, Manifest
  <1>2. Is(i) /\ \A k \in (i + 1)..Len(calls) : ~Is(k)
    BY DEF LastIs, Wrappers
  <1>3. e \in Seq(STRING) /\ e # <<>>
    <2> DEFINE n == calls[i].name
    <2>1. n \in Seq(STRING) /\ Len(n) \in Nat
      BY <1>1
    <2> HIDE DEF n
    <2>2. PICK k \in 1..Len(n) : e = SubSeq(n, k, Len(n))
      BY DEF Ends, n
    <2>3. \A j \in k..Len(n) : n[j] \in STRING
      BY <2>1, <2>2
    <2>4. e \in Seq(STRING) /\ Len(e) = Len(n) - k + 1
      BY <2>1, <2>2, <2>3, SubSeqProperties
    <2>5. Len(e) # 0
      BY <2>1, <2>2, <2>4
    <2> QED BY <2>4, <2>5, EmptySeq
  <1>4. /\ e[1] \notin {".", asked, pkg.name} /\ ~IsManifest(e)
        /\ pkg.copy = {} \/ e \in pkg.copy
    BY DEF Asks, Wrappers, IsManifest
  <1>5. \A k \in DOMAIN calls : calls[k].name \in Wrapped(e, {asked, pkg.name}) <=> Rel(k) = e
    <2> SUFFICES ASSUME NEW k \in DOMAIN calls
                 PROVE  calls[k].name \in Wrapped(e, {asked, pkg.name}) <=> Rel(k) = e
      OBVIOUS
    <2> DEFINE name == calls[k].name
    <2>1. name \in Seq(STRING) /\ name # <<>>
      BY <1>1
    <2> HIDE DEF calls, pkg, asked, name
    <2>2. name \in Wrapped(e, {asked, pkg.name}) <=> Canonical(name, asked, pkg) = e
      BY <1>3, <1>4, <2>1, Unwrapping
    <2> QED BY <2>2 DEF name
  <1>6. Rel(i) = e /\ i \in Wants(c)
    BY <1>2, <1>4, <1>5 DEF Wants, Wanted
  <1>7. FileAt(c, i) = [path |-> TargetOf(pkg) \o e, data |-> calls[i].data]
    BY <1>6 DEF FileAt, PathOf
  <1>8. i <= pos[c]
    BY <1>1, <1>6 DEF Todo, Wants
  <1>9. ASSUME NEW k \in Wants(c), i < k, FileAt(c, k).path = FileAt(c, i).path
        PROVE  FALSE
    <2>1. k \in DOMAIN calls /\ calls[k].kind = "file"
      BY DEF Wants, Wanted
    <2>2. Rel(k) \in Seq(STRING)
      BY <1>1, <2>1, CanonicalIsEnd
    <2>3. TargetOf(pkg) \o Rel(k) = TargetOf(pkg) \o e
      BY <1>7, <1>9 DEF FileAt, PathOf
    <2> HIDE DEF Rel, calls, pkg
    <2>4. Rel(k) = e
      BY <1>1, <1>3, <2>2, <2>3, SamePlace
    <2>5. Is(k)
      BY <1>5, <2>1, <2>4
    <2>6. k \in (i + 1)..Len(calls)
      BY <1>1, <1>9, <2>1 DEF calls
    <2> QED BY <1>2, <2>5, <2>6
  <1>10. FileAt(c, i) \in installed
    BY <1>6, <1>8, <1>9 DEF Kept
  <1> QED BY <1>7, <1>10

\* A file that was written is one of the package, in its place.
LEMMA WrittenIsAsked ==
  ASSUME NEW c \in Clients, mem[c] \in Archives, NEW i \in Wants(c)
  PROVE  /\ FileAt(c, i).data = Calls(c)[i].data
         /\ \E e \in Ends(Calls(c)[i].name) :
               /\ FileAt(c, i).path = TargetOf(Manifest(c)) \o e /\ Last(e) \notin Manifests
               /\ Manifest(c).copy = {} \/ e \in Manifest(c).copy
  <1> DEFINE e == Canonical(Calls(c)[i].name, arg[c].package, Manifest(c))
  <1>1. i \in DOMAIN Calls(c) /\ Wanted(Calls(c)[i], arg[c].package, Manifest(c))
    BY DEF Wants
  <1>2. e \in Ends(Calls(c)[i].name)
    BY <1>1, CallsAre, CanonicalIsEnd DEF Calls
  <1>3. Last(e) \notin Manifests /\ (Manifest(c).copy = {} \/ e \in Manifest(c).copy)
    BY <1>1 DEF Wanted, IsManifest
  <1>4. FileAt(c, i) = [path |-> TargetOf(Manifest(c)) \o e, data |-> Calls(c)[i].data]
    BY DEF FileAt, PathOf
  <1> HIDE DEF e
  <1>5. FileAt(c, i).path = TargetOf(Manifest(c)) \o e /\ FileAt(c, i).data = Calls(c)[i].data
    BY <1>4
  <1>6. \E x \in Ends(Calls(c)[i].name) :
          /\ FileAt(c, i).path = TargetOf(Manifest(c)) \o x /\ Last(x) \notin Manifests
          /\ Manifest(c).copy = {} \/ x \in Manifest(c).copy
    BY <1>2, <1>3, <1>5
  <1> QED BY <1>5, <1>6

\* Spec => DoneIsWhole: an installation that says it is done has written only
\* files that the manifest asks for, where it wants them; and, if it ran
\* alone, every file that the manifest asks for and that was not reported or
\* cut is in its place with the contents it had last in the archive, however
\* the archive wraps its names, and the staging file is gone unless its
\* removal failed.
THEOREM DoneInstallsAreWhole == Spec => DoneIsWhole
  <1>1. Init => Base /\ LookedThrough /\ StageIsOwn /\ LogInv
    BY InitBase DEF Init, LookedThrough, StageIsOwn, LogInv, Log, Busy
  <1>2. Spec => [](Base /\ LookedThrough /\ StageIsOwn /\ LogInv)
    BY <1>1, NextBase, LookedThroughStep, StageIsOwnStep, LogStep, PTL DEF Spec
  <1> DEFINE Placed(c, pkg, target, i, e) ==
               Asks(c, pkg, e) /\ LastIs(c, pkg, i, e) =>
                  [path |-> target \o e, data |-> Calls(c)[i].data] \in installed'
             ToBeWritten(c, pkg, target, w) ==
               /\ w[2].data = Calls(c)[w[1]].data
               /\ \E e \in Ends(Calls(c)[w[1]].name) :
                     /\ w[2].path = target \o e /\ Last(e) \notin Manifests
                     /\ pkg.copy = {} \/ e \in pkg.copy
             Good(c) == \E m \in DOMAIN Calls(c) :
               LET pkg == Parse(Calls(c)[m].data)
                   target == IF pkg.target = None THEN InstallDir ELSE pkg.target
               IN /\ Counts(c, m)
                  /\ alone[c] =>
                        /\ \A i \in DOMAIN Calls(c) \ missed[c] : \A e \in Ends(Calls(c)[i].name) :
                              Placed(c, pkg, target, i, e)
                        /\ stage' = None \/ "removal" \in lost'[c]
                  /\ \A w \in wrote[c] : ToBeWritten(c, pkg, target, w)
             Whole == \A c \in Clients :
               pc[c] = "entries" /\ ~Busy(c)' /\ result'[c] \in {"done", "not run"} => Good(c)
  <1>3. ASSUME Base, LookedThrough, LogInv, [Next]_vars
        PROVE  Whole
    <2> SUFFICES ASSUME NEW c \in Clients,
                        pc[c] = "entries", ~Busy(c)', result'[c] \in {"done", "not run"}
                 PROVE  Good(c)
      OBVIOUS
    <2>1. Finish(c)
      BY <1>3, DoneIsFinish
    <2>2. Todo(c) = {} /\ installed' = installed
      BY <2>1 DEF Finish
    <2>3. stage' = None \/ "removal" \in lost'[c]
      BY <1>3, <2>1 DEF Finish, DropStage, Loses, Base, Shape
    <2>4. /\ mem[c] \in Archives /\ pos[c] \in Nat /\ (alone[c] => Kept(c))
          /\ \A w \in wrote[c] : w[1] \in Wants(c) /\ w[2] = FileAt(c, w[1])
      BY <1>3 DEF LogInv, Log
    <2>5. Manifest(c).name # None
      BY <1>3 DEF LookedThrough, Installable, Manifest
    <2>6. PICK m \in DOMAIN Calls(c) : Counts(c, m) /\ Parse(Calls(c)[m].data) = Manifest(c)
      BY <2>4, <2>5, ManifestCounts
    <2> DEFINE pkg == Manifest(c)
               target == IF pkg.target = None THEN InstallDir ELSE pkg.target
    <2>7. target = TargetOf(Manifest(c))
      BY DEF TargetOf
    <2>8. ASSUME alone[c], NEW i \in DOMAIN Calls(c) \ missed[c],
                 NEW e \in Ends(Calls(c)[i].name), Asks(c, pkg, e), LastIs(c, pkg, i, e)
          PROVE  [path |-> target \o e, data |-> Calls(c)[i].data] \in installed'
      BY <2>2, <2>4, <2>7, <2>8, LastIsInstalled
    <2>9. \A w \in wrote[c] : ToBeWritten(c, pkg, target, w)
      BY <2>4, <2>7, WrittenIsAsked
    <2> HIDE DEF pkg, target, ToBeWritten
    <2>10. alone[c] => \A i \in DOMAIN Calls(c) \ missed[c] : \A e \in Ends(Calls(c)[i].name) :
             Placed(c, pkg, target, i, e)
      BY <2>8
    <2> HIDE DEF Placed
    <2> QED BY <2>3, <2>6, <2>9, <2>10 DEF pkg, target
  <1>4. Base /\ LookedThrough /\ LogInv /\ [Next]_vars => [Whole]_vars
    BY <1>3
  <1>5. [][Whole]_vars => DoneIsWhole
    BY PTL DEF DoneIsWhole
  <1> QED BY <1>2, <1>4, <1>5, PTL DEF Spec
=============================================================================
