-------------------------- MODULE DlrTransfer_proofs --------------------------
(***************************************************************************)
(* Proofs about DlrTransfer, for every set of chunks, archives and         *)
(* passwords, every combination of faults and every bound.                 *)
(***************************************************************************)
EXTENDS DlrTransfer, SequenceTheorems, TLAPS

\* The first frame of a queue is a frame, and what follows it is a queue.
LEMMA QueueHead ==
    ASSUME NEW F, NEW q \in Seq(F), q # <<>>
    PROVE  Head(q) \in F /\ Tail(q) \in Seq(F) /\ Len(Tail(q)) = Len(q) - 1
OBVIOUS

\* An empty queue is one, and so is an empty file.
LEMMA EmptyQueue ==
    \A F : <<>> \in Seq(F) /\ Len(<<>>) = 0
OBVIOUS

LEMMA EmptyFile == <<>> \in File
BY EmptyQueue DEF File

\* What a lost tail leaves of a queue is a queue.
LEMMA QueuePrefix ==
    ASSUME NEW F, NEW q \in Seq(F), NEW n \in 0..Len(q)
    PROVE  /\ SubSeq(q, 1, n) \in Seq(F)
           /\ Len(SubSeq(q, 1, n)) = n
           /\ \A k \in 1..n : SubSeq(q, 1, n)[k] = q[k]
OBVIOUS

\* Each frame with a content carries one of the right kind.
LEMMA FrameContents ==
    /\ \A f \in ServerFrame : f.type = "SIZE" => f.size \in Nat
    /\ \A f \in ServerFrame : f.type = "DATA" => f.chunk \in Chunk
    /\ \A f \in ServerFrame : f.type = "INSTALL_END" => f.digest \in File
    /\ \A f \in ServerFrame : f.type = "HELLO" => f.needs = NeedsPassword
    /\ \A f \in ClientFrame : f.type = "PASSWORD" => f.pw \in Passwords
BY DEF ServerFrame, ClientFrame, File, Requests

\* Every frame that is sent is one.
LEMMA FramesSent ==
    /\ [type |-> "HELLO", needs |-> NeedsPassword] \in ServerFrame
    /\ [type |-> "AUTH_REQUEST"] \in ServerFrame
    /\ [type |-> "HELLO_ACK"] \in ServerFrame
    /\ [type |-> "ERROR"] \in ServerFrame
    /\ InstallError \in ServerFrame
    /\ [type |-> "REPLY"] \in ServerFrame
    /\ \A n \in Nat : [type |-> "SIZE", size |-> n] \in ServerFrame
    /\ \A c \in Chunk : [type |-> "DATA", chunk |-> c] \in ServerFrame
    /\ \A f \in File : [type |-> "INSTALL_END", digest |-> f] \in ServerFrame
    /\ [type |-> "KEY"] \in ClientFrame
    /\ \A p \in Passwords : [type |-> "PASSWORD", pw |-> p] \in ClientFrame
    /\ \A r \in Requests : [type |-> r] \in ClientFrame
BY DEF ServerFrame, ClientFrame, InstallError

-----------------------------------------------------------------------------
(* Types.                                                                  *)

\* TypeOK alone is not inductive: that a frame goes out with a request a
\* server knows, and that there is a file to append to, depends on where
\* the client is.
Places ==
    /\ creq = "PROBE" => cpc \in {"idle", "hello", "done"}
    /\ cpc = "recv" => stage \in File

TypeInv == TypeOK /\ Places

LEMMA InitType == Init => TypeInv
<1> SUFFICES ASSUME Init PROVE TypeInv
    OBVIOUS
<1>1. archive \in File /\ shown \subseteq File
    BY ArchivesAssumption DEF Init, File
<1>2. c2s \in Seq(ClientFrame) /\ s2c \in Seq(ServerFrame)
    BY EmptyQueue DEF Init
<1>3. chash \in File /\ handle \in File /\ shash \in File
    BY EmptyFile DEF Init
<1>4. creq \in Purposes /\ cpc \in ClientPcs /\ spc \in ServerPcs /\ outcome \in Outcomes
    BY DEF Init, Purposes, Requests, ClientPcs, ServerPcs, Outcomes
<1>5. builds \in 0..MaxBuilds /\ sessions \in 0..MaxSessions
    BY BoundsAssumption DEF Init
<1>6. up \in BOOLEAN /\ known \in BOOLEAN
    BY DEF Init
<1>7. cpw \in Passwords \cup {NoPassword} /\ stage \in File \cup {Absent} /\ marred \in BOOLEAN
    BY DEF Init
<1>8. expected \in Nat /\ size \in Nat /\ pos \in Nat
    BY DEF Init
<1>9. Places
    BY DEF Init, Places
<1> QED
    BY <1>1, <1>2, <1>3, <1>4, <1>5, <1>6, <1>7, <1>8, <1>9 DEF TypeInv, TypeOK

\* A write leaves a queue of frames.
LEMMA WriteType ==
    /\ \A f \in ClientFrame : c2s \in Seq(ClientFrame) /\ ToServer(f) => c2s' \in Seq(ClientFrame)
    /\ \A f \in ServerFrame : s2c \in Seq(ServerFrame) /\ ToClient(f) => s2c' \in Seq(ServerFrame)
BY SMTT(30) DEF ToServer, ToClient

\* A session that ends leaves two queues of frames.
LEMMA LeaveType ==
    /\ \A r : ClientLeaves(r) => s2c' \in Seq(ServerFrame) /\ cpc' = "done" /\ outcome' = r
    /\ ServerLeaves => c2s' \in Seq(ClientFrame) /\ spc' = "closed"
BY EmptyQueue DEF ClientLeaves, ServerLeaves

\* Closing the staging file leaves it, or the beginning of it.
LEMMA ClosedStage ==
    ASSUME stage \in File
    PROVE  \A s \in Closed :
              /\ s \in File
              /\ s # stage => "flush" \in Faults /\ \E n \in 0..Len(stage) : s = SubSeq(stage, 1, n)
BY QueuePrefix DEF Closed, File

LEMMA GivesUpType ==
    ASSUME TypeInv, ClientGivesUp
    PROVE  /\ s2c' = <<>> /\ cpc' = "done" /\ outcome' = "failed"
           /\ stage' \in File \cup {Absent} /\ marred' \in BOOLEAN
<1>1. CASE cpc = "recv"
    BY <1>1, ClosedStage DEF TypeInv, Places, ClientGivesUp, ClientLeaves, RemoveStage
<1>2. CASE cpc # "recv"
    BY <1>2 DEF TypeInv, TypeOK, ClientGivesUp, ClientLeaves
<1> QED
    BY <1>1, <1>2

\* An answer of the server, sent or not.
LEMMA AnswerType ==
    ASSUME TypeOK, NEW f \in ServerFrame, NEW pc \in ServerPcs, Answer(f, pc)
    PROVE  c2s' \in Seq(ClientFrame) /\ s2c' \in Seq(ServerFrame) /\ spc' \in ServerPcs
BY WriteType, LeaveType DEF Answer, TypeOK, ServerPcs

\* Every step of the client keeps the types.
LEMMA ClientType ==
    ASSUME TypeInv, Client
    PROVE  TypeInv'
<1> USE EmptyQueue, EmptyFile, FrameContents, FramesSent DEF TypeInv, TypeOK, Places, netVars, storeVars, serverVars, clientVars
<1>1. CASE ClientReceiveFails
    BY <1>1, GivesUpType DEF ClientReceiveFails, ClientPcs, Outcomes
<1>2. CASE RecvHello
    BY <1>2, QueueHead, WriteType, LeaveType, ZenonT(60) DEF RecvHello, ClientPcs, Outcomes
<1>3. CASE RecvAuthRequest
    BY <1>3, QueueHead, WriteType, LeaveType DEF RecvAuthRequest, ClientPcs, Outcomes
<1>4. CASE RecvAck
    BY <1>4, QueueHead DEF RecvAck, ClientPcs
<1>5. CASE CheckKnownFlag
    BY <1>5, LeaveType DEF CheckKnownFlag, ClientPcs, Outcomes
<1>6. CASE SendRequest
    BY <1>6, WriteType, LeaveType DEF SendRequest, ClientPcs, Outcomes, Requests, Purposes
<1>7. CASE CreateStage
    BY <1>7 DEF CreateStage, ClientPcs, File
<1>8. CASE CreateStageFails
    BY <1>8, LeaveType DEF CreateStageFails, ClientPcs, File, Outcomes
<1>9. CASE RecvSize
    BY <1>9, QueueHead DEF RecvSize
<1>10. CASE RecvData
    <2>1. Head(s2c) \in ServerFrame /\ Tail(s2c) \in Seq(ServerFrame) /\ Head(s2c).chunk \in Chunk
        BY <1>10, QueueHead DEF RecvData
    <2>2. \A f \in File, c \in Chunk : Append(f, c) \in File
        BY DEF File
    <2> QED
        BY <1>10, <2>1, <2>2, GivesUpType DEF RecvData, ClientPcs, Outcomes
<1>11. CASE RecvInstallError
    BY <1>11, LeaveType, ClosedStage DEF RecvInstallError, RemoveStage, ClientPcs, Outcomes
<1>12. CASE RecvEnd
    BY <1>12, LeaveType, GivesUpType, ClosedStage DEF RecvEnd, ClientPcs, Outcomes
<1>13. CASE RecvReply
    BY <1>13, LeaveType DEF RecvReply, ClientPcs, Outcomes
<1> QED
    BY <1>1, <1>2, <1>3, <1>4, <1>5, <1>6, <1>7, <1>8, <1>9, <1>10, <1>11, <1>12, <1>13 DEF Client

\* Every step of the server keeps the types.
LEMMA ServerType ==
    ASSUME TypeInv, Server
    PROVE  TypeInv'
<1> USE EmptyQueue, EmptyFile, FrameContents, FramesSent DEF TypeInv, TypeOK, Places, netVars, storeVars, serverVars, clientVars
<1>1. CASE ServerReceiveFails
    BY <1>1, LeaveType DEF ServerReceiveFails, ServerPcs
<1>2. CASE SendHello
    BY <1>2, AnswerType, LeaveType DEF SendHello, ServerPcs
<1>3. CASE RecvKey
    BY <1>3, QueueHead DEF RecvKey, ServerPcs
<1>4. CASE SendAuthRequest
    BY <1>4, AnswerType DEF SendAuthRequest, ServerPcs
<1>5. CASE RecvPassword
    BY <1>5, QueueHead, WriteType, LeaveType DEF RecvPassword, ServerPcs
<1>6. CASE RecvRequest
    <2>1. \A t \in QueryAnswers : [type |-> t] \in ServerFrame
        BY DEF QueryAnswers
    <2> QED
        BY <1>6, <2>1, QueueHead, WriteType, LeaveType, ZenonT(60) DEF RecvRequest, ServerPcs
<1>7. CASE FindArchive
    BY <1>7, AnswerType DEF FindArchive, ServerPcs
<1>8. CASE MeasureArchive
    BY <1>8, AnswerType DEF MeasureArchive, ServerPcs, File
<1>9. CASE OpenArchive
    BY <1>9, AnswerType DEF OpenArchive, ServerPcs
<1>10. CASE SendHeader
    BY <1>10, AnswerType DEF SendHeader, ServerPcs
<1>11. CASE SendChunk
    BY <1>11, AnswerType, HandleAssumption DEF SendChunk, Readable, ServerPcs, File
<1>12. CASE ReadFails
    BY <1>12, WriteType, LeaveType DEF ReadFails, ServerPcs
<1>13. CASE ReachEnd
    BY <1>13 DEF ReachEnd, ServerPcs
<1>14. CASE SendEnd
    BY <1>14, AnswerType, WriteType, LeaveType DEF SendEnd, ServerPcs
<1> QED
    BY <1>1, <1>2, <1>3, <1>4, <1>5, <1>6, <1>7, <1>8, <1>9, <1>10, <1>11, <1>12, <1>13, <1>14 DEF Server

\* So does every step of the environment.
LEMMA EnvironmentType ==
    ASSUME TypeInv,
           Connect \/ ConnectFails \/ ConsumeStage \/ ClientCrash \/ Drop
               \/ DeleteArchive \/ BuildArchive
    PROVE  TypeInv'
<1> USE EmptyQueue, EmptyFile, BoundsAssumption, PasswordAssumption, ArchivesAssumption
    DEF TypeInv, TypeOK, Places, netVars, storeVars, serverVars, clientVars
<1>1. CASE Connect
    BY <1>1 DEF Connect, ClientPcs, ServerPcs, Outcomes, File
<1>2. CASE ConnectFails
    BY <1>2 DEF ConnectFails, ClientPcs, Outcomes
<1>3. CASE ConsumeStage
    BY <1>3 DEF ConsumeStage, RemoveStage, ClientPcs, Outcomes
<1>4. CASE ClientCrash
    BY <1>4 DEF ClientCrash, ClientPcs, Outcomes, File
<1>5. CASE Drop
    <2>1. c2s' \in Seq(ClientFrame) /\ s2c' \in Seq(ServerFrame)
        BY <1>5, QueuePrefix DEF Drop
    <2> QED
        BY <1>5, <2>1 DEF Drop
<1>6. CASE DeleteArchive
    BY <1>6 DEF DeleteArchive
<1>7. CASE BuildArchive
    BY <1>7 DEF BuildArchive, File
<1> QED
    BY <1>1, <1>2, <1>3, <1>4, <1>5, <1>6, <1>7

LEMMA NextType == TypeInv /\ [Next]_vars => TypeInv'
<1>1. CASE UNCHANGED vars
    BY <1>1 DEF TypeInv, TypeOK, Places, vars, netVars, storeVars, serverVars, clientVars
<1> QED
    BY <1>1, ClientType, ServerType, EnvironmentType DEF Next

\* Every variable keeps its type: frames in flight stay well formed and the
\* counters within their bounds, through every failure.
THEOREM TypeCorrect == Spec => []TypeOK
<1>1. TypeInv => TypeOK
    BY DEF TypeInv
<1> QED
    BY <1>1, InitType, NextType, PTL DEF Spec

-----------------------------------------------------------------------------
(* A verified download is complete.                                        *)
(*                                                                         *)
(* dlr_download compares digests and never sizes, so the property rests on *)
(* where the two sides are when the digest arrives.  PipeInv follows one   *)
(* session from the hello to the digest and says, for every place of the   *)
(* client, where the server can be and what is in flight between them.     *)

Quiet == c2s = <<>> /\ s2c = <<>>

\* The handshake is lock-step: at most one frame is in flight, and where
\* the client is says where the server can be.
Handshake ==
    /\ cpc = "hello" =>
        /\ c2s = <<>>
        /\ \/ spc = "hello" /\ s2c = <<>>
           \/ spc \in {"key", "closed"} /\ Len(s2c) <= 1
    /\ cpc = "auth" =>
        /\ ServerPassword # NoPassword
        /\ \/ spc = "key" /\ s2c = <<>> /\ Len(c2s) <= 1
           \/ spc = "auth" /\ Quiet
           \/ spc \in {"password", "closed"} /\ c2s = <<>> /\ Len(s2c) <= 1
    /\ cpc = "ack" =>
        /\ ServerPassword # NoPassword
        /\ \/ spc = "password" /\ s2c = <<>> /\ Len(c2s) <= 1
           \/ spc \in {"request", "closed"} /\ c2s = <<>> /\ Len(s2c) <= 1
    /\ cpc \in {"opened", "request"} =>
        /\ s2c = <<>>
        /\ \/ /\ ServerPassword = NoPassword
              /\ spc = "key"
              /\ Len(c2s) <= 1
              /\ \A k \in 1..Len(c2s) : c2s[k].type = "KEY"
           \/ spc \in {"request", "closed"} /\ c2s = <<>>

\* One request per session, and it is the last frame of the client.
Asked ==
    /\ cpc = "reply" =>
        /\ spc \in {"key", "request", "closed"}
        /\ spc = "key" => ServerPassword = NoPassword
        /\ \A k \in 1..Len(c2s) : c2s[k].type \in {"KEY", "QUERY"}
    /\ cpc \in {"create", "recv"} =>
        \/ /\ spc \in {"key", "request"}
           /\ spc = "key" => ServerPassword = NoPassword
           /\ s2c = <<>>
           /\ \A k \in 1..Len(c2s) :
                \/ c2s[k].type = "KEY"
                \/ c2s[k].type = "INSTALL" /\ k = Len(c2s)
        \/ spc \in {"find", "size", "open", "header"} /\ Quiet
        \/ spc \in {"stream", "end", "request", "closed"} /\ c2s = <<>>

\* A header in flight is the first frame and announces what was measured.
HeaderInFlight == s2c # <<>> /\ s2c[1].type = "SIZE"

\* Once the header is out, the client knows the size or is about to, unless
\* the connection broke under it.
Announced ==
    /\ \A k \in 1..Len(s2c) : s2c[k].type = "SIZE" =>
        /\ cpc \in {"create", "recv"}
        /\ spc \notin {"key", "find", "size", "open", "header"}
        /\ s2c[k].size = size
    /\ cpc \in {"create", "recv"} /\ spc \in {"stream", "end"} /\ up =>
        expected = size \/ HeaderInFlight

\* The digest is the last thing sent, and is that of as many bytes as were
\* announced.
Digested ==
    \A k \in 1..Len(s2c) : s2c[k].type = "INSTALL_END" =>
        /\ cpc \in {"create", "recv"}
        /\ spc \in {"request", "closed"} /\ c2s = <<>>
        /\ s2c[k].digest = shash
        /\ Len(shash) = size
        /\ expected = size \/ HeaderInFlight

\* What was hashed is what was staged.
Staged ==
    /\ cpc \in {"hello", "auth", "ack", "opened", "request", "create"} => chash = <<>>
    /\ cpc = "recv" => stage = chash

\* After a verified download the server has nothing left to do for this
\* client, so what it has hashed stays what it was.
Verified ==
    /\ ~ClientOpen => s2c = <<>>
    /\ outcome = "verified" =>
        /\ cpc = "done"
        /\ spc \in {"request", "closed"} /\ c2s = <<>>
        /\ VerifiedIsComplete

PipeInv == Handshake /\ Asked /\ Announced /\ Digested /\ Staged /\ Verified

DownloadInv == TypeInv /\ PipeInv

\* The frames of a queue after a send, a receive or a loss.
LEMMA QueueFrames ==
    ASSUME NEW F, NEW q \in Seq(F)
    PROVE  /\ Len(q) \in Nat
           /\ q = <<>> <=> Len(q) = 0
           /\ \A f \in F : /\ Len(Append(q, f)) = Len(q) + 1
                          /\ \A k \in 1..Len(q) : Append(q, f)[k] = q[k]
                          /\ Append(q, f)[Len(q) + 1] = f
           /\ q # <<>> => /\ Head(q) = q[1]
                          /\ Len(Tail(q)) = Len(q) - 1
                          /\ \A k \in 1..Len(Tail(q)) : Tail(q)[k] = q[k + 1]
OBVIOUS

LEMMA InitPipe == Init => PipeInv
BY DEF Init, PipeInv, Handshake, Asked, Announced, Digested, Staged, Verified,
       VerifiedIsComplete, ClientOpen

\* A client that leaves takes its side of the connection with it.
LEMMA ClientLeavesPipe ==
    ASSUME PipeInv, NEW r, r # "verified", ClientLeaves(r)
    PROVE  PipeInv'
BY DEF PipeInv, Handshake, Asked, Announced, Digested, Staged, Verified,
       VerifiedIsComplete, ClientOpen, ClientLeaves

\* A server that leaves without a word.
LEMMA ServerLeavesPipe ==
    ASSUME TypeInv, PipeInv, ServerLeaves, UNCHANGED <<clientVars, up, s2c, size>>,
           spc = "stream" \/ UNCHANGED shash
    PROVE  PipeInv'
BY QueueFrames DEF TypeInv, TypeOK, PipeInv, Handshake, Asked, Announced, Digested, Staged,
       Verified, VerifiedIsComplete, ClientOpen, ServerLeaves, HeaderInFlight, Quiet, clientVars

\* What a send changes: nothing, or one frame more.
LEMMA Sent ==
    ASSUME TypeOK, NEW f \in ServerFrame, ToClient(f)
    PROVE  \/ s2c' = s2c
           \/ /\ up /\ ClientOpen
              /\ s2c = <<>> => s2c' = <<f>>
              /\ \A k \in 1..Len(s2c') :
                    \/ k \in 1..Len(s2c) /\ s2c'[k] = s2c[k]
                    \/ k = Len(s2c) + 1 /\ s2c'[k] = f
              /\ s2c # <<>> => s2c' # <<>> /\ s2c'[1] = s2c[1]
<1>1. CASE s2c' = s2c
    BY <1>1
<1>2. CASE up /\ ClientOpen /\ s2c' = Append(s2c, f)
    <2>1. Len(s2c) \in Nat /\ Len(s2c') = Len(s2c) + 1 /\ (s2c = <<>> <=> Len(s2c) = 0)
        BY <1>2, QueueFrames DEF TypeOK
    <2>2. /\ \A k \in 1..Len(s2c) : s2c'[k] = s2c[k]
          /\ s2c'[Len(s2c) + 1] = f
        BY <1>2, QueueFrames DEF TypeOK
    <2>3. s2c = <<>> => s2c' = <<f>>
        BY <1>2
    <2> QED
        BY <1>2, <2>1, <2>2, <2>3
<1> QED
    BY <1>1, <1>2 DEF ToClient

\* Nothing of a download is in flight before it starts.
LEMMA NothingStreamed ==
    ASSUME TypeInv, PipeInv,
           \/ spc \in {"hello", "auth", "password", "find", "size", "open", "header"}
           \/ spc = "request" /\ c2s # <<>>
    PROVE  \A k \in 1..Len(s2c) : s2c[k].type \notin {"SIZE", "INSTALL_END"}
BY QueueFrames DEF TypeInv, TypeOK, PipeInv, Handshake, Asked, Announced, Digested, Verified, Quiet

\* Nor does an answer before that change it.
LEMMA PlainStep ==
    ASSUME TypeInv, PipeInv,
           \/ spc \in {"hello", "auth", "password", "find", "size", "open", "header"}
           \/ spc = "request" /\ c2s # <<>>,
           NEW f \in ServerFrame, f.type \notin {"SIZE", "INSTALL_END"},
           ToClient(f) \/ UNCHANGED s2c,
           spc' \notin {"stream", "end"}
    PROVE  Announced' /\ Digested'
<1>1. \A k \in 1..Len(s2c') : s2c'[k].type \notin {"SIZE", "INSTALL_END"}
    <2>1. CASE s2c' = s2c
        BY <2>1, NothingStreamed
    <2>2. CASE s2c' = Append(s2c, f)
        <3>1. TAKE k \in 1..Len(s2c')
        <3>2. Len(s2c') = Len(s2c) + 1 /\ Len(s2c) \in Nat
            BY <2>2, QueueFrames DEF TypeInv, TypeOK
        <3>3. CASE k \in 1..Len(s2c)
            <4>1. s2c'[k] = s2c[k]
                BY <2>2, <3>3, QueueFrames DEF TypeInv, TypeOK
            <4> QED
                BY <3>3, <4>1, NothingStreamed
        <3>4. CASE k = Len(s2c) + 1
            <4>1. s2c'[k] = f
                BY <2>2, <3>4, QueueFrames DEF TypeInv, TypeOK
            <4> QED
                BY <4>1
        <3> QED
            BY <3>1, <3>2, <3>3, <3>4
    <2> QED
        BY <2>1, <2>2 DEF ToClient
<1> QED
    BY <1>1 DEF Announced, Digested

\* Every step of the client keeps the invariant.
LEMMA ClientPipe ==
    ASSUME DownloadInv, Client
    PROVE  PipeInv'
<1> USE DEF DownloadInv, serverVars
<1>1. CASE ClientReceiveFails
    BY <1>1, ClientLeavesPipe, QueueFrames
    DEF ClientReceiveFails, TypeInv, TypeOK, Places, PipeInv, Handshake, Asked, Announced, Digested, Staged, Verified,
        VerifiedIsComplete, ClientOpen, ServerOpen, ClientLeaves, ClientGivesUp, HeaderInFlight, Quiet,
        ToServer, Purposes, Requests
<1>2. CASE RecvHello
    <2>1. CASE cpc' = "done"
        BY <1>2, <2>1, ClientLeavesPipe, QueueFrames
        DEF RecvHello, TypeInv, TypeOK, ToServer, ClientLeaves
    <2>2. CASE cpc' # "done"
        <3>1. /\ cpc = "hello" /\ UNCHANGED <<spc, chash, shash, size, up, outcome>>
              /\ cpc' = IF Head(s2c).needs THEN "auth" ELSE "opened"
              /\ ToServer([type |-> "KEY"])
            BY <1>2, <2>2 DEF RecvHello, ClientLeaves
        <3>a. Head(s2c) = s2c[1] /\ Len(s2c) = 1
            <4>1. Len(s2c) <= 1 \/ s2c = <<>>
                BY <3>1 DEF PipeInv, Handshake
            <4>2. s2c # <<>> /\ s2c \in Seq(ServerFrame)
                BY <1>2 DEF RecvHello, TypeInv, TypeOK
            <4>3. Len(s2c) \in Nat /\ Len(s2c) # 0 /\ Head(s2c) = s2c[1]
                BY <4>2, QueueFrames
            <4> QED
                BY <4>1, <4>2, <4>3
        <3>2. Head(s2c).needs = NeedsPassword
            BY <1>2, <3>1, QueueHead, FrameContents DEF RecvHello, TypeInv, TypeOK
        <3>c. \/ cpc' = "auth" /\ ServerPassword # NoPassword
              \/ cpc' = "opened" /\ ServerPassword = NoPassword
            BY <3>1, <3>2, Zenon DEF NeedsPassword
        <3>3. s2c' = <<>>
            BY <1>2, <2>2, <3>a, QueueFrames DEF RecvHello, ClientLeaves, TypeInv, TypeOK
        <3>4. c2s = <<>> /\ spc \in {"key", "closed"}
            BY <1>2, <3>1 DEF RecvHello, PipeInv, Handshake
        <3>5. \/ c2s' = <<>>
              \/ spc = "key" /\ Len(c2s') = 1 /\ c2s'[1] = [type |-> "KEY"]
            <4>1. Append(<<>>, [type |-> "KEY"]) = <<[type |-> "KEY"]>>
                OBVIOUS
            <4> QED
                BY <3>1, <3>4, <4>1 DEF ToServer, ServerOpen
        <3>6. Handshake'
            <4>1. Len(c2s') <= 1 /\ \A k \in 1..Len(c2s') : c2s'[k].type = "KEY"
                BY <3>5, EmptyQueue
            <4>2. spc = "closed" => c2s' = <<>>
                BY <3>5
            <4>3. spc' = spc
                BY <3>1
            <4>4. Len(s2c') <= 1
                BY <3>3, EmptyQueue
            <4> QED
                BY <3>3, <3>4, <3>c, <4>1, <4>2, <4>3, <4>4 DEF Handshake, Quiet
        <3>7. Asked' /\ Announced' /\ Digested'
            BY <3>c, <3>3 DEF Asked, Announced, Digested
        <3>8. Staged' /\ Verified'
            BY <3>1, <3>3, <3>c DEF PipeInv, Staged, Verified, ClientOpen
        <3> QED
            BY <3>6, <3>7, <3>8 DEF PipeInv
    <2> QED
        BY <2>1, <2>2
<1>3. CASE RecvAuthRequest
    BY <1>3, ClientLeavesPipe, QueueFrames
    DEF RecvAuthRequest, TypeInv, TypeOK, Places, PipeInv, Handshake, Asked, Announced, Digested, Staged, Verified,
        VerifiedIsComplete, ClientOpen, ServerOpen, ClientLeaves, ClientGivesUp, HeaderInFlight, Quiet,
        ToServer, Purposes, Requests
<1>4. CASE RecvAck
    BY <1>4, ClientLeavesPipe, QueueFrames
    DEF RecvAck, TypeInv, TypeOK, Places, PipeInv, Handshake, Asked, Announced, Digested, Staged, Verified,
        VerifiedIsComplete, ClientOpen, ServerOpen, ClientLeaves, ClientGivesUp, HeaderInFlight, Quiet,
        ToServer, Purposes, Requests
<1>5. CASE CheckKnownFlag
    BY <1>5, ClientLeavesPipe, QueueFrames
    DEF CheckKnownFlag, TypeInv, TypeOK, Places, PipeInv, Handshake, Asked, Announced, Digested, Staged, Verified,
        VerifiedIsComplete, ClientOpen, ServerOpen, ClientLeaves, ClientGivesUp, HeaderInFlight, Quiet,
        ToServer, Purposes, Requests
<1>6. CASE SendRequest
    BY <1>6, ClientLeavesPipe, QueueFrames
    DEF SendRequest, TypeInv, TypeOK, Places, PipeInv, Handshake, Asked, Announced, Digested, Staged, Verified,
        VerifiedIsComplete, ClientOpen, ServerOpen, ClientLeaves, ClientGivesUp, HeaderInFlight, Quiet,
        ToServer, Purposes, Requests
<1>7. CASE CreateStage
    BY <1>7, ClientLeavesPipe, QueueFrames
    DEF CreateStage, netVars, TypeInv, TypeOK, Places, PipeInv, Handshake, Asked, Announced, Digested, Staged, Verified,
        VerifiedIsComplete, ClientOpen, ServerOpen, ClientLeaves, ClientGivesUp, HeaderInFlight, Quiet,
        ToServer, Purposes, Requests
<1>8. CASE CreateStageFails
    BY <1>8, ClientLeavesPipe, QueueFrames
    DEF CreateStageFails, TypeInv, TypeOK, Places, PipeInv, Handshake, Asked, Announced, Digested, Staged, Verified,
        VerifiedIsComplete, ClientOpen, ServerOpen, ClientLeaves, ClientGivesUp, HeaderInFlight, Quiet,
        ToServer, Purposes, Requests
<1>9. CASE RecvSize
    BY <1>9, ClientLeavesPipe, QueueFrames
    DEF RecvSize, TypeInv, TypeOK, Places, PipeInv, Handshake, Asked, Announced, Digested, Staged, Verified,
        VerifiedIsComplete, ClientOpen, ServerOpen, ClientLeaves, ClientGivesUp, HeaderInFlight, Quiet,
        ToServer, Purposes, Requests
<1>10. CASE RecvData
    <2>1. CASE ClientLeaves("failed")
        BY <2>1, ClientLeavesPipe
    <2>2. CASE ~ClientLeaves("failed")
        <3>1. /\ cpc = "recv" /\ cpc' = "recv" /\ outcome' = outcome
              /\ UNCHANGED <<spc, shash, size, up, c2s, expected>>
              /\ s2c' = Tail(s2c) /\ s2c # <<>>
              /\ stage' = Append(stage, Head(s2c).chunk)
              /\ chash' = Append(chash, Head(s2c).chunk)
            BY <1>10, <2>2 DEF RecvData, ClientGivesUp
        <3>2. /\ Len(s2c) \in Nat /\ Len(s2c') = Len(s2c) - 1
              /\ \A k \in 1..Len(s2c') : s2c'[k] = s2c[k + 1]
            BY <3>1, QueueFrames DEF TypeInv, TypeOK
        <3>3. ~HeaderInFlight
            BY <1>10, QueueFrames DEF RecvData, HeaderInFlight, TypeInv, TypeOK
        <3>4. Handshake' /\ Asked'
            BY <3>1 DEF Handshake, PipeInv, Asked, Quiet
        <3>5. Announced'
            BY <3>1, <3>2, <3>3 DEF PipeInv, Announced
        <3>6. Digested'
            BY <3>1, <3>2, <3>3 DEF PipeInv, Digested
        <3>7. Staged' /\ Verified'
            BY <3>1 DEF PipeInv, Staged, Verified, ClientOpen
        <3> QED
            BY <3>4, <3>5, <3>6, <3>7 DEF PipeInv
    <2> QED
        BY <2>1, <2>2
<1>11. CASE RecvInstallError
    BY <1>11, ClientLeavesPipe, QueueFrames
    DEF RecvInstallError, TypeInv, TypeOK, Places, PipeInv, Handshake, Asked, Announced, Digested, Staged, Verified,
        VerifiedIsComplete, ClientOpen, ServerOpen, ClientLeaves, ClientGivesUp, HeaderInFlight, Quiet,
        ToServer, Purposes, Requests
<1>12. CASE RecvEnd
    <2>1. CASE ClientGivesUp
        BY <1>12, <2>1, ClientLeavesPipe DEF RecvEnd, ClientGivesUp
    <2>2. CASE ~ClientGivesUp
        <3>1. /\ cpc = "recv" /\ s2c # <<>> /\ Head(s2c).type = "INSTALL_END"
              /\ Head(s2c).digest = chash
              /\ ClientLeaves("verified")
              /\ UNCHANGED <<c2s, expected, chash, spc, size, shash>>
            BY <1>12, <2>2 DEF RecvEnd, ServerLeaves
        <3>2. Head(s2c) = s2c[1] /\ 1 \in 1..Len(s2c)
            BY <3>1, QueueFrames DEF TypeInv, TypeOK
        <3>3. marred' \/ stage' = chash'
            <4>1. CASE stage' = stage
                BY <3>1, <4>1 DEF PipeInv, Staged
            <4>2. CASE stage' # stage
                BY <1>12, <2>2, <4>2 DEF RecvEnd
            <4> QED
                BY <4>1, <4>2
        <3>4. VerifiedIsComplete' /\ spc \in {"request", "closed"} /\ c2s = <<>>
            BY <3>1, <3>2, <3>3 DEF PipeInv, Digested, HeaderInFlight, VerifiedIsComplete
        <3> QED
            BY <3>1, <3>4, EmptyQueue
            DEF PipeInv, Handshake, Asked, Announced, Digested, Staged, Verified, ClientOpen, ClientLeaves
    <2> QED
        BY <2>1, <2>2
<1>13. CASE RecvReply
    BY <1>13, ClientLeavesPipe, QueueFrames
    DEF RecvReply, TypeInv, TypeOK, Places, PipeInv, Handshake, Asked, Announced, Digested, Staged, Verified,
        VerifiedIsComplete, ClientOpen, ServerOpen, ClientLeaves, ClientGivesUp, HeaderInFlight, Quiet,
        ToServer, Purposes, Requests
<1> QED
    BY <1>1, <1>2, <1>3, <1>4, <1>5, <1>6, <1>7, <1>8, <1>9, <1>10, <1>11, <1>12, <1>13 DEF Client

\* Every step of the server keeps the invariant.
LEMMA ServerPipe ==
    ASSUME DownloadInv, Server
    PROVE  PipeInv'
<1> USE DEF DownloadInv, clientVars
<1>1. CASE ServerReceiveFails
    BY <1>1, ServerLeavesPipe, QueueFrames
    DEF ServerReceiveFails, TypeInv, TypeOK, PipeInv, Handshake, Asked, Announced, Digested, Staged, Verified,
        VerifiedIsComplete, ClientOpen, HeaderInFlight, Quiet, ServerLeaves
<1>2. CASE SendHello
    <2>1. CASE ServerLeaves /\ UNCHANGED s2c
        BY <1>2, <2>1, ServerLeavesPipe DEF SendHello, ServerLeaves, netVars
    <2>2. CASE ~(ServerLeaves /\ UNCHANGED s2c)
        <3>1. Handshake'
            BY <1>2, <2>2, QueueFrames, FramesSent
            DEF SendHello, TypeInv, TypeOK, PipeInv, Handshake, Asked, Announced, Digested, Staged, Verified, netVars,
                VerifiedIsComplete, ClientOpen, HeaderInFlight, Quiet, ToClient, Answer, InstallError, ServerLeaves
        <3>2. Asked'
            BY <1>2, <2>2, QueueFrames, FramesSent
            DEF SendHello, TypeInv, TypeOK, PipeInv, Handshake, Asked, Announced, Digested, Staged, Verified, netVars,
                VerifiedIsComplete, ClientOpen, HeaderInFlight, Quiet, ToClient, Answer, InstallError, ServerLeaves
        <3>3. Staged'
            BY <1>2, <2>2, QueueFrames, FramesSent
            DEF SendHello, TypeInv, TypeOK, PipeInv, Handshake, Asked, Announced, Digested, Staged, Verified, netVars,
                VerifiedIsComplete, ClientOpen, HeaderInFlight, Quiet, ToClient, Answer, InstallError, ServerLeaves
        <3>4. Verified'
            BY <1>2, <2>2, QueueFrames, FramesSent
            DEF SendHello, TypeInv, TypeOK, PipeInv, Handshake, Asked, Announced, Digested, Staged, Verified, netVars,
                VerifiedIsComplete, ClientOpen, HeaderInFlight, Quiet, ToClient, Answer, InstallError, ServerLeaves
        <3>5. Announced' /\ Digested'
            BY <1>2, <2>2, PlainStep, FramesSent
            DEF SendHello, Answer, InstallError, ServerLeaves, PipeInv, Asked, Handshake
        <3> QED
            BY <3>1, <3>2, <3>3, <3>4, <3>5 DEF PipeInv
    <2> QED
        BY <2>1, <2>2
<1>3. CASE RecvKey
    BY <1>3, ServerLeavesPipe, QueueFrames
    DEF RecvKey, NeedsPassword, TypeInv, TypeOK, PipeInv, Handshake, Asked, Announced, Digested, Staged, Verified,
        VerifiedIsComplete, ClientOpen, HeaderInFlight, Quiet, ServerLeaves
<1>4. CASE SendAuthRequest
    <2>1. CASE ServerLeaves /\ UNCHANGED s2c
        BY <1>4, <2>1, ServerLeavesPipe DEF SendAuthRequest, ServerLeaves, netVars
    <2>2. CASE ~(ServerLeaves /\ UNCHANGED s2c)
        <3>1. Handshake'
            BY <1>4, <2>2, QueueFrames, FramesSent
            DEF SendAuthRequest, TypeInv, TypeOK, PipeInv, Handshake, Asked, Announced, Digested, Staged, Verified, netVars,
                VerifiedIsComplete, ClientOpen, HeaderInFlight, Quiet, ToClient, Answer, InstallError, ServerLeaves
        <3>2. Asked'
            BY <1>4, <2>2, QueueFrames, FramesSent
            DEF SendAuthRequest, TypeInv, TypeOK, PipeInv, Handshake, Asked, Announced, Digested, Staged, Verified, netVars,
                VerifiedIsComplete, ClientOpen, HeaderInFlight, Quiet, ToClient, Answer, InstallError, ServerLeaves
        <3>3. Staged'
            BY <1>4, <2>2, QueueFrames, FramesSent
            DEF SendAuthRequest, TypeInv, TypeOK, PipeInv, Handshake, Asked, Announced, Digested, Staged, Verified, netVars,
                VerifiedIsComplete, ClientOpen, HeaderInFlight, Quiet, ToClient, Answer, InstallError, ServerLeaves
        <3>4. Verified'
            BY <1>4, <2>2, QueueFrames, FramesSent
            DEF SendAuthRequest, TypeInv, TypeOK, PipeInv, Handshake, Asked, Announced, Digested, Staged, Verified, netVars,
                VerifiedIsComplete, ClientOpen, HeaderInFlight, Quiet, ToClient, Answer, InstallError, ServerLeaves
        <3>5. Announced' /\ Digested'
            BY <1>4, <2>2, PlainStep, FramesSent
            DEF SendAuthRequest, Answer, InstallError, ServerLeaves, PipeInv, Asked, Handshake
        <3> QED
            BY <3>1, <3>2, <3>3, <3>4, <3>5 DEF PipeInv
    <2> QED
        BY <2>1, <2>2
<1>5. CASE RecvPassword
    <2>1. CASE ServerLeaves /\ UNCHANGED s2c
        BY <1>5, <2>1, ServerLeavesPipe DEF RecvPassword, ServerLeaves, netVars
    <2>2. CASE ~(ServerLeaves /\ UNCHANGED s2c)
        <3>1. Handshake'
            BY <1>5, <2>2, QueueFrames, FramesSent
            DEF RecvPassword, TypeInv, TypeOK, PipeInv, Handshake, Asked, Announced, Digested, Staged, Verified, netVars,
                VerifiedIsComplete, ClientOpen, HeaderInFlight, Quiet, ToClient, Answer, InstallError, ServerLeaves
        <3>2. Asked'
            BY <1>5, <2>2, QueueFrames, FramesSent
            DEF RecvPassword, TypeInv, TypeOK, PipeInv, Handshake, Asked, Announced, Digested, Staged, Verified, netVars,
                VerifiedIsComplete, ClientOpen, HeaderInFlight, Quiet, ToClient, Answer, InstallError, ServerLeaves
        <3>3. Staged'
            BY <1>5, <2>2, QueueFrames, FramesSent
            DEF RecvPassword, TypeInv, TypeOK, PipeInv, Handshake, Asked, Announced, Digested, Staged, Verified, netVars,
                VerifiedIsComplete, ClientOpen, HeaderInFlight, Quiet, ToClient, Answer, InstallError, ServerLeaves
        <3>4. Verified'
            BY <1>5, <2>2, QueueFrames, FramesSent
            DEF RecvPassword, TypeInv, TypeOK, PipeInv, Handshake, Asked, Announced, Digested, Staged, Verified, netVars,
                VerifiedIsComplete, ClientOpen, HeaderInFlight, Quiet, ToClient, Answer, InstallError, ServerLeaves
        <3>5. Announced' /\ Digested'
            BY <1>5, <2>2, PlainStep, FramesSent
            DEF RecvPassword, Answer, InstallError, ServerLeaves, PipeInv, Asked, Handshake
        <3> QED
            BY <3>1, <3>2, <3>3, <3>4, <3>5 DEF PipeInv
    <2> QED
        BY <2>1, <2>2
<1>6. CASE RecvRequest
    <2>1. CASE ServerLeaves /\ UNCHANGED s2c
        BY <1>6, <2>1, ServerLeavesPipe DEF RecvRequest, ServerLeaves, netVars
    <2>2. CASE ~(ServerLeaves /\ UNCHANGED s2c)
        <3>1. Handshake'
            BY <1>6, <2>2, QueueFrames, FramesSent
            DEF RecvRequest, TypeInv, TypeOK, PipeInv, Handshake, Asked, Announced, Digested, Staged, Verified, netVars,
                VerifiedIsComplete, ClientOpen, HeaderInFlight, Quiet, ToClient, Answer, InstallError, ServerLeaves
        <3>2. Asked'
            <4>1. c2s' = Tail(c2s) /\ UNCHANGED clientVars /\ Head(c2s) = c2s[1]
                BY <1>6, <2>2, QueueFrames DEF RecvRequest, TypeInv, TypeOK
            <4>2. CASE Head(c2s).type = "INSTALL"
                <5>1. spc' = "find" /\ UNCHANGED s2c
                    BY <1>6, <4>2 DEF RecvRequest
                <5>2. cpc \in {"create", "recv"} => c2s' = <<>> /\ s2c = <<>>
                    BY <1>6, <4>1, <4>2, QueueFrames DEF RecvRequest, TypeInv, TypeOK, PipeInv, Asked
                <5>3. cpc # "reply"
                    BY <1>6, <4>1, <4>2, QueueFrames DEF RecvRequest, TypeInv, TypeOK, PipeInv, Asked
                <5> QED
                    BY <4>1, <5>1, <5>2, <5>3 DEF Asked, Quiet
            <4>3. CASE Head(c2s).type = "QUERY"
                <5>1. spc' = "request"
                    BY <1>6, <2>2, <4>3 DEF RecvRequest, ServerLeaves
                <5>2. cpc \notin {"create", "recv"}
                    BY <1>6, <4>1, <4>3, QueueFrames DEF RecvRequest, TypeInv, TypeOK, PipeInv, Asked, Quiet
                <5>3. cpc = "reply" => \A k \in 1..Len(c2s') : c2s'[k].type \in {"KEY", "QUERY"}
                    BY <1>6, <4>1, QueueFrames DEF RecvRequest, TypeInv, TypeOK, PipeInv, Asked
                <5> QED
                    BY <4>1, <5>1, <5>2, <5>3 DEF Asked
            <4> QED
                BY <1>6, <4>2, <4>3 DEF RecvRequest
        <3>3. Staged'
            BY <1>6, <2>2, QueueFrames, FramesSent
            DEF RecvRequest, TypeInv, TypeOK, PipeInv, Handshake, Asked, Announced, Digested, Staged, Verified, netVars,
                VerifiedIsComplete, ClientOpen, HeaderInFlight, Quiet, ToClient, Answer, InstallError, ServerLeaves
        <3>4. Verified'
            BY <1>6, <2>2, QueueFrames, FramesSent
            DEF RecvRequest, TypeInv, TypeOK, PipeInv, Handshake, Asked, Announced, Digested, Staged, Verified, netVars,
                VerifiedIsComplete, ClientOpen, HeaderInFlight, Quiet, ToClient, Answer, InstallError, ServerLeaves
        <3>5. Announced' /\ Digested'
            <4>1. /\ spc = "request" /\ c2s # <<>> /\ spc' \notin {"stream", "end"}
                  /\ UNCHANGED s2c \/ \E t \in QueryAnswers : ToClient([type |-> t])
                BY <1>6, <2>2 DEF RecvRequest, ServerLeaves
            <4>2. \A t \in QueryAnswers :
                     [type |-> t] \in ServerFrame /\ t \notin {"SIZE", "INSTALL_END"}
                BY FramesSent DEF QueryAnswers
            <4>3. CASE UNCHANGED s2c
                BY <4>1, <4>3, PlainStep, FramesSent
            <4>4. CASE \E t \in QueryAnswers : ToClient([type |-> t])
                <5>1. PICK t \in QueryAnswers : ToClient([type |-> t])
                    BY <4>4
                <5> QED
                    BY <4>1, <4>2, <5>1, PlainStep
            <4> QED
                BY <4>1, <4>3, <4>4
        <3> QED
            BY <3>1, <3>2, <3>3, <3>4, <3>5 DEF PipeInv
    <2> QED
        BY <2>1, <2>2
<1>7. CASE FindArchive
    <2>1. CASE ServerLeaves /\ UNCHANGED s2c
        BY <1>7, <2>1, ServerLeavesPipe DEF FindArchive, ServerLeaves, netVars
    <2>2. CASE ~(ServerLeaves /\ UNCHANGED s2c)
        <3>1. Handshake'
            BY <1>7, <2>2, QueueFrames, FramesSent
            DEF FindArchive, TypeInv, TypeOK, PipeInv, Handshake, Asked, Announced, Digested, Staged, Verified, netVars,
                VerifiedIsComplete, ClientOpen, HeaderInFlight, Quiet, ToClient, Answer, InstallError, ServerLeaves
        <3>2. Asked'
            BY <1>7, <2>2, QueueFrames, FramesSent
            DEF FindArchive, TypeInv, TypeOK, PipeInv, Handshake, Asked, Announced, Digested, Staged, Verified, netVars,
                VerifiedIsComplete, ClientOpen, HeaderInFlight, Quiet, ToClient, Answer, InstallError, ServerLeaves
        <3>3. Staged'
            BY <1>7, <2>2, QueueFrames, FramesSent
            DEF FindArchive, TypeInv, TypeOK, PipeInv, Handshake, Asked, Announced, Digested, Staged, Verified, netVars,
                VerifiedIsComplete, ClientOpen, HeaderInFlight, Quiet, ToClient, Answer, InstallError, ServerLeaves
        <3>4. Verified'
            BY <1>7, <2>2, QueueFrames, FramesSent
            DEF FindArchive, TypeInv, TypeOK, PipeInv, Handshake, Asked, Announced, Digested, Staged, Verified, netVars,
                VerifiedIsComplete, ClientOpen, HeaderInFlight, Quiet, ToClient, Answer, InstallError, ServerLeaves
        <3>5. Announced' /\ Digested'
            BY <1>7, <2>2, PlainStep, FramesSent
            DEF FindArchive, Answer, InstallError, ServerLeaves, PipeInv, Asked, Handshake
        <3> QED
            BY <3>1, <3>2, <3>3, <3>4, <3>5 DEF PipeInv
    <2> QED
        BY <2>1, <2>2
<1>8. CASE MeasureArchive
    <2>1. CASE ServerLeaves /\ UNCHANGED s2c
        BY <1>8, <2>1, ServerLeavesPipe DEF MeasureArchive, ServerLeaves, netVars
    <2>2. CASE ~(ServerLeaves /\ UNCHANGED s2c)
        <3>1. Handshake'
            BY <1>8, <2>2, QueueFrames, FramesSent
            DEF MeasureArchive, TypeInv, TypeOK, PipeInv, Handshake, Asked, Announced, Digested, Staged, Verified, netVars,
                VerifiedIsComplete, ClientOpen, HeaderInFlight, Quiet, ToClient, Answer, InstallError, ServerLeaves
        <3>2. Asked'
            BY <1>8, <2>2, QueueFrames, FramesSent
            DEF MeasureArchive, TypeInv, TypeOK, PipeInv, Handshake, Asked, Announced, Digested, Staged, Verified, netVars,
                VerifiedIsComplete, ClientOpen, HeaderInFlight, Quiet, ToClient, Answer, InstallError, ServerLeaves
        <3>3. Staged'
            BY <1>8, <2>2, QueueFrames, FramesSent
            DEF MeasureArchive, TypeInv, TypeOK, PipeInv, Handshake, Asked, Announced, Digested, Staged, Verified, netVars,
                VerifiedIsComplete, ClientOpen, HeaderInFlight, Quiet, ToClient, Answer, InstallError, ServerLeaves
        <3>4. Verified'
            BY <1>8, <2>2, QueueFrames, FramesSent
            DEF MeasureArchive, TypeInv, TypeOK, PipeInv, Handshake, Asked, Announced, Digested, Staged, Verified, netVars,
                VerifiedIsComplete, ClientOpen, HeaderInFlight, Quiet, ToClient, Answer, InstallError, ServerLeaves
        <3>5. Announced' /\ Digested'
            BY <1>8, <2>2, PlainStep, FramesSent
            DEF MeasureArchive, Answer, InstallError, ServerLeaves, PipeInv, Asked, Handshake
        <3> QED
            BY <3>1, <3>2, <3>3, <3>4, <3>5 DEF PipeInv
    <2> QED
        BY <2>1, <2>2
<1>9. CASE OpenArchive
    <2>1. CASE ServerLeaves /\ UNCHANGED s2c
        BY <1>9, <2>1, ServerLeavesPipe DEF OpenArchive, ServerLeaves, netVars
    <2>2. CASE ~(ServerLeaves /\ UNCHANGED s2c)
        <3>1. Handshake'
            BY <1>9, <2>2, QueueFrames, FramesSent
            DEF OpenArchive, TypeInv, TypeOK, PipeInv, Handshake, Asked, Announced, Digested, Staged, Verified, netVars,
                VerifiedIsComplete, ClientOpen, HeaderInFlight, Quiet, ToClient, Answer, InstallError, ServerLeaves
        <3>2. Asked'
            BY <1>9, <2>2, QueueFrames, FramesSent
            DEF OpenArchive, TypeInv, TypeOK, PipeInv, Handshake, Asked, Announced, Digested, Staged, Verified, netVars,
                VerifiedIsComplete, ClientOpen, HeaderInFlight, Quiet, ToClient, Answer, InstallError, ServerLeaves
        <3>3. Staged'
            BY <1>9, <2>2, QueueFrames, FramesSent
            DEF OpenArchive, TypeInv, TypeOK, PipeInv, Handshake, Asked, Announced, Digested, Staged, Verified, netVars,
                VerifiedIsComplete, ClientOpen, HeaderInFlight, Quiet, ToClient, Answer, InstallError, ServerLeaves
        <3>4. Verified'
            BY <1>9, <2>2, QueueFrames, FramesSent
            DEF OpenArchive, TypeInv, TypeOK, PipeInv, Handshake, Asked, Announced, Digested, Staged, Verified, netVars,
                VerifiedIsComplete, ClientOpen, HeaderInFlight, Quiet, ToClient, Answer, InstallError, ServerLeaves
        <3>5. Announced' /\ Digested'
            BY <1>9, <2>2, PlainStep, FramesSent
            DEF OpenArchive, Answer, InstallError, ServerLeaves, PipeInv, Asked, Handshake
        <3> QED
            BY <3>1, <3>2, <3>3, <3>4, <3>5 DEF PipeInv
    <2> QED
        BY <2>1, <2>2
<1>10. CASE SendHeader
    <2>1. CASE ServerLeaves /\ UNCHANGED s2c
        BY <1>10, <2>1, ServerLeavesPipe DEF SendHeader, ServerLeaves, netVars
    <2>2. CASE ~(ServerLeaves /\ UNCHANGED s2c)
        <3>1. Handshake'
            BY <1>10, <2>2, QueueFrames, FramesSent
            DEF SendHeader, TypeInv, TypeOK, PipeInv, Handshake, Asked, Announced, Digested, Staged, Verified, netVars,
                VerifiedIsComplete, ClientOpen, HeaderInFlight, Quiet, ToClient, Answer, InstallError, ServerLeaves
        <3>2. Asked'
            BY <1>10, <2>2, QueueFrames, FramesSent
            DEF SendHeader, TypeInv, TypeOK, PipeInv, Handshake, Asked, Announced, Digested, Staged, Verified, netVars,
                VerifiedIsComplete, ClientOpen, HeaderInFlight, Quiet, ToClient, Answer, InstallError, ServerLeaves
        <3>3. Staged'
            BY <1>10, <2>2, QueueFrames, FramesSent
            DEF SendHeader, TypeInv, TypeOK, PipeInv, Handshake, Asked, Announced, Digested, Staged, Verified, netVars,
                VerifiedIsComplete, ClientOpen, HeaderInFlight, Quiet, ToClient, Answer, InstallError, ServerLeaves
        <3>4. Verified'
            BY <1>10, <2>2, QueueFrames, FramesSent
            DEF SendHeader, TypeInv, TypeOK, PipeInv, Handshake, Asked, Announced, Digested, Staged, Verified, netVars,
                VerifiedIsComplete, ClientOpen, HeaderInFlight, Quiet, ToClient, Answer, InstallError, ServerLeaves
        <3> DEFINE header == [type |-> "SIZE", size |-> size]
        <3>a. ToClient(header) /\ spc' = "stream" /\ UNCHANGED c2s
            BY <1>10, <2>2 DEF SendHeader, Answer
        <3>b. header \in ServerFrame /\ header.type = "SIZE" /\ header.size = size
            BY FramesSent DEF TypeInv, TypeOK
        <3>c. ClientOpen => cpc \in {"create", "recv"} /\ s2c = <<>>
            BY <1>10 DEF SendHeader, TypeInv, TypeOK, PipeInv, Handshake, Asked, ClientOpen, ClientPcs, Quiet
        <3>d. ~ClientOpen => s2c = <<>>
            BY DEF PipeInv, Verified
        <3>e. s2c = <<>>
            BY <3>c, <3>d
        <3>f. IF up /\ ClientOpen THEN s2c' = <<header>> ELSE s2c' = <<>>
            <4>1. Append(<<>>, header) = <<header>>
                OBVIOUS
            <4> QED
                BY <3>a, <3>e, <4>1 DEF ToClient
        <3> HIDE DEF header
        <3>g. \A k \in 1..Len(s2c') : cpc \in {"create", "recv"} /\ s2c'[k] = header
            BY <3>c, <3>f
        <3>h. up /\ ClientOpen => HeaderInFlight'
            BY <3>b, <3>f DEF HeaderInFlight
        <3>5. Announced'
            BY <1>10, <3>a, <3>b, <3>g, <3>h DEF SendHeader, Announced, ClientOpen
        <3>6. Digested'
            BY <3>b, <3>g DEF Digested
        <3> QED
            BY <3>1, <3>2, <3>3, <3>4, <3>5, <3>6 DEF PipeInv
    <2> QED
        BY <2>1, <2>2
<1>11. CASE SendChunk
    <2>1. CASE ServerLeaves /\ UNCHANGED s2c
        BY <1>11, <2>1, ServerLeavesPipe DEF SendChunk, ServerLeaves, netVars
    <2>2. CASE ~(ServerLeaves /\ UNCHANGED s2c)
        <3>1. Handshake'
            BY <1>11, <2>2, QueueFrames, FramesSent
            DEF SendChunk, TypeInv, TypeOK, PipeInv, Handshake, Asked, Announced, Digested, Staged, Verified, netVars,
                VerifiedIsComplete, ClientOpen, HeaderInFlight, Quiet, ToClient, Answer, InstallError, ServerLeaves
        <3>2. Asked'
            BY <1>11, <2>2, QueueFrames, FramesSent
            DEF SendChunk, TypeInv, TypeOK, PipeInv, Handshake, Asked, Announced, Digested, Staged, Verified, netVars,
                VerifiedIsComplete, ClientOpen, HeaderInFlight, Quiet, ToClient, Answer, InstallError, ServerLeaves
        <3>3. Staged'
            BY <1>11, <2>2, QueueFrames, FramesSent
            DEF SendChunk, TypeInv, TypeOK, PipeInv, Handshake, Asked, Announced, Digested, Staged, Verified, netVars,
                VerifiedIsComplete, ClientOpen, HeaderInFlight, Quiet, ToClient, Answer, InstallError, ServerLeaves
        <3>4. Verified'
            BY <1>11, <2>2, QueueFrames, FramesSent
            DEF SendChunk, TypeInv, TypeOK, PipeInv, Handshake, Asked, Announced, Digested, Staged, Verified, netVars,
                VerifiedIsComplete, ClientOpen, HeaderInFlight, Quiet, ToClient, Answer, InstallError, ServerLeaves
        <3> DEFINE chunk == [type |-> "DATA", chunk |-> Readable[pos + 1]]
        <3>a. ToClient(chunk) /\ spc' = "stream" /\ UNCHANGED <<c2s, size>>
            BY <1>11, <2>2 DEF SendChunk, Answer
        <3>b. chunk \in ServerFrame /\ chunk.type = "DATA"
            BY <1>11, FramesSent, HandleAssumption DEF SendChunk, Readable, TypeInv, TypeOK, File
        <3>c. \A k \in 1..Len(s2c) : s2c[k].type # "INSTALL_END"
            BY <1>11 DEF SendChunk, PipeInv, Digested
        <3>d. HeaderInFlight => HeaderInFlight'
            BY <3>a, <3>b, Sent DEF TypeInv, HeaderInFlight
        <3>5. Announced'
            BY <1>11, <3>a, <3>b, <3>d, Sent DEF SendChunk, TypeInv, PipeInv, Announced
        <3>6. Digested'
            BY <3>a, <3>b, <3>c, Sent DEF TypeInv, Digested
        <3> QED
            BY <3>1, <3>2, <3>3, <3>4, <3>5, <3>6 DEF PipeInv
    <2> QED
        BY <2>1, <2>2
<1>12. CASE ReadFails
    <2>1. CASE ServerLeaves /\ UNCHANGED s2c
        BY <1>12, <2>1, ServerLeavesPipe DEF ReadFails, ServerLeaves, netVars
    <2>2. CASE ~(ServerLeaves /\ UNCHANGED s2c)
        <3>1. Handshake'
            BY <1>12, <2>2, QueueFrames, FramesSent
            DEF ReadFails, TypeInv, TypeOK, PipeInv, Handshake, Asked, Announced, Digested, Staged, Verified, netVars,
                VerifiedIsComplete, ClientOpen, HeaderInFlight, Quiet, ToClient, Answer, InstallError, ServerLeaves
        <3>2. Asked'
            BY <1>12, <2>2, QueueFrames, FramesSent
            DEF ReadFails, TypeInv, TypeOK, PipeInv, Handshake, Asked, Announced, Digested, Staged, Verified, netVars,
                VerifiedIsComplete, ClientOpen, HeaderInFlight, Quiet, ToClient, Answer, InstallError, ServerLeaves
        <3>3. Staged'
            BY <1>12, <2>2, QueueFrames, FramesSent
            DEF ReadFails, TypeInv, TypeOK, PipeInv, Handshake, Asked, Announced, Digested, Staged, Verified, netVars,
                VerifiedIsComplete, ClientOpen, HeaderInFlight, Quiet, ToClient, Answer, InstallError, ServerLeaves
        <3>4. Verified'
            BY <1>12, <2>2, QueueFrames, FramesSent
            DEF ReadFails, TypeInv, TypeOK, PipeInv, Handshake, Asked, Announced, Digested, Staged, Verified, netVars,
                VerifiedIsComplete, ClientOpen, HeaderInFlight, Quiet, ToClient, Answer, InstallError, ServerLeaves
        <3>a. ToClient(InstallError) /\ ServerLeaves
            BY <1>12, <2>2 DEF ReadFails
        <3>b. InstallError \in ServerFrame /\ InstallError.type = "INSTALL_ERROR"
            BY FramesSent DEF InstallError
        <3>c. \A k \in 1..Len(s2c) : s2c[k].type # "INSTALL_END"
            BY <1>12 DEF ReadFails, PipeInv, Digested
        <3>5. Announced'
            BY <1>12, <3>a, <3>b, Sent DEF ReadFails, ServerLeaves, TypeInv, PipeInv, Announced
        <3>6. Digested'
            BY <3>a, <3>b, <3>c, Sent DEF TypeInv, Digested
        <3> QED
            BY <3>1, <3>2, <3>3, <3>4, <3>5, <3>6 DEF PipeInv
    <2> QED
        BY <2>1, <2>2
<1>13. CASE ReachEnd
    <2>1. CASE ServerLeaves /\ UNCHANGED s2c
        BY <1>13, <2>1, ServerLeavesPipe DEF ReachEnd, ServerLeaves, netVars
    <2>2. CASE ~(ServerLeaves /\ UNCHANGED s2c)
        <3>1. Handshake'
            BY <1>13, <2>2, QueueFrames, FramesSent
            DEF ReachEnd, TypeInv, TypeOK, PipeInv, Handshake, Asked, Announced, Digested, Staged, Verified, netVars,
                VerifiedIsComplete, ClientOpen, HeaderInFlight, Quiet, ToClient, Answer, InstallError, ServerLeaves
        <3>2. Asked'
            BY <1>13, <2>2, QueueFrames, FramesSent
            DEF ReachEnd, TypeInv, TypeOK, PipeInv, Handshake, Asked, Announced, Digested, Staged, Verified, netVars,
                VerifiedIsComplete, ClientOpen, HeaderInFlight, Quiet, ToClient, Answer, InstallError, ServerLeaves
        <3>3. Staged'
            BY <1>13, <2>2, QueueFrames, FramesSent
            DEF ReachEnd, TypeInv, TypeOK, PipeInv, Handshake, Asked, Announced, Digested, Staged, Verified, netVars,
                VerifiedIsComplete, ClientOpen, HeaderInFlight, Quiet, ToClient, Answer, InstallError, ServerLeaves
        <3>4. Verified'
            BY <1>13, <2>2, QueueFrames, FramesSent
            DEF ReachEnd, TypeInv, TypeOK, PipeInv, Handshake, Asked, Announced, Digested, Staged, Verified, netVars,
                VerifiedIsComplete, ClientOpen, HeaderInFlight, Quiet, ToClient, Answer, InstallError, ServerLeaves
        <3>5. Announced'
            BY <1>13, <2>2, QueueFrames, FramesSent, NothingStreamed
            DEF ReachEnd, TypeInv, TypeOK, PipeInv, Asked, Announced, Digested, Handshake, netVars,
                ClientOpen, HeaderInFlight, Quiet, ToClient, Answer, InstallError, ServerLeaves
        <3>6. Digested'
            BY <1>13, <2>2, QueueFrames, FramesSent, NothingStreamed
            DEF ReachEnd, TypeInv, TypeOK, PipeInv, Asked, Announced, Digested, Handshake, netVars,
                ClientOpen, HeaderInFlight, Quiet, ToClient, Answer, InstallError, ServerLeaves
        <3> QED
            BY <3>1, <3>2, <3>3, <3>4, <3>5, <3>6 DEF PipeInv
    <2> QED
        BY <2>1, <2>2
<1>14. CASE SendEnd
    <2>1. CASE ServerLeaves /\ UNCHANGED s2c
        BY <1>14, <2>1, ServerLeavesPipe DEF SendEnd, ServerLeaves, netVars
    <2>2. CASE ~(ServerLeaves /\ UNCHANGED s2c)
        <3>1. Handshake'
            BY <1>14, <2>2, QueueFrames, FramesSent
            DEF SendEnd, TypeInv, TypeOK, PipeInv, Handshake, Asked, Announced, Digested, Staged, Verified, netVars,
                VerifiedIsComplete, ClientOpen, HeaderInFlight, Quiet, ToClient, Answer, InstallError, ServerLeaves
        <3>2. Asked'
            BY <1>14, <2>2, QueueFrames, FramesSent
            DEF SendEnd, TypeInv, TypeOK, PipeInv, Handshake, Asked, Announced, Digested, Staged, Verified, netVars,
                VerifiedIsComplete, ClientOpen, HeaderInFlight, Quiet, ToClient, Answer, InstallError, ServerLeaves
        <3>3. Staged'
            BY <1>14, <2>2, QueueFrames, FramesSent
            DEF SendEnd, TypeInv, TypeOK, PipeInv, Handshake, Asked, Announced, Digested, Staged, Verified, netVars,
                VerifiedIsComplete, ClientOpen, HeaderInFlight, Quiet, ToClient, Answer, InstallError, ServerLeaves
        <3>4. Verified'
            BY <1>14, <2>2, QueueFrames, FramesSent
            DEF SendEnd, TypeInv, TypeOK, PipeInv, Handshake, Asked, Announced, Digested, Staged, Verified, netVars,
                VerifiedIsComplete, ClientOpen, HeaderInFlight, Quiet, ToClient, Answer, InstallError, ServerLeaves
        <3> DEFINE last == [type |-> "INSTALL_END", digest |-> shash]
        <3>a. \A k \in 1..Len(s2c) : s2c[k].type # "INSTALL_END"
            BY <1>14 DEF SendEnd, PipeInv, Digested
        <3>b. /\ InstallError \in ServerFrame /\ InstallError.type = "INSTALL_ERROR"
              /\ last \in ServerFrame /\ last.type = "INSTALL_END" /\ last.digest = shash
            BY FramesSent DEF InstallError, TypeInv, TypeOK
        <3>5. Announced' /\ Digested'
            <4>1. CASE Len(shash) # size
                <5>1. ToClient(InstallError) /\ ServerLeaves
                    BY <1>14, <2>2, <4>1 DEF SendEnd
                <5>2. Announced'
                    BY <1>14, <3>b, <5>1, Sent DEF SendEnd, ServerLeaves, TypeInv, PipeInv, Announced
                <5>3. Digested'
                    BY <3>a, <3>b, <5>1, Sent DEF TypeInv, Digested
                <5> QED
                    BY <5>2, <5>3
            <4>2. CASE Len(shash) = size
                <5>1. ToClient(last) /\ spc' = "request" /\ UNCHANGED c2s
                    BY <1>14, <2>2, <4>2 DEF SendEnd, Answer
                <5>2. ClientOpen => cpc \in {"create", "recv"} /\ c2s = <<>>
                    BY <1>14 DEF SendEnd, TypeInv, TypeOK, PipeInv, Handshake, Asked, ClientOpen,
                                 ClientPcs, Quiet
                <5>3. HeaderInFlight => HeaderInFlight'
                    BY <3>b, <5>1, Sent DEF TypeInv, HeaderInFlight
                <5>4. up /\ ClientOpen => expected = size \/ HeaderInFlight
                    BY <1>14, <5>2 DEF SendEnd, PipeInv, Announced
                <5>5. Announced'
                    BY <1>14, <3>b, <5>1, Sent DEF SendEnd, TypeInv, PipeInv, Announced
                <5>6. Digested'
                    BY <1>14, <3>a, <3>b, <4>2, <5>1, <5>2, <5>3, <5>4, Sent
                    DEF SendEnd, TypeInv, Digested
                <5> QED
                    BY <5>5, <5>6
            <4> QED
                BY <4>1, <4>2
        <3>6. TRUE
            OBVIOUS
        <3> QED
            BY <3>1, <3>2, <3>3, <3>4, <3>5, <3>6 DEF PipeInv
    <2> QED
        BY <2>1, <2>2
<1> QED
    BY <1>1, <1>2, <1>3, <1>4, <1>5, <1>6, <1>7, <1>8, <1>9, <1>10, <1>11, <1>12, <1>13, <1>14 DEF Server

\* Neither a new session, nor a loss, nor work on the store breaks it.
LEMMA EnvironmentPipe ==
    ASSUME DownloadInv,
           Connect \/ ConnectFails \/ ConsumeStage \/ ClientCrash \/ Drop
               \/ DeleteArchive \/ BuildArchive
    PROVE  PipeInv'
<1> USE DEF DownloadInv, serverVars, netVars, clientVars
<1>1. CASE Connect
    BY <1>1, EmptyQueue
    DEF Connect, PipeInv, Handshake, Asked, Announced, Digested, Staged, Verified, VerifiedIsComplete,
        ClientOpen
<1>2. CASE ConnectFails
    BY <1>2 DEF ConnectFails, PipeInv, Handshake, Asked, Announced, Digested, Staged, Verified,
                VerifiedIsComplete, ClientOpen
<1>3. CASE ConsumeStage
    BY <1>3 DEF ConsumeStage, PipeInv, Handshake, Asked, Announced, Digested, Staged, Verified,
                VerifiedIsComplete, ClientOpen
<1>4. CASE ClientCrash
    BY <1>4, EmptyQueue
    DEF ClientCrash, PipeInv, Handshake, Asked, Announced, Digested, Staged, Verified, VerifiedIsComplete,
        ClientOpen
<1>5. CASE Drop
    <2>1. /\ ~up' /\ UNCHANGED <<clientVars, serverVars>>
          /\ Len(c2s) \in Nat /\ Len(c2s') \in 0..Len(c2s) /\ (c2s = <<>> => c2s' = <<>>)
          /\ \A k \in 1..Len(c2s') : c2s'[k] = c2s[k]
        BY <1>5, QueuePrefix, QueueFrames, SMTT(30) DEF Drop, TypeInv, TypeOK
    <2>2. /\ Len(s2c) \in Nat /\ Len(s2c') \in 0..Len(s2c) /\ (s2c = <<>> => s2c' = <<>>)
          /\ \A k \in 1..Len(s2c') : s2c'[k] = s2c[k]
          /\ s2c' # <<>> => 1 \in 1..Len(s2c')
        BY <1>5, QueuePrefix, QueueFrames, SMTT(30) DEF Drop, TypeInv, TypeOK
    <2>3. Handshake'
        BY <2>1, <2>2 DEF PipeInv, Handshake, Quiet
    <2>4. Asked'
        BY <2>1, <2>2 DEF PipeInv, Asked, Quiet
    <2>5. Announced'
        BY <2>1, <2>2 DEF PipeInv, Announced
    <2>6. Digested'
        BY <2>1, <2>2, QueueFrames DEF PipeInv, Digested, HeaderInFlight
    <2>7. Staged' /\ Verified'
        BY <2>1, <2>2 DEF PipeInv, Staged, Verified, VerifiedIsComplete, ClientOpen
    <2> QED
        BY <2>3, <2>4, <2>5, <2>6, <2>7 DEF PipeInv
<1>6. CASE DeleteArchive
    BY <1>6 DEF DeleteArchive, PipeInv, Handshake, Asked, Announced, Digested, Staged, Verified,
                VerifiedIsComplete, ClientOpen, HeaderInFlight, Quiet
<1>7. CASE BuildArchive
    BY <1>7 DEF BuildArchive, PipeInv, Handshake, Asked, Announced, Digested, Staged, Verified,
                VerifiedIsComplete, ClientOpen, HeaderInFlight, Quiet
<1> QED
    BY <1>1, <1>2, <1>3, <1>4, <1>5, <1>6, <1>7

LEMMA NextPipe == DownloadInv /\ [Next]_vars => DownloadInv'
<1>1. CASE UNCHANGED vars
    BY <1>1 DEF DownloadInv, TypeInv, TypeOK, Places, PipeInv, Handshake, Asked, Announced, Digested,
                Staged, Verified, VerifiedIsComplete, ClientOpen, HeaderInFlight, Quiet,
                vars, netVars, storeVars, serverVars, clientVars
<1>2. TypeInv /\ [Next]_vars => TypeInv'
    BY NextType
<1> QED
    BY <1>1, <1>2, ClientPipe, ServerPipe, EnvironmentPipe DEF Next, DownloadInv

\* A download that dlr_download reports as verified left the whole file it
\* was promised, for every archive, password and bound, whatever times out,
\* breaks or is rebuilt in between, and also when an open handle does not
\* keep its bytes.
THEOREM VerifiedDownloadsAreComplete == Spec => []VerifiedIsComplete
<1>1. Init => DownloadInv
    BY InitType, InitPipe DEF DownloadInv
<1>2. DownloadInv => VerifiedIsComplete
    BY DEF DownloadInv, PipeInv, Verified, VerifiedIsComplete
<1> QED
    BY <1>1, <1>2, NextPipe, PTL DEF Spec

-----------------------------------------------------------------------------
(* What was verified is one archive that was in the store.                 *)

\* An archive in the store has been shown; a pinned handle is one of those,
\* and what was hashed is as much of it as was read.
Pinned ==
    /\ spc \in {"header", "stream", "end"} =>
        /\ handle \in shown
        /\ pos \in 0..Len(handle)
        /\ Len(shash) = pos
        /\ \A i \in 1..pos : shash[i] = handle[i]
    /\ spc = "end" => pos = Len(handle)

HashShown ==
    \/ outcome = "verified"
    \/ \E k \in 1..Len(s2c) : s2c[k].type = "INSTALL_END"
    => shash \in shown

Undecided == ClientOpen => outcome = "none"

StoreInv ==
    /\ archive \in shown \cup {Absent}
    /\ HandlePins => Pinned /\ HashShown
    /\ Undecided

LEMMA InitStore == Init => StoreInv
BY DEF Init, StoreInv, Pinned, HashShown, Undecided, ClientOpen

\* A client step shows the hash of nothing new: it only takes frames away.
LEMMA ClientStore ==
    ASSUME DownloadInv, StoreInv, Client
    PROVE  StoreInv'
<1>1. UNCHANGED <<storeVars, serverVars>>
    BY DEF Client, ClientReceiveFails, RecvHello, RecvAuthRequest, RecvAck, CheckKnownFlag, SendRequest,
           CreateStage, CreateStageFails, RecvSize, RecvData, RecvInstallError, RecvEnd, RecvReply
<1>2. \/ cpc' = "done" /\ s2c' = <<>>
          /\ (outcome' = "verified" => s2c # <<>> /\ Head(s2c).type = "INSTALL_END")
      \/ outcome' = outcome /\ ClientOpen /\ s2c' \in {s2c} \cup {q \in {Tail(s2c)} : s2c # <<>>}
    BY DEF Client, ClientReceiveFails, RecvHello, RecvAuthRequest, RecvAck, CheckKnownFlag, SendRequest,
           CreateStage, CreateStageFails, RecvSize, RecvData, RecvInstallError, RecvEnd, RecvReply,
           ClientLeaves, ClientGivesUp, ClientReading, netVars, ClientOpen
<1>3. (archive \in shown \cup {Absent})' /\ (HandlePins => Pinned')
    BY <1>1 DEF StoreInv, Pinned, storeVars, serverVars
<1>4. Undecided'
    BY <1>2 DEF StoreInv, Undecided, ClientOpen
<1>5. HandlePins => HashShown'
    <2>1. s2c \in Seq(ServerFrame)
        BY DEF DownloadInv, TypeInv, TypeOK
    <2>2. ClientOpen => outcome # "verified"
        BY DEF StoreInv, Undecided
    <2> QED
        BY <1>1, <1>2, <2>1, <2>2, QueueFrames, SMTT(30) DEF StoreInv, HashShown, storeVars, serverVars
<1> QED
    BY <1>3, <1>4, <1>5 DEF StoreInv

\* The server hashes what its handle holds, and sends the hash at the end.
LEMMA ServerStore ==
    ASSUME DownloadInv, StoreInv, Server
    PROVE  StoreInv'
<1>1. UNCHANGED <<storeVars, clientVars>>
    BY DEF Server, ServerReceiveFails, SendHello, RecvKey, SendAuthRequest, RecvPassword, RecvRequest,
           FindArchive, MeasureArchive, OpenArchive, SendHeader, SendChunk, ReadFails, ReachEnd, SendEnd
<1>2. (archive \in shown \cup {Absent})' /\ Undecided'
    BY <1>1 DEF StoreInv, Undecided, ClientOpen, storeVars, clientVars
<1>3. HandlePins => Pinned'
    <2> SUFFICES ASSUME HandlePins PROVE Pinned'
        OBVIOUS
    <2>1. CASE OpenArchive
        <3>1. CASE spc' = "header"
            <4>1. /\ archive # Absent /\ handle' = archive /\ pos' = 0 /\ shash' = <<>>
                  /\ shown' = shown
                BY <2>1, <3>1 DEF OpenArchive, Answer, ServerLeaves, storeVars
            <4>2. handle' \in shown /\ Len(handle') \in Nat /\ Len(shash') = 0
                BY <4>1, EmptyQueue DEF StoreInv, DownloadInv, TypeInv, TypeOK, File
            <4> QED
                BY <3>1, <4>1, <4>2 DEF Pinned
        <3>2. CASE spc' # "header"
            BY <2>1, <3>2 DEF OpenArchive, Answer, ServerLeaves, Pinned
        <3> QED
            BY <3>1, <3>2
    <2>2. CASE SendHeader
        BY <2>2 DEF SendHeader, Answer, ServerLeaves, StoreInv, Pinned, storeVars
    <2>3. CASE SendChunk
        <3>1. /\ spc = "stream" /\ handle' = handle /\ shown' = shown
              /\ pos' = pos + 1 /\ pos < Len(handle)
              /\ shash' = Append(shash, handle[pos + 1])
              /\ spc' \in {"stream", "closed"}
            BY <2>3 DEF SendChunk, Readable, Answer, ServerLeaves, storeVars
        <3>2. shash \in File /\ handle \in File /\ Len(handle) \in Nat
            BY DEF DownloadInv, TypeInv, TypeOK, File
        <3>3. pos \in 0..Len(handle) /\ Len(shash) = pos /\ \A i \in 1..pos : shash[i] = handle[i]
            BY <3>1 DEF StoreInv, Pinned
        <3>4. handle[pos + 1] \in Chunk
            BY <3>1, <3>2, <3>3, ElementOfSeq DEF File
        <3>5. /\ Len(shash') = pos + 1
              /\ \A i \in 1..pos : shash'[i] = shash[i]
              /\ shash'[pos + 1] = handle[pos + 1]
            BY <3>1, <3>2, <3>3, <3>4, QueueFrames DEF File
        <3> QED
            BY <3>1, <3>2, <3>3, <3>5 DEF StoreInv, Pinned
    <2>4. CASE ReachEnd
        BY <2>4 DEF ReachEnd, Readable, StoreInv, Pinned, DownloadInv, TypeInv, TypeOK, File, storeVars
    <2>5. CASE ~(OpenArchive \/ SendHeader \/ SendChunk \/ ReachEnd)
        <3>1. spc' \notin {"header", "stream", "end"}
            BY <2>5 DEF Server, ServerReceiveFails, SendHello, RecvKey, SendAuthRequest, RecvPassword,
                        RecvRequest, FindArchive, MeasureArchive, ReadFails, SendEnd, Answer, ServerLeaves
        <3> QED
            BY <3>1 DEF Pinned
    <2> QED
        BY <2>1, <2>2, <2>3, <2>4, <2>5
<1>4. HandlePins => HashShown'
    <2> SUFFICES ASSUME HandlePins PROVE HashShown'
        OBVIOUS
    <2>1. CASE SendEnd
        <3>1. handle \in File /\ shash \in File /\ shash' = shash /\ shown' = shown /\ handle \in shown
            BY <2>1 DEF SendEnd, DownloadInv, TypeInv, TypeOK, StoreInv, Pinned, storeVars
        <3>2. Len(shash) = Len(handle) /\ \A i \in 1..Len(shash) : shash[i] = handle[i]
            BY <2>1 DEF SendEnd, StoreInv, Pinned
        <3>3. shash = handle
            BY <3>1, <3>2, SeqEqual DEF File
        <3> QED
            BY <3>1, <3>3 DEF HashShown
    <2>2. CASE ~SendEnd
        <3>1. \/ s2c' = s2c
              \/ \E f \in ServerFrame : f.type # "INSTALL_END" /\ ToClient(f)
            <4>1. CASE SendChunk
                <5>1. Readable[pos + 1] \in Chunk
                    BY <4>1, HandleAssumption
                    DEF SendChunk, Readable, DownloadInv, TypeInv, TypeOK, File
                <5> QED
                    BY <4>1, <5>1, FramesSent DEF SendChunk, Answer
            <4>2. CASE RecvRequest
                <5>1. \A t \in QueryAnswers : [type |-> t] \in ServerFrame /\ t # "INSTALL_END"
                    BY FramesSent DEF QueryAnswers
                <5> QED
                    BY <4>2, <5>1 DEF RecvRequest, ServerLeaves
            <4>3. CASE ~SendChunk /\ ~RecvRequest
                BY <2>2, <4>3, FramesSent
                DEF Server, ServerReceiveFails, SendHello, RecvKey, SendAuthRequest, RecvPassword,
                    FindArchive, MeasureArchive, OpenArchive, SendHeader, ReadFails, ReachEnd,
                    Answer, ServerLeaves, InstallError, netVars, DownloadInv, TypeInv, TypeOK
            <4> QED
                BY <4>1, <4>2, <4>3
        <3>2. (\E k \in 1..Len(s2c') : s2c'[k].type = "INSTALL_END")
                 => \E k \in 1..Len(s2c) : s2c[k].type = "INSTALL_END"
            <4>1. CASE s2c' = s2c
                BY <4>1
            <4>2. CASE \E f \in ServerFrame : f.type # "INSTALL_END" /\ ToClient(f)
                BY <4>2, Sent DEF DownloadInv, TypeInv
            <4> QED
                BY <3>1, <4>1, <4>2
        <3>3. CASE OpenArchive \/ SendChunk
            <4>1. outcome # "verified" /\ \A k \in 1..Len(s2c) : s2c[k].type # "INSTALL_END"
                BY <3>3 DEF OpenArchive, SendChunk, DownloadInv, PipeInv, Verified, Digested
            <4> QED
                BY <1>1, <3>2, <4>1 DEF HashShown, clientVars
        <3>4. CASE ~(OpenArchive \/ SendChunk)
            <4>1. shash' = shash /\ shown' = shown /\ outcome' = outcome
                BY <1>1, <2>2, <3>4
                DEF Server, ServerReceiveFails, SendHello, RecvKey, SendAuthRequest, RecvPassword,
                    RecvRequest, FindArchive, MeasureArchive, SendHeader, ReadFails, ReachEnd,
                    storeVars, clientVars
            <4> QED
                BY <3>2, <4>1 DEF StoreInv, HashShown
        <3> QED
            BY <3>3, <3>4
    <2> QED
        BY <2>1, <2>2
<1> QED
    BY <1>2, <1>3, <1>4 DEF StoreInv

\* Another process only adds to what was shown.
LEMMA EnvironmentStore ==
    ASSUME DownloadInv, StoreInv,
           Connect \/ ConnectFails \/ ConsumeStage \/ ClientCrash \/ Drop
               \/ DeleteArchive \/ BuildArchive
    PROVE  StoreInv'
<1> USE DEF storeVars, serverVars, netVars, clientVars
<1>1. CASE Connect
    BY <1>1, EmptyQueue DEF Connect, StoreInv, Pinned, HashShown, Undecided, ClientOpen
<1>2. CASE ConnectFails
    BY <1>2 DEF ConnectFails, StoreInv, Pinned, HashShown, Undecided, ClientOpen
<1>3. CASE ConsumeStage
    BY <1>3 DEF ConsumeStage, StoreInv, Pinned, HashShown, Undecided, ClientOpen
<1>4. CASE ClientCrash
    BY <1>4, EmptyQueue DEF ClientCrash, StoreInv, Pinned, HashShown, Undecided, ClientOpen
<1>5. CASE Drop
    BY <1>5, QueuePrefix, QueueFrames
    DEF Drop, StoreInv, Pinned, HashShown, Undecided, ClientOpen, DownloadInv, TypeInv, TypeOK
<1>6. CASE DeleteArchive
    BY <1>6 DEF DeleteArchive, StoreInv, Pinned, HashShown, Undecided, ClientOpen
<1>7. CASE BuildArchive
    BY <1>7 DEF BuildArchive, StoreInv, Pinned, HashShown, Undecided, ClientOpen
<1> QED
    BY <1>1, <1>2, <1>3, <1>4, <1>5, <1>6, <1>7

LEMMA NextStore == DownloadInv /\ StoreInv /\ [Next]_vars => StoreInv'
<1>1. CASE UNCHANGED vars
    BY <1>1 DEF StoreInv, Pinned, HashShown, Undecided, ClientOpen, vars, netVars, storeVars,
                serverVars, clientVars
<1> QED
    BY <1>1, ClientStore, ServerStore, EnvironmentStore DEF Next

DeliveryInv == DownloadInv /\ StoreInv

LEMMA DeliveryInvariant == Spec => []DeliveryInv
<1>1. Init => DeliveryInv
    BY InitType, InitPipe, InitStore DEF DeliveryInv, DownloadInv
<1>2. DeliveryInv /\ [Next]_vars => DeliveryInv'
    BY NextPipe, NextStore DEF DeliveryInv
<1> QED
    BY <1>1, <1>2, PTL DEF Spec

\* With handles that keep their bytes, a verified download is one archive as
\* it once was in the store, although dlr_reg_rebuild may replace it between
\* dlr_file_size, the open and every read.
THEOREM VerifiedDownloadsWereShown == Spec => []VerifiedWasShown
<1>1. DeliveryInv => VerifiedWasShown
    BY DEF DeliveryInv, DownloadInv, PipeInv, Verified, VerifiedIsComplete, VerifiedWasShown,
           StoreInv, HashShown
<1> QED
    BY <1>1, DeliveryInvariant, PTL

-----------------------------------------------------------------------------
(* dlr_download implements DlrDelivery.                                    *)

LEMMA InitDelivery == Init => Delivery!Init
BY DEF Init, Delivery!Init, Result

\* What a client step decides: nothing, a failure, or a delivery, of which
\* closing the file may lose the end.
LEMMA ClientDelivers ==
    ASSUME DeliveryInv, Client
    PROVE  /\ shown' = shown /\ outcome = "none"
           /\ \/ outcome' \in {"none", "answered", "failed", "refused"}
              \/ outcome' = "verified" /\ stage' \in Closed /\ marred' = (stage' # stage)
                    /\ cpc = "recv"
<1>1. ClientOpen
    BY DEF Client, ClientReceiveFails, RecvHello, RecvAuthRequest, RecvAck, CheckKnownFlag, SendRequest,
           CreateStage, CreateStageFails, RecvSize, RecvData, RecvInstallError, RecvEnd, RecvReply,
           ClientReading, ClientOpen
<1>2. outcome = "none"
    BY <1>1 DEF DeliveryInv, StoreInv, Undecided
<1> QED
    BY <1>2 DEF Client, ClientReceiveFails, RecvHello, RecvAuthRequest, RecvAck, CheckKnownFlag, SendRequest,
           CreateStage, CreateStageFails, RecvSize, RecvData, RecvInstallError, RecvEnd, RecvReply,
           ClientLeaves, ClientGivesUp, storeVars, netVars

\* Every step is a step of the delivery, or one its caller does not see.
LEMMA StepDelivers ==
    ASSUME HandlePins, DeliveryInv, DeliveryInv', [Next]_vars
    PROVE  [Delivery!Next]_(Delivery!vars)
<1> USE DEF Delivery!Next, Delivery!vars, Result
<1>1. CASE Client
    <2>1. CASE outcome' = "verified"
        <3>1. /\ outcome = "none" /\ shown' = shown /\ cpc = "recv"
              /\ stage' \in Closed /\ marred' = (stage' # stage)
            BY <1>1, <2>1, ClientDelivers
        <3>2. chash' \in shown' /\ (marred' \/ stage' = chash')
            BY <2>1
            DEF DeliveryInv, DownloadInv, PipeInv, Verified, VerifiedIsComplete, StoreInv, HashShown
        <3>3. stage = chash /\ stage \in File /\ chash' = chash
            BY <1>1, <2>1, <3>1
            DEF DeliveryInv, DownloadInv, TypeInv, Places, PipeInv, Staged, Client, ClientReceiveFails,
                RecvHello, RecvAuthRequest, RecvAck, CheckKnownFlag, SendRequest, CreateStage,
                CreateStageFails, RecvSize, RecvData, RecvInstallError, RecvEnd, RecvReply,
                ClientLeaves, ClientGivesUp
        <3>4. CASE stage' = stage
            BY <2>1, <3>1, <3>2, <3>4 DEF Delivery!Deliver
        <3>5. CASE stage' # stage
            <4>1. marred' /\ "flush" \in Faults /\ \E n \in 0..Len(stage) : stage' = SubSeq(stage, 1, n)
                BY <3>1, <3>3, <3>5, ClosedStage
            <4> QED
                BY <2>1, <3>1, <3>2, <3>3, <4>1 DEF Delivery!Damage
        <3> QED
            BY <3>4, <3>5
    <2>2. CASE outcome' \in {"failed", "refused"}
        BY <1>1, <2>2, ClientDelivers DEF Delivery!Fail
    <2>3. CASE outcome' \in {"none", "answered"}
        BY <1>1, <2>3, ClientDelivers
    <2> QED
        BY <1>1, <2>1, <2>2, <2>3, ClientDelivers
<1>2. CASE Server
    <2>1. UNCHANGED <<storeVars, clientVars>>
        BY <1>2 DEF Server, ServerReceiveFails, SendHello, RecvKey, SendAuthRequest, RecvPassword, RecvRequest,
               FindArchive, MeasureArchive, OpenArchive, SendHeader, SendChunk, ReadFails, ReachEnd, SendEnd
    <2> QED
        BY <2>1 DEF storeVars, clientVars
<1>3. CASE Connect \/ ConsumeStage
    BY <1>3 DEF Connect, ConsumeStage, Delivery!Begin, storeVars
<1>4. CASE ConnectFails
    BY <1>4 DEF ConnectFails, Delivery!Fail, storeVars
<1>5. CASE ClientCrash
    <2>1. outcome = "none" /\ outcome' = "none" /\ shown' = shown
        BY <1>5 DEF ClientCrash, DeliveryInv, StoreInv, Undecided, storeVars
    <2> QED
        BY <2>1
<1>6. CASE BuildArchive
    BY <1>6 DEF BuildArchive, Delivery!Offer, clientVars
<1>7. CASE Drop \/ DeleteArchive \/ UNCHANGED vars
    BY <1>7 DEF Drop, DeleteArchive, vars, storeVars, clientVars
<1> QED
    BY <1>1, <1>2, <1>3, <1>4, <1>5, <1>6, <1>7 DEF Next

\* The caller of dlr_download sees all or nothing: a whole archive that the
\* store has offered, or a failure and nothing to install from.
THEOREM DownloadImplementsDelivery ==
    ASSUME HandlePins
    PROVE  Spec => DeliverySpec
<1>1. DeliveryInv /\ DeliveryInv' /\ [Next]_vars => [Delivery!Next]_(Delivery!vars)
    BY StepDelivers
<1> QED
    BY <1>1, InitDelivery, DeliveryInvariant, PTL DEF Spec, DeliverySpec, Delivery!Spec

-----------------------------------------------------------------------------
(* Between downloads no part of an archive is left behind.                 *)

\* The staging file outside a download, where no deletion has failed: the
\* next download only starts from an empty file, so this is about what the
\* last one left.
Leftover == HandlePins /\ cpc # "recv" /\ ~marred => stage \in {Absent, <<>>} \cup shown

\* A client step leaves the file alone, empties it, deletes it, or has
\* verified it; a deletion that fails is remembered.
LEMMA ClientLeftover ==
    ASSUME DeliveryInv, DeliveryInv', Leftover, Client
    PROVE  Leftover'
<1> SUFFICES ASSUME HandlePins, cpc' # "recv", ~marred'
             PROVE  stage' \in {Absent, <<>>} \cup shown'
    BY DEF Leftover
<1>1. shown' = shown
    BY ClientDelivers
<1>2. CASE outcome' = "verified"
    BY <1>2 DEF DeliveryInv, DownloadInv, PipeInv, Verified, VerifiedIsComplete, StoreInv, HashShown
<1>3. CASE cpc = "recv" /\ outcome' # "verified"
    <2>1. RemoveStage(Closed)
        BY <1>3 DEF Client, ClientReceiveFails, RecvHello, RecvAuthRequest, RecvAck, CheckKnownFlag, SendRequest,
               CreateStage, CreateStageFails, RecvSize, RecvData, RecvInstallError, RecvEnd, RecvReply,
               ClientLeaves, ClientGivesUp
    <2> QED
        BY <2>1 DEF RemoveStage
<1>4. CASE cpc # "recv"
    <2>1. stage' \in {stage, Absent, <<>>} /\ marred' = marred
        BY <1>4 DEF Client, ClientReceiveFails, RecvHello, RecvAuthRequest, RecvAck, CheckKnownFlag, SendRequest,
               CreateStage, CreateStageFails, RecvSize, RecvData, RecvInstallError, RecvEnd, RecvReply,
               ClientLeaves, ClientGivesUp
    <2> QED
        BY <1>1, <1>4, <2>1 DEF Leftover
<1> QED
    BY <1>2, <1>3, <1>4

LEMMA NextLeftover == DeliveryInv /\ DeliveryInv' /\ Leftover /\ [Next]_vars => Leftover'
<1> SUFFICES ASSUME DeliveryInv, DeliveryInv', Leftover, [Next]_vars PROVE Leftover'
    OBVIOUS
<1> USE DEF storeVars, serverVars, netVars, clientVars
<1>1. CASE Server
    <2>1. UNCHANGED <<storeVars, clientVars>>
        BY <1>1 DEF Server, ServerReceiveFails, SendHello, RecvKey, SendAuthRequest, RecvPassword, RecvRequest,
               FindArchive, MeasureArchive, OpenArchive, SendHeader, SendChunk, ReadFails, ReachEnd, SendEnd
    <2> QED
        BY <2>1 DEF Leftover
<1>2. CASE Connect
    BY <1>2 DEF Connect, Leftover
<1>3. CASE ConnectFails
    BY <1>3 DEF ConnectFails, Leftover
<1>4. CASE ConsumeStage
    BY <1>4 DEF ConsumeStage, RemoveStage, Leftover
<1>5. CASE ClientCrash
    BY <1>5 DEF ClientCrash, Leftover, DeliveryInv, DownloadInv, TypeInv, TypeOK
<1>6. CASE Drop \/ DeleteArchive \/ UNCHANGED vars
    BY <1>6 DEF Drop, DeleteArchive, vars, Leftover
<1>7. CASE BuildArchive
    BY <1>7 DEF BuildArchive, Leftover
<1> QED
    BY <1>1, <1>2, <1>3, <1>4, <1>5, <1>6, <1>7, ClientLeftover DEF Next

\* With handles that keep their bytes, the staging file between downloads is
\* missing, empty or a whole archive of the store, whatever dlr_download met,
\* unless deleting it failed or the client was killed while writing it.
THEOREM NoPartLeftBehind == Spec => []NoPartialStage
<1>1. Init => Leftover
    BY DEF Init, Leftover
<1>2. Leftover => NoPartialStage
    BY DEF Leftover, NoPartialStage, ClientOpen
<1> QED
    BY <1>1, <1>2, NextLeftover, DeliveryInvariant, PTL DEF Spec

-----------------------------------------------------------------------------
(* The two sides agree on where they are.                                  *)

\* What the client has not read yet is what its place in the protocol
\* expects; before that, nothing is on its way (Handshake).
Spoken ==
    \A k \in 1..Len(s2c) :
        /\ cpc = "hello" => s2c[k].type = "HELLO"
        /\ cpc = "auth" => s2c[k].type = "AUTH_REQUEST"
        /\ cpc = "ack" => \/ s2c[k].type = "HELLO_ACK"
                          \/ s2c[k].type = "ERROR" /\ cpw # ServerPassword
        /\ cpc = "reply" => s2c[k].type \in QueryAnswers
        /\ cpc \in {"create", "recv"} =>
               s2c[k].type \in {"SIZE", "DATA", "INSTALL_END", "INSTALL_ERROR"}

\* So is what the server has not read, and that holds even after the client
\* has left: the key comes first, a password is that of this session, and a
\* request waits behind the key only when no password lies between.
Heard ==
    /\ spc \in {"hello", "auth"} => c2s = <<>>
    /\ (spc = "password" \/ (spc = "key" /\ NeedsPassword)) => Len(c2s) <= 1
    /\ spc = "key" /\ cpc \in {"auth", "opened", "request"} /\ up => c2s # <<>>
    /\ \A k \in 1..Len(c2s) :
        /\ spc = "key" => \/ k = 1 /\ c2s[k].type = "KEY"
                          \/ k # 1 /\ c2s[k].type \in Requests
        /\ spc = "password" => c2s[k].type = "PASSWORD" /\ c2s[k].pw = cpw
        /\ spc \in Serving => c2s[k].type \in Requests

SpeechInv == Spoken /\ Heard /\ NoServiceWithoutPassword

\* What a client step does to the two queues: it leaves, or it reads at most
\* one frame and sends at most one.
LEMMA ClientQueues ==
    ASSUME Client
    PROVE  /\ UNCHANGED <<spc, up, cpw>>
           /\ \/ cpc' = "done" /\ s2c' = <<>> /\ c2s' = c2s
              \/ /\ cpc' # "done"
                 /\ cpc = "hello" => /\ s2c # <<>> /\ s2c' = Tail(s2c)
                                     /\ ToServer([type |-> "KEY"])
                                     /\ cpc' \in {"auth", "opened"}
                 /\ cpc = "auth" => /\ s2c # <<>> /\ s2c' = Tail(s2c)
                                    /\ cpw # NoPassword
                                    /\ ToServer([type |-> "PASSWORD", pw |-> cpw])
                                    /\ cpc' = "ack"
                 /\ cpc = "ack" => s2c # <<>> /\ s2c' = Tail(s2c) /\ c2s' = c2s /\ cpc' = "opened"
                 /\ cpc = "opened" => s2c' = s2c /\ c2s' = c2s /\ cpc' = "request"
                 /\ cpc = "request" => /\ s2c' = s2c /\ ToServer([type |-> creq])
                                       /\ cpc' \in {"create", "reply"}
                 /\ cpc = "create" => s2c' = s2c /\ c2s' = c2s /\ cpc' = "recv"
                 /\ cpc = "recv" => s2c # <<>> /\ s2c' = Tail(s2c) /\ c2s' = c2s /\ cpc' = "recv"
                 /\ cpc \in {"hello", "auth", "ack", "opened", "request", "create", "recv"}
BY DEF Client, ClientReceiveFails, RecvHello, RecvAuthRequest, RecvAck, CheckKnownFlag, SendRequest,
       CreateStage, CreateStageFails, RecvSize, RecvData, RecvInstallError, RecvEnd, RecvReply,
       ClientLeaves, ClientGivesUp, serverVars, netVars

\* The frames of what the server has not read, after a send.
LEMMA SentToServer ==
    ASSUME TypeOK, NEW f \in ClientFrame, ToServer(f)
    PROVE  \/ c2s' = c2s /\ (~up \/ ~ServerOpen)
           \/ /\ up /\ ServerOpen
              /\ Len(c2s') = Len(c2s) + 1 /\ Len(c2s) \in Nat
              /\ c2s = <<>> <=> Len(c2s) = 0
              /\ c2s' # <<>>
              /\ \A k \in 1..Len(c2s) : c2s'[k] = c2s[k]
              /\ c2s'[Len(c2s) + 1] = f
<1>1. CASE ~up \/ ~ServerOpen
    BY <1>1 DEF ToServer
<1>2. CASE up /\ ServerOpen
    <2>1. c2s' = Append(c2s, f) /\ c2s \in Seq(ClientFrame)
        BY <1>2 DEF ToServer, TypeOK
    <2>2. c2s' # <<>>
        BY <2>1
    <2> QED
        BY <1>2, <2>1, <2>2, QueueFrames
<1> QED
    BY <1>1, <1>2

LEMMA ClientSpeech ==
    ASSUME DownloadInv, SpeechInv, Client
    PROVE  SpeechInv'
<1> USE DEF DownloadInv
<1>0. s2c \in Seq(ServerFrame) /\ c2s \in Seq(ClientFrame) /\ Len(c2s) \in Nat /\ Len(s2c) \in Nat
    BY QueueFrames DEF TypeInv, TypeOK
<1>1. Spoken'
    <2>1. CASE s2c' = <<>>
        BY <2>1 DEF Spoken
    <2>2. CASE cpc \in {"opened", "request"}
        BY <2>2, ClientQueues DEF PipeInv, Handshake, Spoken
    <2>3. CASE cpc \in {"hello", "auth", "ack"} /\ cpc' # "done"
        <3>1. Len(s2c) <= 1 /\ s2c # <<>> /\ s2c' = Tail(s2c)
            BY <2>3, ClientQueues, EmptyQueue DEF PipeInv, Handshake, Quiet
        <3>2. Len(s2c) # 0 /\ Len(s2c') = Len(s2c) - 1
            BY <1>0, <3>1, QueueFrames
        <3>3. Len(s2c') = 0
            BY <1>0, <3>1, <3>2
        <3> QED
            BY <3>3 DEF Spoken
    <2>4. CASE cpc \in {"create", "recv"} /\ cpc' # "done"
        <3>1. CASE cpc = "create"
            BY <2>4, <3>1, ClientQueues DEF SpeechInv, Spoken
        <3>2. CASE cpc = "recv"
            <4>1. cpc' = "recv" /\ s2c # <<>> /\ s2c' = Tail(s2c)
                BY <2>4, <3>2, ClientQueues
            <4>2. /\ \A k \in 1..Len(s2c') : s2c'[k] = s2c[k + 1]
                  /\ Len(s2c') = Len(s2c) - 1
                BY <1>0, <4>1, QueueFrames
            <4>3. \A k \in 1..Len(s2c') : k + 1 \in 1..Len(s2c)
                BY <1>0, <4>2
            <4> QED
                BY <3>2, <4>1, <4>2, <4>3 DEF SpeechInv, Spoken
        <3> QED
            BY <2>4, <3>1, <3>2
    <2> QED
        BY <2>1, <2>2, <2>3, <2>4, ClientQueues
<1>2. Heard'
    <2>0. spc' = spc /\ up' = up /\ cpw' = cpw
        BY ClientQueues
    <2>1. CASE c2s' = c2s /\ (cpc' \notin {"auth", "opened", "request"} \/ cpc \in {"auth", "opened", "request"})
        BY <2>0, <2>1 DEF SpeechInv, Heard
    <2>2. CASE cpc = "ack" /\ cpc' # "done"
        <3>1. spc # "key" /\ c2s' = c2s
            BY <2>2, ClientQueues DEF PipeInv, Handshake
        <3> QED
            BY <2>0, <3>1 DEF SpeechInv, Heard
    <2>3. CASE cpc = "hello" /\ cpc' # "done"
        <3>1. spc \in {"key", "closed"} /\ c2s = <<>> /\ ToServer([type |-> "KEY"])
            BY <2>3, ClientQueues DEF PipeInv, Handshake
        <3>2. \/ c2s' = <<>> /\ (~up \/ spc = "closed")
              \/ spc = "key" /\ Len(c2s') = 1 /\ c2s' # <<>> /\ c2s'[1] = [type |-> "KEY"]
            BY <3>1, SentToServer, FramesSent, EmptyQueue DEF TypeInv, ServerOpen
        <3>3. CASE c2s' = <<>> /\ (~up \/ spc = "closed")
            BY <2>0, <3>1, <3>3, EmptyQueue DEF Heard, Serving
        <3>4. CASE spc = "key" /\ Len(c2s') = 1 /\ c2s' # <<>> /\ c2s'[1] = [type |-> "KEY"]
            BY <2>0, <3>4 DEF Heard, Serving
        <3> QED
            BY <3>2, <3>3, <3>4
    <2>4. CASE cpc = "auth" /\ cpc' # "done"
        <3>1. /\ spc \in {"password", "closed"} /\ c2s = <<>>
              /\ cpw \in Passwords /\ ToServer([type |-> "PASSWORD", pw |-> cpw])
            BY <2>4, ClientQueues DEF PipeInv, Handshake, Quiet, TypeInv, TypeOK
        <3>2. \/ c2s' = <<>>
              \/ spc = "password" /\ Len(c2s') = 1 /\ c2s'[1] = [type |-> "PASSWORD", pw |-> cpw]
            BY <3>1, SentToServer, FramesSent, EmptyQueue DEF TypeInv, ServerOpen
        <3>3. CASE c2s' = <<>>
            BY <2>0, <3>1, <3>3, EmptyQueue DEF Heard, Serving
        <3>4. CASE spc = "password" /\ Len(c2s') = 1 /\ c2s'[1] = [type |-> "PASSWORD", pw |-> cpw]
            <4>1. c2s'[1].type = "PASSWORD" /\ c2s'[1].pw = cpw
                BY <3>4
            <4> QED
                BY <2>0, <3>4, <4>1 DEF Heard, Serving
        <3> QED
            BY <3>2, <3>3, <3>4
    <2>5. CASE cpc = "request" /\ cpc' # "done"
        <3>1. /\ spc \in {"key", "request", "closed"} /\ ToServer([type |-> creq])
              /\ spc = "key" => ~NeedsPassword
              /\ cpc' \in {"create", "reply"}
            BY <2>5, ClientQueues DEF PipeInv, Handshake, NeedsPassword
        <3>2. creq \in Requests /\ [type |-> creq] \in ClientFrame
            BY <2>5, FramesSent DEF TypeInv, TypeOK, Places, Purposes
        <3>3. CASE c2s' = c2s
            BY <2>0, <3>1, <3>3 DEF SpeechInv, Heard
        <3>4. CASE c2s' # c2s
            <4>1. /\ up /\ spc \in {"key", "request"}
                  /\ Len(c2s') = Len(c2s) + 1
                  /\ c2s = <<>> <=> Len(c2s) = 0
                  /\ \A k \in 1..Len(c2s) : c2s'[k] = c2s[k]
                  /\ c2s'[Len(c2s) + 1] = [type |-> creq]
                BY <3>1, <3>2, <3>4, SentToServer DEF TypeInv, ServerOpen
            <4>2. \A k \in 1..Len(c2s') :
                     \/ k \in 1..Len(c2s) /\ c2s'[k] = c2s[k]
                     \/ k = Len(c2s) + 1 /\ c2s'[k].type \in Requests
                BY <1>0, <3>2, <4>1
            <4>3. spc = "key" => Len(c2s) # 0
                BY <2>5, <4>1 DEF SpeechInv, Heard
            <4> QED
                BY <1>0, <2>0, <3>1, <4>1, <4>2, <4>3 DEF SpeechInv, Heard, Serving
        <3> QED
            BY <3>3, <3>4
    <2> QED
        BY <2>1, <2>2, <2>3, <2>4, <2>5, ClientQueues
<1>3. NoServiceWithoutPassword'
    <2>1. spc' = spc /\ cpw' = cpw
        BY ClientQueues
    <2>2. s2c' = <<>> \/ s2c' = s2c \/ (s2c # <<>> /\ s2c' = Tail(s2c))
        BY ClientQueues
    <2>3. \A k \in 1..Len(s2c') : \E i \in 1..Len(s2c) : s2c'[k] = s2c[i]
        <3>1. CASE s2c # <<>> /\ s2c' = Tail(s2c)
            <4>1. /\ \A k \in 1..Len(s2c') : s2c'[k] = s2c[k + 1]
                  /\ Len(s2c') = Len(s2c) - 1
                BY <1>0, <3>1, QueueFrames
            <4>2. \A k \in 1..Len(s2c') : k + 1 \in 1..Len(s2c)
                BY <1>0, <4>1
            <4> QED
                BY <4>1, <4>2
        <3> QED
            BY <2>2, <3>1, EmptyQueue
    <2> QED
        BY <2>1, <2>3 DEF SpeechInv, NoServiceWithoutPassword
<1> QED
    BY <1>1, <1>2, <1>3 DEF SpeechInv

\* Where a client that is still there can be, from where the server is.
LEMMA ClientWhere ==
    ASSUME DownloadInv, ClientOpen
    PROVE  /\ spc = "hello" => cpc = "hello"
           /\ spc = "auth" => cpc = "auth"
           /\ spc = "password" /\ c2s # <<>> => cpc = "ack"
           /\ spc = "request" /\ c2s # <<>> =>
                 \/ cpc = "reply"
                 \/ cpc \in {"create", "recv"} /\ Head(c2s).type # "QUERY"
           /\ spc \in {"find", "size", "open", "header", "stream", "end"} => cpc \in {"create", "recv"}
<1>1. cpc \in {"hello", "auth", "ack", "opened", "request", "create", "recv", "reply"}
    BY DEF DownloadInv, TypeInv, TypeOK, ClientPcs, ClientOpen
<1>2. c2s # <<>> => Head(c2s) = c2s[1] /\ 1 \in 1..Len(c2s)
    BY QueueFrames DEF DownloadInv, TypeInv, TypeOK
<1>3. cpc \in {"create", "recv"} /\ spc = "request" /\ c2s # <<>> => Head(c2s).type # "QUERY"
    BY <1>2 DEF DownloadInv, PipeInv, Asked, Quiet
<1> QED
    BY <1>1, <1>3 DEF DownloadInv, PipeInv, Handshake, Asked, Quiet

\* What the server says at each point of dlr_server_session.
LEMMA ServerSays ==
    ASSUME DownloadInv, Server
    PROVE  \/ s2c' = s2c
           \/ \E f \in ServerFrame :
                /\ ToClient(f)
                /\ \/ spc = "hello" /\ f.type = "HELLO"
                   \/ spc = "auth" /\ f.type = "AUTH_REQUEST"
                   \/ spc = "password" /\ c2s # <<>> /\ f.type = "HELLO_ACK"
                   \/ /\ spc = "password" /\ c2s # <<>> /\ f.type = "ERROR"
                      /\ ~(Head(c2s).type = "PASSWORD" /\ Head(c2s).pw = ServerPassword)
                   \/ /\ spc = "request" /\ c2s # <<>> /\ Head(c2s).type = "QUERY"
                      /\ f.type \in QueryAnswers
                   \/ /\ spc \in {"find", "size", "open", "header", "stream", "end"}
                      /\ f.type \in {"SIZE", "DATA", "INSTALL_END", "INSTALL_ERROR"}
<1> USE FramesSent DEF DownloadInv, TypeInv, TypeOK, Answer, ServerLeaves
<1>1. CASE SendHello \/ SendAuthRequest
    BY <1>1 DEF SendHello, SendAuthRequest
<1>2. CASE RecvPassword
    BY <1>2 DEF RecvPassword
<1>3. CASE RecvRequest
    <2>1. \A t \in QueryAnswers : [type |-> t] \in ServerFrame
        BY DEF QueryAnswers
    <2> QED
        BY <1>3, <2>1 DEF RecvRequest
<1>4. CASE FindArchive \/ MeasureArchive \/ OpenArchive
    BY <1>4 DEF FindArchive, MeasureArchive, OpenArchive, InstallError
<1>5. CASE SendHeader
    BY <1>5 DEF SendHeader
<1>6. CASE SendChunk
    <2>1. Readable[pos + 1] \in Chunk
        BY <1>6, HandleAssumption DEF SendChunk, Readable, File
    <2> QED
        BY <1>6, <2>1 DEF SendChunk
<1>7. CASE ReadFails
    BY <1>7 DEF ReadFails, InstallError
<1>8. CASE SendEnd
    BY <1>8 DEF SendEnd, InstallError
<1>9. CASE ServerReceiveFails \/ RecvKey \/ ReachEnd
    BY <1>9 DEF ServerReceiveFails, RecvKey, ReachEnd, netVars
<1> QED
    BY <1>1, <1>2, <1>3, <1>4, <1>5, <1>6, <1>7, <1>8, <1>9 DEF Server

\* What the server reads at each point, and where that takes it.
LEMMA ServerHears ==
    ASSUME Server
    PROVE  /\ UNCHANGED <<cpc, cpw, up>>
           /\ \/ spc' = "closed" /\ c2s' = <<>>
              \/ spc = "hello" /\ spc' = "key" /\ c2s' = c2s
              \/ spc = "auth" /\ spc' = "password" /\ c2s' = c2s
              \/ spc \in Serving /\ spc' \in Serving /\ c2s' = c2s
              \/ /\ c2s # <<>> /\ c2s' = Tail(c2s)
                 /\ \/ spc = "key" /\ NeedsPassword /\ spc' = "auth"
                    \/ spc = "key" /\ ~NeedsPassword /\ spc' = "request"
                    \/ /\ spc = "password" /\ spc' = "request"
                       /\ Head(c2s).pw = ServerPassword
                    \/ spc = "request" /\ spc' \in {"find", "request"}
<1> USE DEF clientVars, netVars, ServerLeaves, Answer, Serving
<1>1. CASE SendHello \/ SendAuthRequest \/ RecvKey
    BY <1>1 DEF SendHello, SendAuthRequest, RecvKey
<1>2. CASE RecvPassword \/ RecvRequest \/ ServerReceiveFails
    BY <1>2 DEF RecvPassword, RecvRequest, ServerReceiveFails
<1>3. CASE FindArchive \/ MeasureArchive \/ OpenArchive \/ SendHeader
    BY <1>3 DEF FindArchive, MeasureArchive, OpenArchive, SendHeader
<1>4. CASE SendChunk \/ ReadFails \/ ReachEnd \/ SendEnd
    BY <1>4 DEF SendChunk, ReadFails, ReachEnd, SendEnd
<1> QED
    BY <1>1, <1>2, <1>3, <1>4 DEF Server

LEMMA ServerSpeech ==
    ASSUME DownloadInv, SpeechInv, Server
    PROVE  SpeechInv'
<1>0. s2c \in Seq(ServerFrame) /\ c2s \in Seq(ClientFrame) /\ Len(c2s) \in Nat /\ TypeOK
    BY QueueFrames DEF DownloadInv, TypeInv, TypeOK
<1>1. UNCHANGED <<cpc, cpw, up>>
    BY ServerHears
<1>2. c2s # <<>> => /\ Head(c2s) = c2s[1] /\ 1 \in 1..Len(c2s)
                    /\ Len(Tail(c2s)) = Len(c2s) - 1
                    /\ \A k \in 1..Len(Tail(c2s)) : Tail(c2s)[k] = c2s[k + 1] /\ k + 1 \in 1..Len(c2s)
    BY <1>0, QueueFrames
<1>3. Spoken'
    <2>1. CASE s2c' = s2c
        BY <1>1, <2>1 DEF SpeechInv, Spoken
    <2>2. CASE s2c' # s2c
        <3>1. PICK f \in ServerFrame :
                /\ ToClient(f)
                /\ \/ spc = "hello" /\ f.type = "HELLO"
                   \/ spc = "auth" /\ f.type = "AUTH_REQUEST"
                   \/ spc = "password" /\ c2s # <<>> /\ f.type = "HELLO_ACK"
                   \/ /\ spc = "password" /\ c2s # <<>> /\ f.type = "ERROR"
                      /\ ~(Head(c2s).type = "PASSWORD" /\ Head(c2s).pw = ServerPassword)
                   \/ /\ spc = "request" /\ c2s # <<>> /\ Head(c2s).type = "QUERY"
                      /\ f.type \in QueryAnswers
                   \/ /\ spc \in {"find", "size", "open", "header", "stream", "end"}
                      /\ f.type \in {"SIZE", "DATA", "INSTALL_END", "INSTALL_ERROR"}
            BY <2>2, ServerSays
        <3>2. /\ ClientOpen
              /\ \A k \in 1..Len(s2c') :
                    \/ k \in 1..Len(s2c) /\ s2c'[k] = s2c[k]
                    \/ k = Len(s2c) + 1 /\ s2c'[k] = f
            BY <1>0, <2>2, <3>1, Sent
        <3>3. /\ cpc = "hello" => f.type = "HELLO"
              /\ cpc = "auth" => f.type = "AUTH_REQUEST"
              /\ cpc = "ack" => f.type = "HELLO_ACK" \/ (f.type = "ERROR" /\ cpw # ServerPassword)
              /\ cpc = "reply" => f.type \in QueryAnswers
              /\ cpc \in {"create", "recv"} => f.type \in {"SIZE", "DATA", "INSTALL_END", "INSTALL_ERROR"}
            <4>1. spc = "password" /\ c2s # <<>> =>
                     Head(c2s).type = "PASSWORD" /\ Head(c2s).pw = cpw
                BY <1>2 DEF SpeechInv, Heard
            <4> QED
                BY <3>1, <3>2, <4>1, ClientWhere
        <3> QED
            BY <1>1, <3>2, <3>3 DEF SpeechInv, Spoken
    <2> QED
        BY <2>1, <2>2
<1>4. Heard'
    <2>1. CASE spc' = "closed" /\ c2s' = <<>>
        BY <2>1, EmptyQueue DEF Heard
    <2>2. CASE spc = "hello" /\ spc' = "key" /\ c2s' = c2s
        <3>1. c2s = <<>> /\ (ClientOpen => cpc = "hello")
            BY <2>2, ClientWhere DEF SpeechInv, Heard
        <3> QED
            BY <1>1, <2>2, <3>1, EmptyQueue DEF Heard, ClientOpen, Serving
    <2>3. CASE spc = "auth" /\ spc' = "password" /\ c2s' = c2s
        BY <1>1, <2>3, EmptyQueue DEF SpeechInv, Heard, Serving
    <2>4. CASE spc \in Serving /\ spc' \in Serving /\ c2s' = c2s
        BY <1>1, <2>4, EmptyQueue DEF SpeechInv, Heard, Serving
    <2>5. CASE c2s # <<>> /\ c2s' = Tail(c2s) /\ spc = "key" /\ NeedsPassword /\ spc' = "auth"
        <3>0. Len(c2s) <= 1 /\ 1 \in 1..Len(c2s) /\ Len(c2s') = Len(c2s) - 1
            BY <1>2, <2>5 DEF SpeechInv, Heard
        <3>1. Len(c2s') = 0
            BY <1>0, <3>0
        <3>2. Tail(c2s) \in Seq(ClientFrame)
            BY <1>0, <2>5, QueueHead
        <3>3. c2s' = <<>>
            BY <2>5, <3>1, <3>2, QueueFrames
        <3>4. 1..Len(c2s') = {}
            BY <3>1
        <3> QED
            BY <2>5, <3>3, <3>4 DEF Heard
    <2>6. CASE c2s # <<>> /\ c2s' = Tail(c2s) /\ spc = "key" /\ ~NeedsPassword /\ spc' = "request"
        BY <1>0, <1>2, <2>6 DEF SpeechInv, Heard, Serving
    <2>7. CASE c2s # <<>> /\ c2s' = Tail(c2s) /\ spc = "password" /\ spc' = "request"
        BY <1>0, <1>2, <2>7 DEF SpeechInv, Heard, Serving
    <2>8. CASE c2s # <<>> /\ c2s' = Tail(c2s) /\ spc = "request" /\ spc' \in {"find", "request"}
        BY <1>0, <1>2, <2>8 DEF SpeechInv, Heard, Serving
    <2> QED
        BY <2>1, <2>2, <2>3, <2>4, <2>5, <2>6, <2>7, <2>8, ServerHears
<1>5. spc' \in Serving => ServerPassword \in {NoPassword, cpw}
    <2>1. spc = "password" /\ c2s # <<>> => Head(c2s).pw = cpw
        BY <1>2 DEF SpeechInv, Heard
    <2> QED
        BY <2>1, ServerHears DEF NeedsPassword, SpeechInv, NoServiceWithoutPassword, Serving
<1>6. NoServiceWithoutPassword'
    <2> DEFINE Answers == {"SIZE", "DATA", "INSTALL_END", "INSTALL_ERROR", "REPLY"}
    <2>1. CASE spc \in Serving
        BY <1>1, <2>1 DEF SpeechInv, NoServiceWithoutPassword
    <2>2. CASE spc \notin Serving
        <3>1. ASSUME NEW i \in 1..Len(s2c'), s2c'[i].type \in Answers
              PROVE  ServerPassword \in {NoPassword, cpw}
            <4>1. CASE s2c' = s2c
                BY <3>1, <4>1 DEF SpeechInv, NoServiceWithoutPassword
            <4>2. CASE s2c' # s2c
                <5>1. PICK f \in ServerFrame : ToClient(f) /\ f.type \notin Answers
                    BY <2>2, <4>2, ServerSays DEF Serving
                <5>2. i \in 1..Len(s2c) /\ s2c'[i] = s2c[i]
                    BY <1>0, <3>1, <4>2, <5>1, Sent
                <5> QED
                    BY <3>1, <5>2 DEF SpeechInv, NoServiceWithoutPassword
            <4> QED
                BY <4>1, <4>2
        <3> QED
            BY <1>1, <1>5, <3>1 DEF NoServiceWithoutPassword
    <2> QED
        BY <2>1, <2>2
<1> QED
    BY <1>3, <1>4, <1>6 DEF SpeechInv

\* The environment only ever takes frames away, and starts a session when
\* the server has ended the last one.
LEMMA EnvironmentSpeech ==
    ASSUME DownloadInv, SpeechInv,
           Connect \/ ConnectFails \/ ConsumeStage \/ ClientCrash \/ Drop
               \/ DeleteArchive \/ BuildArchive
    PROVE  SpeechInv'
<1> USE DEF storeVars, serverVars, netVars, clientVars, SpeechInv
<1>0. s2c \in Seq(ServerFrame) /\ c2s \in Seq(ClientFrame)
    BY DEF DownloadInv, TypeInv, TypeOK
<1>1. CASE Connect
    BY <1>1, EmptyQueue DEF Connect, Spoken, Heard, NoServiceWithoutPassword, Serving
<1>2. CASE ConnectFails
    BY <1>2 DEF ConnectFails, Spoken, Heard, NoServiceWithoutPassword
<1>3. CASE ConsumeStage
    BY <1>3 DEF ConsumeStage, Spoken, Heard, NoServiceWithoutPassword
<1>4. CASE ClientCrash
    BY <1>4, EmptyQueue DEF ClientCrash, Spoken, Heard, NoServiceWithoutPassword
<1>5. CASE Drop
    <2>1. PICK m \in 0..Len(c2s) : c2s' = SubSeq(c2s, 1, m)
        BY <1>5 DEF Drop
    <2>2. PICK n \in 0..Len(s2c) : s2c' = SubSeq(s2c, 1, n)
        BY <1>5 DEF Drop
    <2>3. /\ Len(c2s') = m /\ m <= Len(c2s) /\ m \in Nat /\ Len(c2s) \in Nat
          /\ \A k \in 1..m : k \in 1..Len(c2s) /\ c2s'[k] = c2s[k]
        BY <1>0, <2>1, QueuePrefix, QueueFrames
    <2>4. Len(s2c') = n /\ \A k \in 1..n : k \in 1..Len(s2c) /\ s2c'[k] = s2c[k]
        BY <1>0, <2>2, QueuePrefix, QueueFrames
    <2>5. c2s = <<>> => c2s' = <<>>
        BY <2>1, EmptyQueue
    <2>6. UNCHANGED <<spc, cpc, cpw>> /\ ~up'
        BY <1>5 DEF Drop
    <2>7. Spoken' /\ NoServiceWithoutPassword'
        BY <2>4, <2>6 DEF Spoken, NoServiceWithoutPassword
    <2>8. Heard'
        BY <2>3, <2>5, <2>6 DEF Heard
    <2> QED
        BY <2>7, <2>8
<1>6. CASE DeleteArchive \/ BuildArchive
    BY <1>6 DEF DeleteArchive, BuildArchive, Spoken, Heard, NoServiceWithoutPassword
<1> QED
    BY <1>1, <1>2, <1>3, <1>4, <1>5, <1>6

LEMMA SpeechInvariant == Spec => [](DownloadInv /\ SpeechInv)
<1>1. Init => DownloadInv /\ SpeechInv
    <2>1. Init => DownloadInv
        BY InitType, InitPipe DEF DownloadInv
    <2>2. Init => SpeechInv
        BY EmptyQueue DEF Init, SpeechInv, Spoken, Heard, NoServiceWithoutPassword, Serving
    <2> QED
        BY <2>1, <2>2
<1>2. DownloadInv /\ SpeechInv /\ [Next]_vars => SpeechInv'
    <2>1. CASE UNCHANGED vars
        BY <2>1 DEF SpeechInv, Spoken, Heard, NoServiceWithoutPassword,
                    vars, netVars, storeVars, serverVars, clientVars
    <2> QED
        BY <2>1, ClientSpeech, ServerSpeech, EnvironmentSpeech DEF Next
<1> QED
    BY <1>1, <1>2, NextPipe, PTL DEF Spec

\* A server started with a password reaches its request loop, and puts an
\* answer to a request on the wire, only for a client that gave it: for every
\* set of passwords, and whatever is lost, cut off or repeated in a new
\* session.
THEOREM PasswordGuardsRequests == Spec => []NoServiceWithoutPassword
<1>1. SpeechInv => NoServiceWithoutPassword
    BY DEF SpeechInv
<1> QED
    BY <1>1, SpeechInvariant, PTL

\* No frame reaches a point of dlr_connect, dlr_download or
\* dlr_server_session that has no case for it, except two refusals: the
\* ERROR that answers a password which is not the server's, and that of a
\* server without memory for a list.
THEOREM PeersStayInStep == Spec => []StayInStep
<1>1. DownloadInv /\ SpeechInv => StayInStep
    <2> SUFFICES ASSUME DownloadInv, SpeechInv PROVE StayInStep
        OBVIOUS
    <2>1. s2c # <<>> => Head(s2c) = s2c[1] /\ 1 \in 1..Len(s2c)
        BY QueueFrames DEF DownloadInv, TypeInv, TypeOK
    <2>2. c2s # <<>> => Head(c2s) = c2s[1] /\ 1 \in 1..Len(c2s)
        BY QueueFrames DEF DownloadInv, TypeInv, TypeOK
    <2>3. ClientReading /\ s2c # <<>> =>
              Head(s2c).type \in Expects \/ Refused
        BY <2>1 DEF ClientReading, Expects, Refused, QueryAnswers, SpeechInv, Spoken
    <2>4. ServerReading /\ c2s # <<>> => Head(c2s).type \in ServerAwaits
        BY <2>2 DEF ServerReading, ServerAwaits, SpeechInv, Heard, Serving
    <2> QED
        BY <2>3, <2>4 DEF StayInStep
<1> QED
    BY <1>1, SpeechInvariant, PTL
=============================================================================
