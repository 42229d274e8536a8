----------------------------- MODULE DlrTransfer -----------------------------
(***************************************************************************)
(* One `dlr` client fetching from one `dlr` server: the handshake, the     *)
(* password exchange and the package download, over a TCP connection that  *)
(* may stall, time out or break, while another process rebuilds the        *)
(* archive that is being sent.                                             *)
(*                                                                         *)
(*   client   dlr_connect, dlr_client_open, dlr_download (dlr_proto.c,     *)
(*            dlr_client.c)                                                *)
(*   server   dlr_server_session, handle_install (dlr_server.c)            *)
(*   store    the archive file of the package asked for, as                *)
(*            dlr_reg_rebuild and dlr_reg_remove change it                 *)
(*                                                                         *)
(* An archive is the sequence of its 4096-byte chunks (DLR_SERVE_CHUNK),   *)
(* its size is its length, and its SHA-256 is the sequence itself: two     *)
(* contents have the same digest only when they are equal.  A frame that   *)
(* does not open under the session key reads as a failed receive.          *)
(*                                                                         *)
(* Frames in flight are the two sequences c2s and s2c.  The session key is *)
(* drawn by the client and is the same on both sides from KEY on, so the   *)
(* model keeps no value for it.                                            *)
(***************************************************************************)
EXTENDS Integers, Sequences, FiniteSets

CONSTANTS
    Chunk,           \* contents of one chunk
    Archives,        \* contents the archiver may produce, non-empty Seq(Chunk)
    Passwords,       \* the passwords that can be typed
    NoPassword,      \* a server without --password, a client that gives none
    Absent,          \* no such file
    ServerPassword,  \* what cfg->pw_hash stands for, or NoPassword
    ClientPasswords, \* what the user may pass to the client
    HandlePins,      \* TRUE: an open handle keeps the bytes it was opened on
                     \* FALSE: it reads whatever is at its path now
    Faults,          \* the faults of the environment that may happen
    MaxBuilds,       \* bound: archives built during a behaviour
    MaxSessions      \* bound: connections opened during a behaviour

FaultKinds == {"timeout", "stall", "drop", "connect", "disk", "delete",
               "flush", "memory", "read", "rebuild", "crash"}

ASSUME ArchivesAssumption == Archives \subseteq Seq(Chunk) \ {<<>>}
ASSUME AbsentAssumption == Absent \notin Seq(Chunk)
ASSUME PasswordAssumption ==
    /\ NoPassword \notin Passwords
    /\ ServerPassword \in Passwords \cup {NoPassword}
    /\ ClientPasswords \subseteq Passwords \cup {NoPassword}
ASSUME HandleAssumption == HandlePins \in BOOLEAN
ASSUME FaultsAssumption == Faults \subseteq FaultKinds
ASSUME BoundsAssumption == MaxBuilds \in Nat /\ MaxSessions \in Nat

VARIABLES
    archive,   \* 0:/var/dlrd/packages/<name>.mpkg, or Absent
    builds,    \* number of archives built so far
    shown,     \* every content the archive has had (history)
    up,        \* FALSE once the connection is broken
    c2s, s2c,  \* frames in flight
    sessions,  \* number of connections opened so far
    cpc,       \* where the client is in dlr_connect / dlr_download
    creq,      \* what this client session asks for
    cpw,       \* the password it was given
    known,     \* needs_password of its entry in servers.txt
    expected,  \* the announced size, 0 before the header
    stage,     \* the staging file
    marred,    \* history: deleting or closing it failed, or its writer was
               \* killed
    chash,     \* what the client has hashed
    outcome,   \* result of the last session
    spc,       \* where the server is in dlr_server_session
    size,      \* dlr_file_size at the start of handle_install
    handle,    \* the open archive: the bytes it was opened on
    pos,       \* read position of that handle
    shash      \* what the server has hashed and sent

storeVars  == <<archive, builds, shown>>
netVars    == <<up, c2s, s2c>>
clientVars == <<sessions, cpc, creq, cpw, known, expected, stage, marred, chash, outcome>>
serverVars == <<spc, size, handle, pos, shash>>
vars == <<storeVars, netVars, clientVars, serverVars>>

-----------------------------------------------------------------------------
(* Frames.  DATA before the size is known and starting with "SIZE:" is the *)
(* header, so the header has a type of its own here.                       *)

File == Seq(Chunk)

\* What a server can be asked; QUERY stands for PKG_LIST, SEARCH_REQUEST
\* and PING.  A PROBE (dlr_probe) reads the hello and leaves.
Requests == {"INSTALL", "QUERY"}
Purposes == Requests \cup {"PROBE"}

\* What a hello says: cfg->pw_hash is not empty.
NeedsPassword == ServerPassword # NoPassword

ServerFrame ==
    [type : {"HELLO"}, needs : {NeedsPassword}]
    \cup [type : {"AUTH_REQUEST", "HELLO_ACK", "ERROR", "INSTALL_ERROR", "REPLY"}]
    \cup [type : {"SIZE"}, size : Nat]
    \cup [type : {"DATA"}, chunk : Chunk]
    \cup [type : {"INSTALL_END"}, digest : File]

ClientFrame ==
    [type : {"KEY"}]
    \cup [type : {"PASSWORD"}, pw : Passwords]
    \cup [type : Requests]

ClientPcs == {"idle", "hello", "auth", "ack", "opened", "request", "create",
              "recv", "reply", "done"}
ServerPcs == {"closed", "hello", "key", "auth", "password", "request",
              "find", "size", "open", "header", "stream", "end"}
Outcomes == {"none", "verified", "answered", "refused", "failed"}

TypeOK ==
    /\ archive \in File \cup {Absent}
    /\ builds \in 0..MaxBuilds
    /\ shown \subseteq File
    /\ up \in BOOLEAN
    /\ c2s \in Seq(ClientFrame)
    /\ s2c \in Seq(ServerFrame)
    /\ sessions \in 0..MaxSessions
    /\ cpc \in ClientPcs
    /\ creq \in Purposes
    /\ cpw \in Passwords \cup {NoPassword}
    /\ known \in BOOLEAN
    /\ expected \in Nat
    /\ stage \in File \cup {Absent} /\ marred \in BOOLEAN
    /\ chash \in File
    /\ outcome \in Outcomes
    /\ spc \in ServerPcs
    /\ size \in Nat
    /\ handle \in File
    /\ pos \in Nat
    /\ shash \in File

Init ==
    /\ \E a \in Archives : archive = a /\ shown = {a}
    /\ builds = 0
    /\ up = FALSE /\ c2s = <<>> /\ s2c = <<>>
    /\ sessions = 0
    /\ cpc = "idle" /\ creq = "INSTALL" /\ cpw = NoPassword /\ known = FALSE
    /\ expected = 0 /\ stage = Absent /\ marred = FALSE /\ chash = <<>> /\ outcome = "none"
    /\ spc = "closed" /\ size = 0 /\ handle = <<>> /\ pos = 0 /\ shash = <<>>

-----------------------------------------------------------------------------
(* The connection: dlr_tcp_write and dlr_tcp_read_exact.                   *)

ClientOpen == cpc \notin {"idle", "done"}
ServerOpen == spc # "closed"

\* A write to a peer that is gone can still be accepted, and is lost.
ToServer(f) == c2s' = IF up /\ ServerOpen THEN Append(c2s, f) ELSE c2s
ToClient(f) == s2c' = IF up /\ ClientOpen THEN Append(s2c, f) ELSE s2c

WriteMayFail(peerOpen) == ~up \/ ~peerOpen \/ "stall" \in Faults
ReadMayFail(queue, peerOpen) ==
    \/ queue = <<>> /\ (~up \/ ~peerOpen)
    \/ "timeout" \in Faults

\* The connection breaks; what had not arrived yet may be lost.
Drop ==
    /\ "drop" \in Faults
    /\ up
    /\ up' = FALSE
    /\ \E n \in 0..Len(c2s) : c2s' = SubSeq(c2s, 1, n)
    /\ \E n \in 0..Len(s2c) : s2c' = SubSeq(s2c, 1, n)
    /\ UNCHANGED <<storeVars, clientVars, serverVars>>

-----------------------------------------------------------------------------
(* The client.                                                             *)

\* dlr_disconnect, and the result the caller gets.  Frames that were not
\* read are gone with the connection.
ClientLeaves(result) ==
    /\ cpc' = "done"
    /\ outcome' = result
    /\ s2c' = <<>>

\* dlr_tcp_open in a fresh session.  The server takes one client at a time.
Connect ==
    /\ cpc \in {"idle", "done"}
    /\ spc = "closed"
    /\ sessions < MaxSessions
    /\ sessions' = sessions + 1
    /\ cpc' = "hello" /\ outcome' = "none"
    /\ creq' \in Purposes
    /\ cpw' \in ClientPasswords
    /\ known' \in BOOLEAN
    /\ expected' = 0 /\ chash' = <<>>
    /\ up' = TRUE /\ c2s' = <<>> /\ s2c' = <<>>
    /\ spc' = "hello" /\ size' = 0 /\ handle' = <<>> /\ pos' = 0 /\ shash' = <<>>
    /\ UNCHANGED <<storeVars, stage, marred>>

ConnectFails ==
    /\ Faults \cap {"connect", "memory"} # {}
    /\ cpc \in {"idle", "done"}
    /\ sessions < MaxSessions
    /\ sessions' = sessions + 1
    /\ cpc' = "done" /\ outcome' = "failed"
    /\ UNCHANGED <<storeVars, netVars, serverVars, creq, cpw, known, expected, stage, marred, chash>>

\* What dlr_file_close leaves on disk.  It returns nothing, so writes that
\* are lost in it are lost unseen.
Closed == {stage} \cup {SubSeq(stage, 1, n) : n \in {k \in 0..Len(stage) : "flush" \in Faults}}

\* dlr_remove, whose result nobody looks at.
RemoveStage(left) ==
    \/ stage' = Absent /\ marred' = FALSE
    \/ "delete" \in Faults /\ stage' \in left /\ marred' = TRUE

\* Bug: a connection that closes is taken for the end of the file.
ClientTakesCloseForEnd ==
    IF cpc = "recv" /\ expected # 0
    THEN ClientLeaves("verified") /\ UNCHANGED <<stage, marred>>
    ELSE ClientLeaves("failed") /\ UNCHANGED <<stage, marred>>

\* A receive that fails, or brings a frame the client does not expect
\* here, or a send that fails: the session is over.  During a download
\* the staging file goes with it.
ClientGivesUp ==
    IF cpc = "recv"
    THEN ClientLeaves("failed") /\ RemoveStage(Closed)
    ELSE ClientLeaves("failed") /\ UNCHANGED <<stage, marred>>

Expects ==
    CASE cpc = "hello"  -> {"HELLO"}
      [] cpc = "auth"   -> {"AUTH_REQUEST"}
      [] cpc = "ack"    -> {"HELLO_ACK"}
      [] cpc = "recv"   -> {"SIZE", "DATA", "INSTALL_END", "INSTALL_ERROR"}
      [] cpc = "reply"  -> {"REPLY"}
      [] OTHER          -> {}

ClientReading == cpc \in {"hello", "auth", "ack", "recv", "reply"}

ClientReceiveFails ==
    /\ ClientReading
    /\ \/ ReadMayFail(s2c, ServerOpen)
       \/ s2c # <<>> /\ Head(s2c).type \notin Expects
    /\ ClientGivesUp
    /\ UNCHANGED <<storeVars, up, c2s, sessions, creq, cpw, known, expected, chash, serverVars>>

\* HELLO in, KEY out; from here the session is encrypted.
RecvHello ==
    /\ cpc = "hello" /\ s2c # <<>> /\ Head(s2c).type = "HELLO"
    /\ \/ /\ creq = "PROBE"
          /\ ClientLeaves("answered")
          /\ UNCHANGED c2s
       \/ /\ creq # "PROBE"
          /\ ToServer([type |-> "KEY"])
          /\ s2c' = Tail(s2c)
          /\ cpc' = IF Head(s2c).needs THEN "auth" ELSE "opened"
          /\ UNCHANGED outcome
       \/ /\ creq # "PROBE"
          /\ WriteMayFail(ServerOpen)
          /\ ClientLeaves("failed")
          /\ UNCHANGED c2s
    /\ UNCHANGED <<storeVars, up, sessions, creq, cpw, known, expected, stage, marred, chash, serverVars>>

RecvAuthRequest ==
    /\ cpc = "auth" /\ s2c # <<>> /\ Head(s2c).type = "AUTH_REQUEST"
    /\ \/ /\ cpw # NoPassword
          /\ ToServer([type |-> "PASSWORD", pw |-> cpw])
          /\ s2c' = Tail(s2c)
          /\ cpc' = "ack"
          /\ UNCHANGED outcome
       \/ /\ cpw = NoPassword \/ WriteMayFail(ServerOpen)
          /\ ClientLeaves("failed")
          /\ UNCHANGED c2s
    /\ UNCHANGED <<storeVars, up, sessions, creq, cpw, known, expected, stage, marred, chash, serverVars>>

RecvAck ==
    /\ cpc = "ack" /\ s2c # <<>> /\ Head(s2c).type = "HELLO_ACK"
    /\ s2c' = Tail(s2c)
    /\ cpc' = "opened"
    /\ UNCHANGED <<storeVars, up, c2s, sessions, creq, cpw, known, expected, stage, marred, chash,
                   outcome, serverVars>>

\* The end of dlr_client_open: the flag remembered from discovery is only
\* looked at once the connection stands.
CheckKnownFlag ==
    /\ cpc = "opened"
    /\ IF known /\ cpw = NoPassword
       THEN ClientLeaves("failed")
       ELSE cpc' = "request" /\ UNCHANGED <<outcome, s2c>>
    /\ UNCHANGED <<storeVars, up, c2s, sessions, creq, cpw, known, expected, stage, marred, chash, serverVars>>

SendRequest ==
    /\ cpc = "request"
    /\ \/ /\ ToServer([type |-> creq])
          /\ cpc' = IF creq = "INSTALL" THEN "create" ELSE "reply"
          /\ UNCHANGED <<outcome, s2c>>
       \/ /\ WriteMayFail(ServerOpen)
          /\ ClientLeaves("failed")
          /\ UNCHANGED c2s
    /\ UNCHANGED <<storeVars, up, sessions, creq, cpw, known, expected, stage, marred, chash, serverVars>>

\* Bug: the old file is not deleted before it is opened for writing.
CreateStageKeepsOld ==
    /\ cpc = "create"
    /\ stage' = (IF stage = Absent THEN <<>> ELSE stage) /\ marred' = FALSE
    /\ cpc' = "recv"
    /\ UNCHANGED <<storeVars, netVars, sessions, creq, cpw, known, expected, chash, outcome, serverVars>>

\* dlr_file_create: delete, create, open.  A failure can leave the old
\* file, no file, or an empty one.
CreateStage ==
    /\ cpc = "create"
    /\ stage' = <<>> /\ marred' = FALSE
    /\ cpc' = "recv"
    /\ UNCHANGED <<storeVars, netVars, sessions, creq, cpw, known, expected, chash, outcome, serverVars>>

CreateStageFails ==
    /\ "disk" \in Faults
    /\ cpc = "create"
    /\ stage' \in {stage, Absent, <<>>}
    /\ ClientLeaves("failed")
    /\ UNCHANGED <<storeVars, up, c2s, sessions, creq, cpw, known, expected, marred, chash, serverVars>>

\* The size header is recognised only while no size is known.
RecvSize ==
    /\ cpc = "recv" /\ s2c # <<>> /\ Head(s2c).type = "SIZE"
    /\ expected = 0
    /\ expected' = Head(s2c).size
    /\ s2c' = Tail(s2c)
    /\ UNCHANGED <<storeVars, up, c2s, sessions, cpc, creq, cpw, known, stage, marred, chash, outcome, serverVars>>

RecvData ==
    /\ cpc = "recv" /\ s2c # <<>> /\ Head(s2c).type = "DATA"
    /\ \/ /\ stage' = Append(stage, Head(s2c).chunk)
          /\ chash' = Append(chash, Head(s2c).chunk)
          /\ s2c' = Tail(s2c)
          /\ UNCHANGED <<cpc, outcome, marred>>
       \/ /\ "disk" \in Faults
          /\ ClientGivesUp
          /\ UNCHANGED chash
    /\ UNCHANGED <<storeVars, up, c2s, sessions, creq, cpw, known, expected, serverVars>>

\* Bug: an error from the server leaves the partial file behind.
RecvInstallErrorKeepsFile ==
    /\ cpc = "recv" /\ s2c # <<>> /\ Head(s2c).type = "INSTALL_ERROR"
    /\ ClientLeaves("refused")
    /\ UNCHANGED <<storeVars, up, c2s, sessions, creq, cpw, known, expected, stage, marred, chash, serverVars>>

RecvInstallError ==
    /\ cpc = "recv" /\ s2c # <<>> /\ Head(s2c).type = "INSTALL_ERROR"
    /\ ClientLeaves("refused")
    /\ RemoveStage(Closed)
    /\ UNCHANGED <<storeVars, up, c2s, sessions, creq, cpw, known, expected, chash, serverVars>>

\* The digest decides; the announced size is not compared with anything.
\* The file is closed after that, and the result stays what it is.
RecvEnd ==
    /\ cpc = "recv" /\ s2c # <<>> /\ Head(s2c).type = "INSTALL_END"
    /\ IF Head(s2c).digest = chash
       THEN /\ ClientLeaves("verified")
            /\ stage' \in Closed
            /\ marred' = (stage' # stage)
       ELSE ClientGivesUp
    /\ UNCHANGED <<storeVars, up, c2s, sessions, creq, cpw, known, expected, chash, serverVars>>

RecvReply ==
    /\ cpc = "reply" /\ s2c # <<>> /\ Head(s2c).type = "REPLY"
    /\ ClientLeaves("answered")
    /\ UNCHANGED <<storeVars, up, c2s, sessions, creq, cpw, known, expected, stage, marred, chash, serverVars>>

\* The installer has extracted the archive and deletes the staging file.
ConsumeStage ==
    /\ cpc = "done" /\ outcome = "verified"
    /\ cpc' = "idle" /\ outcome' = "none"
    /\ RemoveStage({stage})
    /\ UNCHANGED <<storeVars, netVars, sessions, creq, cpw, known, expected, chash, serverVars>>

\* The client process dies.  The kernel closes its connection; what was
\* written to the staging file may not have reached the disk, as writes are
\* only saved when the file is closed.
ClientCrash ==
    /\ "crash" \in Faults
    /\ ClientOpen
    /\ cpc' = "idle" /\ outcome' = "none"
    /\ s2c' = <<>>
    /\ stage' \in {stage} \cup {f \in {<<>>} : cpc = "recv"}
    /\ marred' = (marred \/ cpc = "recv")
    /\ UNCHANGED <<storeVars, up, c2s, sessions, creq, cpw, known, expected, chash, serverVars>>

Client ==
    \/ ClientReceiveFails \/ RecvHello \/ RecvAuthRequest \/ RecvAck
    \/ CheckKnownFlag \/ SendRequest \/ CreateStage \/ CreateStageFails
    \/ RecvSize \/ RecvData \/ RecvInstallError \/ RecvEnd \/ RecvReply

-----------------------------------------------------------------------------
(* The server.                                                             *)

\* `out:` of dlr_server_session.
ServerLeaves ==
    /\ spc' = "closed"
    /\ c2s' = <<>>

\* send_error, and a reply, keep the session exactly when they are sent.
Answer(f, next) ==
    \/ ToClient(f) /\ spc' = next /\ UNCHANGED c2s
    \/ WriteMayFail(ClientOpen) /\ ServerLeaves /\ UNCHANGED s2c

ServerAwaits ==
    CASE spc = "key"      -> {"KEY"}
      [] spc = "password" -> {"PASSWORD"}
      [] OTHER            -> Requests

ServerReading == spc \in {"key", "password", "request"}

ServerReceiveFails ==
    /\ ServerReading
    /\ \/ ReadMayFail(c2s, ClientOpen)
       \/ spc = "key" /\ c2s # <<>> /\ Head(c2s).type \notin ServerAwaits
    /\ ServerLeaves
    /\ UNCHANGED <<storeVars, clientVars, up, s2c, size, handle, pos, shash>>

\* Bug: the hello does not say that a password is needed.
SendHelloSilent ==
    /\ spc = "hello"
    /\ Answer([type |-> "HELLO", needs |-> FALSE], "key")
    /\ UNCHANGED <<storeVars, clientVars, up, size, handle, pos, shash>>

\* A server without memory for the session closes the connection.
SendHello ==
    /\ spc = "hello"
    /\ \/ Answer([type |-> "HELLO", needs |-> NeedsPassword], "key")
       \/ "memory" \in Faults /\ ServerLeaves /\ UNCHANGED s2c
    /\ UNCHANGED <<storeVars, clientVars, up, size, handle, pos, shash>>

RecvKey ==
    /\ spc = "key" /\ c2s # <<>> /\ Head(c2s).type = "KEY"
    /\ c2s' = Tail(c2s)
    /\ spc' = IF NeedsPassword THEN "auth" ELSE "request"
    /\ UNCHANGED <<storeVars, clientVars, up, s2c, size, handle, pos, shash>>

SendAuthRequest ==
    /\ spc = "auth"
    /\ Answer([type |-> "AUTH_REQUEST"], "password")
    /\ UNCHANGED <<storeVars, clientVars, up, size, handle, pos, shash>>

\* Bug: the comparison of the hashes is inverted.
RecvPasswordInverted ==
    /\ spc = "password" /\ c2s # <<>>
    /\ IF Head(c2s).pw # ServerPassword
       THEN ToClient([type |-> "HELLO_ACK"]) /\ spc' = "request" /\ c2s' = Tail(c2s)
       ELSE ServerLeaves /\ ToClient([type |-> "ERROR"])
    /\ UNCHANGED <<storeVars, clientVars, up, size, handle, pos, shash>>

\* Whatever arrives is hashed and compared; a wrong password is answered
\* with ERROR (sent or not) and ends the session.
RecvPassword ==
    /\ spc = "password" /\ c2s # <<>>
    /\ IF Head(c2s).type = "PASSWORD" /\ Head(c2s).pw = ServerPassword
       THEN \/ /\ ToClient([type |-> "HELLO_ACK"])
               /\ spc' = "request"
               /\ c2s' = Tail(c2s)
            \/ WriteMayFail(ClientOpen) /\ ServerLeaves /\ UNCHANGED s2c
       ELSE /\ ServerLeaves
            /\ \/ ToClient([type |-> "ERROR"])
               \/ WriteMayFail(ClientOpen) /\ UNCHANGED s2c
    /\ UNCHANGED <<storeVars, clientVars, up, size, handle, pos, shash>>

\* The answers to LIST, SEARCH and PING.  Without memory for a list,
\* handle_list and handle_search say so and keep the session.
QueryAnswers == {"REPLY"} \cup {t \in {"ERROR"} : "memory" \in Faults}

\* The request loop: INSTALL starts handle_install, a query is answered at
\* once.  Other types are ignored by the code; no client here sends one.
RecvRequest ==
    /\ spc = "request" /\ c2s # <<>>
    /\ \/ /\ Head(c2s).type = "INSTALL"
          /\ spc' = "find"
          /\ c2s' = Tail(c2s)
          /\ UNCHANGED s2c
       \/ /\ Head(c2s).type = "QUERY"
          /\ \/ /\ \E t \in QueryAnswers : ToClient([type |-> t])
                /\ c2s' = Tail(c2s) /\ UNCHANGED spc
             \/ WriteMayFail(ClientOpen) /\ ServerLeaves /\ UNCHANGED s2c
    /\ UNCHANGED <<storeVars, clientVars, up, size, handle, pos, shash>>

InstallError == [type |-> "INSTALL_ERROR"]

\* dlr_reg_find.  Before the header, a refusal keeps the session.
FindArchive ==
    /\ spc = "find"
    /\ IF archive = Absent
       THEN Answer(InstallError, "request")
       ELSE spc' = "size" /\ UNCHANGED <<c2s, s2c>>
    /\ UNCHANGED <<storeVars, clientVars, up, size, handle, pos, shash>>

\* dlr_file_size opens, measures and closes the file.
MeasureArchive ==
    /\ spc = "size"
    /\ \/ /\ archive # Absent
          /\ size' = Len(archive)
          /\ spc' = "open"
          /\ UNCHANGED <<c2s, s2c>>
       \/ /\ archive = Absent \/ "read" \in Faults
          /\ Answer(InstallError, "request")
          /\ UNCHANGED size
    /\ UNCHANGED <<storeVars, clientVars, up, handle, pos, shash>>

\* With the archive open, there must be memory for a chunk.
OpenArchive ==
    /\ spc = "open"
    /\ \/ /\ archive # Absent
          /\ handle' = archive /\ pos' = 0 /\ shash' = <<>>
          /\ spc' = "header"
          /\ UNCHANGED <<c2s, s2c>>
       \/ /\ archive = Absent \/ Faults \cap {"read", "memory"} # {}
          /\ Answer(InstallError, "request")
          /\ UNCHANGED <<handle, pos, shash>>
    /\ UNCHANGED <<storeVars, clientVars, up, size>>

SendHeader ==
    /\ spc = "header"
    /\ Answer([type |-> "SIZE", size |-> size], "stream")
    /\ UNCHANGED <<storeVars, clientVars, up, size, handle, pos, shash>>

\* The bytes a read sees.  Without pinning, a deleted file cannot be read.
Readable == IF HandlePins THEN handle ELSE archive

SendChunk ==
    /\ spc = "stream"
    /\ Readable # Absent
    /\ pos < Len(Readable)
    /\ LET chunk == Readable[pos + 1] IN
       /\ Answer([type |-> "DATA", chunk |-> chunk], "stream")
       /\ shash' = Append(shash, chunk)
    /\ pos' = pos + 1
    /\ UNCHANGED <<storeVars, clientVars, up, size, handle>>

\* A read error after the header: say so, then close.
ReadFails ==
    /\ spc = "stream"
    /\ Readable = Absent \/ "read" \in Faults
    /\ ServerLeaves
    /\ \/ ToClient(InstallError)
       \/ WriteMayFail(ClientOpen) /\ UNCHANGED s2c
    /\ UNCHANGED <<storeVars, clientVars, up, size, handle, pos, shash>>

ReachEnd ==
    /\ spc = "stream"
    /\ Readable # Absent
    /\ pos >= Len(Readable)
    /\ spc' = "end"
    /\ UNCHANGED <<storeVars, clientVars, netVars, size, handle, pos, shash>>

\* Bug: a digest goes out whatever was announced.
SendEndUnchecked ==
    /\ spc = "end"
    /\ Answer([type |-> "INSTALL_END", digest |-> shash], "request")
    /\ UNCHANGED <<storeVars, clientVars, up, size, handle, pos, shash>>

\* Bug: a changed archive ends the transfer and says nothing.
SendEndSilent ==
    /\ spc = "end"
    /\ IF Len(shash) # size
       THEN spc' = "request" /\ UNCHANGED <<c2s, s2c>>
       ELSE Answer([type |-> "INSTALL_END", digest |-> shash], "request")
    /\ UNCHANGED <<storeVars, clientVars, up, size, handle, pos, shash>>

\* The digest is sent only when as many bytes went out as were announced.
SendEnd ==
    /\ spc = "end"
    /\ IF Len(shash) # size
       THEN /\ ServerLeaves
            /\ \/ ToClient(InstallError)
               \/ WriteMayFail(ClientOpen) /\ UNCHANGED s2c
       ELSE Answer([type |-> "INSTALL_END", digest |-> shash], "request")
    /\ UNCHANGED <<storeVars, clientVars, up, size, handle, pos, shash>>

Server ==
    \/ ServerReceiveFails \/ SendHello \/ RecvKey \/ SendAuthRequest
    \/ RecvPassword \/ RecvRequest \/ FindArchive \/ MeasureArchive
    \/ OpenArchive \/ SendHeader \/ SendChunk \/ ReadFails \/ ReachEnd
    \/ SendEnd

-----------------------------------------------------------------------------
(* Another process works on the store: `dlr rebuild` deletes the archive   *)
(* before it packs a new one, `dlr unpresent` deletes it.                  *)

DeleteArchive ==
    /\ "rebuild" \in Faults
    /\ archive # Absent
    /\ archive' = Absent
    /\ UNCHANGED <<builds, shown, netVars, clientVars, serverVars>>

BuildArchive ==
    /\ "rebuild" \in Faults
    /\ builds < MaxBuilds
    /\ archive = Absent
    /\ \E a \in Archives : archive' = a /\ shown' = shown \cup {a}
    /\ builds' = builds + 1
    /\ UNCHANGED <<netVars, clientVars, serverVars>>

Next ==
    \/ Connect \/ ConnectFails \/ ConsumeStage \/ ClientCrash
    \/ Client \/ Server
    \/ Drop \/ DeleteArchive \/ BuildArchive

Spec == Init /\ [][Next]_vars

\* Each process keeps running; what the user, the network and the other
\* process do is not promised.
Fairness == WF_vars(Client) /\ WF_vars(Server)
FairSpec == Spec /\ Fairness

-----------------------------------------------------------------------------
(* What must hold.                                                         *)

\* A download reported as verified (dlr_download returning 1) has received
\* all the bytes the server announced, and they are the bytes it read; the
\* staging file holds them unless closing it has lost some.  The client
\* never compares the two sizes: this rests on the server withholding the
\* digest of an archive that changed length under it (handle_install), and
\* on the staging file starting empty.
VerifiedIsComplete ==
    outcome = "verified" =>
        /\ chash = shash
        /\ Len(chash) = expected
        /\ marred \/ stage = chash

\* With handles that keep the bytes they were opened on, what was verified is
\* one archive as it was built, never the start of one and the end of
\* another, although the size is measured and the file opened in two steps
\* with dlr_reg_rebuild running in between.
VerifiedWasShown ==
    HandlePins /\ outcome = "verified" => chash \in shown /\ (marred \/ stage \in shown)

\* Between sessions the staging file is missing, empty (dlr_file_create
\* failed half-way) or a whole archive: a failed or refused download never
\* leaves a part of one behind, unless deleting or closing it failed or the
\* client was killed while receiving, and no longer than until the next
\* download.
NoPartialStage ==
    HandlePins /\ ~ClientOpen /\ ~marred => stage \in {Absent, <<>>} \cup shown

\* Where the server is once a request can be handled.
Serving == {"request", "find", "size", "open", "header", "stream", "end"}

\* A server with a password reaches its request loop, and has any answer
\* to a request on the wire, only for a client that gave that password.
NoServiceWithoutPassword ==
    \/ spc \in Serving
    \/ \E i \in 1..Len(s2c) :
           s2c[i].type \in {"SIZE", "DATA", "INSTALL_END", "INSTALL_ERROR", "REPLY"}
    => ServerPassword \in {NoPassword, cpw}

\* What the server may say instead of what the client waits for: that the
\* password is wrong, or that it has no memory for a list.
Refused ==
    /\ Head(s2c).type = "ERROR"
    /\ \/ cpc = "ack" /\ cpw # ServerPassword
       \/ cpc = "reply" /\ "memory" \in Faults

\* The two sides stay in step, although each decides alone what comes next:
\* every frame that dlr_connect, dlr_download or dlr_server_session reads
\* is one it has a case for at that point.  The client has none for two
\* refusals, and takes them for a failure: dlr_connect that of a password
\* that really is wrong, dlr_client_packages that of a query.
StayInStep ==
    /\ ClientReading /\ s2c # <<>> => Head(s2c).type \in Expects \/ Refused
    /\ ServerReading /\ c2s # <<>> => Head(c2s).type \in ServerAwaits

\* A download, seen by its caller, is what DlrDelivery says.
Result ==
    CASE outcome = "verified" /\ ~marred -> "delivered"
      [] outcome = "verified" /\ marred -> "damaged"
      [] outcome \in {"refused", "failed"} -> "failed"
      [] OTHER -> "none"

Delivery == INSTANCE DlrDelivery WITH
    Cuts    <- "flush" \in Faults,
    offered <- shown,
    result  <- Result,
    file    <- IF outcome = "verified" THEN stage ELSE Absent

\* dlr_download implements the all-or-nothing delivery, but for what the
\* disk loses when the file is closed.
DeliverySpec == Delivery!Spec

\* Sessions end even if no receive ever times out: whatever the server finds
\* in its store it answers or closes, and what the client does then, or its
\* leaving, ends the session of the server.
SessionsEnd == (ClientOpen ~> ~ClientOpen) /\ (ServerOpen ~> ~ServerOpen)
=============================================================================
