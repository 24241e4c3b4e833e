--------------------------- MODULE ServerSession ----------------------------
(***************************************************************************)
(* run_block_server() and its clients: one socket, one session at a time.  *)
(* A client asks with a hello (READY, UPLOAD, LIST, MKDIR or UNLINK) that  *)
(* it sends in several copies and again after silence, so hellos are left  *)
(* over when their client is already served, or gone.  Whatever state the  *)
(* server is in takes them off the socket: the idle server starts a        *)
(* session for any of them, a running transfer is aborted by one of        *)
(* another session.                                                        *)
(*                                                                         *)
(* All requests name the same path.  A download of a directory with files  *)
(* in it, and an upload of several files (mput), run as a mux stream.  A   *)
(* transfer is reduced to its outcomes (BlockTransfer and ObjectMux have   *)
(* the details).  Replies and the META of an upload stay in the network:   *)
(* they arrive late, repeatedly or never.                                  *)
(***************************************************************************)
EXTENDS Naturals, FiniteSets

CONSTANTS
    Client,       \* clients, each with one session
    NoClient,
    Ops,          \* what the clients may ask for
    Faults,       \* the faults that may happen, see FaultKinds
    MaxCopies     \* bound: copies of one hello in flight

OpKind == {"get", "put", "mput", "list", "mkdir", "unlink"}

\* Live peers that are lost, a server that is killed, a file that changes
\* between its hash and its upload, a file without a byte, a worker of the
\* encode pool that dies.
FaultKinds == {"silence", "kill", "edit", "empty", "pool"}

ASSUME SessionAssumption ==
    /\ NoClient \notin Client
    /\ Client \cap {"absent", "dir", "tree", "file"} = {}
    /\ Ops \subseteq OpKind
    /\ Faults \subseteq FaultKinds
    /\ MaxCopies \in Nat \ {0}

VARIABLES
    allowUpload, \* the server was started with --allow-upload
    faults,   \* the faults of this behaviour
    client,   \* state of a client
    op,       \* what it asks for
    hello,    \* copies of its hello in flight
    replies,  \* answers the server has sent: client and kind
    metaSent, \* clients that sent the META of their upload
    allSent,  \* clients that put enough symbols of their upload on the wire
    at,       \* where the server stands
    peer,     \* client of its session
    fin,      \* clients of a transfer whose receiver has every block
    path,     \* "absent", "dir" (an empty one), "tree" (one with files),
              \* "file", or the client whose uploaded file is there
    stored    \* clients whose upload reached the path

clientVars == <<client, op, metaSent, allSent>>
diskVars == <<path, stored>>
setup == <<allowUpload, faults>>
moving == <<clientVars, hello, replies, at, peer, fin, diskVars>>
vars == <<setup, moving>>

Kind == {"meta", "error", "ack", "nack", "entries"}

TypeOK ==
    /\ allowUpload \in BOOLEAN /\ faults \subseteq Faults
    /\ client \in [Client -> {"off", "asking", "receiving", "sending", "ok", "failed"}]
    /\ op \in [Client -> OpKind]
    /\ hello \in [Client -> 0 .. MaxCopies]
    /\ replies \subseteq Client \X Kind
    /\ metaSent \subseteq Client /\ allSent \subseteq metaSent
    /\ at \in {"idle", "wait_meta", "recv", "store", "send", "mux_recv", "mux_send", "down"}
    /\ peer \in Client \cup {NoClient}
    /\ peer = NoClient <=> at \in {"idle", "down"}
    /\ fin \subseteq Client /\ stored \subseteq Client
    /\ path \in {"absent", "dir", "tree", "file"} \cup Client

Init ==
    /\ allowUpload \in BOOLEAN /\ faults \in SUBSET Faults
    /\ client = [c \in Client |-> "off"]
    /\ op \in [Client -> Ops]
    /\ hello = [c \in Client |-> 0]
    /\ replies = {} /\ metaSent = {} /\ allSent = {}
    /\ at = "idle" /\ peer = NoClient /\ fin = {}
    /\ path \in {"absent", "dir", "tree", "file"}
    /\ stored = {}

IsDir(p) == p \in {"dir", "tree"}
IsFile(p) == p # "absent" /\ ~IsDir(p)
Uploads == {"put", "mput"}

-----------------------------------------------------------------------------
(* The clients *)

\* The hello leaves in several copies.
Ask(c) ==
    /\ client[c] = "off"
    /\ client' = [client EXCEPT ![c] = "asking"]
    /\ hello' = [hello EXCEPT ![c] = MaxCopies]
    /\ UNCHANGED <<op, metaSent, allSent, replies, at, peer, fin, diskVars>>

\* Nothing came for half a second.
AskAgain(c) ==
    /\ client[c] = "asking" /\ hello[c] < MaxCopies
    /\ hello' = [hello EXCEPT ![c] = @ + 1]
    /\ UNCHANGED <<clientVars, replies, at, peer, fin, diskVars>>

\* The first answer of its session decides what the client does.
Takes(c, kind) == client[c] = "asking" /\ <<c, kind>> \in replies
Becomes(c, state) == client' = [client EXCEPT ![c] = state]

\* run_vfs_list(): all entries, or the nack.
TakeEntries(c) ==
    /\ op[c] = "list"
    /\ \/ Takes(c, "entries") /\ Becomes(c, "ok")
       \/ Takes(c, "nack") /\ Becomes(c, "failed")
    /\ UNCHANGED <<op, metaSent, allSent, hello, replies, at, peer, fin, diskVars>>

\* run_vfs_mkdir() and run_vfs_unlink(): the first of the acks, which may be
\* that of a repeated request.
TakeAck(c) ==
    /\ op[c] \in {"mkdir", "unlink"}
    /\ \/ Takes(c, "ack") /\ Becomes(c, "ok")
       \/ Takes(c, "nack") /\ Becomes(c, "failed")
    /\ UNCHANGED <<op, metaSent, allSent, hello, replies, at, peer, fin, diskVars>>

\* The META of a download, or the answer to an UPLOAD, which the client
\* answers with its own META; or an error META.
TakeMeta(c) ==
    /\ op[c] \in Uploads \cup {"get"}
    /\ \/ /\ Takes(c, "meta")
          /\ Becomes(c, IF op[c] = "get" THEN "receiving" ELSE "sending")
          /\ metaSent' = IF op[c] \in Uploads THEN metaSent \cup {c} ELSE metaSent
       \/ Takes(c, "error") /\ Becomes(c, "failed") /\ UNCHANGED metaSent
    /\ UNCHANGED <<op, allSent, hello, replies, at, peer, fin, diskVars>>

\* The deadline passes, the user cancels, or the program is stopped.
Leave(c) ==
    /\ client[c] \in {"asking", "receiving", "sending"}
    /\ client' = [client EXCEPT ![c] = "failed"]
    /\ UNCHANGED <<op, metaSent, allSent, hello, replies, at, peer, fin, diskVars>>

\* The sender of an upload gets enough symbols of every block through.
SendAll(c) ==
    /\ client[c] = "sending" /\ c \notin allSent
    /\ at \in {"recv", "mux_recv"} /\ peer = c
    /\ allSent' = allSent \cup {c}
    /\ UNCHANGED <<client, op, metaSent, hello, replies, at, peer, fin, diskVars>>

\* Slip: a server that falls silent has everything.
FinOrSilence(c) == c \in fin \/ peer # c

FinArrives(c) == c \in fin

\* An upload ends with the FIN of the server, or because it stays silent; a
\* mux upload also two seconds after the last block was decoded.
PutEnds(c) ==
    /\ client[c] = "sending"
    /\ \/ FinArrives(c) /\ client' = [client EXCEPT ![c] = "ok"]
       \/ op[c] = "mput" /\ c \in allSent /\ client' = [client EXCEPT ![c] = "ok"]
       \/ /\ peer # c \/ "silence" \in faults
          /\ client' = [client EXCEPT ![c] = "failed"]
    /\ UNCHANGED <<op, metaSent, allSent, hello, replies, at, peer, fin, diskVars>>

\* The receiver of a download has the last block, and says so.
GetEnds(c) ==
    /\ client[c] = "receiving" /\ at \in {"send", "mux_send"} /\ peer = c
    /\ client' = [client EXCEPT ![c] = "ok"]
    /\ fin' = fin \cup {c}
    /\ UNCHANGED <<op, metaSent, allSent, hello, replies, at, peer, diskVars>>

-----------------------------------------------------------------------------
(* The idle server *)

\* Slip: a refused request is carried out all the same.
RefusedGoesOn == TRUE

UploadsOn == allowUpload

TakeHello(c) == hello[c] > 0 /\ hello' = [hello EXCEPT ![c] = @ - 1]
Reply(c, kind) == replies' = replies \cup {<<c, kind>>}
Session(where, c) == at' = where /\ peer' = c

\* Slip: the peer of the last session is kept.
IdleKeepsPeer == at' = "idle" /\ UNCHANGED peer

Idle == Session("idle", NoClient)

\* LIST is answered, a READY for nothing or an empty directory is refused, and
\* so is any change while uploads are disabled.
Answer(c) ==
    /\ at = "idle" /\ TakeHello(c)
    /\ \/ op[c] = "list" /\ Reply(c, IF path = "absent" THEN "nack" ELSE "entries")
       \/ op[c] = "get" /\ path \in {"absent", "dir"} /\ Reply(c, "error")
       \/ op[c] \in Uploads /\ ~allowUpload /\ Reply(c, "error")
       \/ op[c] \in {"mkdir", "unlink"} /\ ~allowUpload /\ Reply(c, "nack")
    /\ UNCHANGED <<clientVars, at, peer, fin, diskVars>>

\* Slip: a directory that exists is as good as a new one.
MkdirAlways(c) == path = "absent" \/ IsDir(path)

\* _vfs_mkdir() makes a directory only where nothing is.
MkdirSucceeds(c) == path = "absent"

Mkdir(c) ==
    /\ at = "idle" /\ UploadsOn /\ op[c] = "mkdir" /\ TakeHello(c)
    /\ IF MkdirSucceeds(c)
       THEN path' = "dir" /\ Reply(c, "ack")
       ELSE UNCHANGED path /\ Reply(c, "nack")
    /\ UNCHANGED <<clientVars, at, peer, fin, stored>>

\* _vfs_unlink() removes a file, or a directory that is empty.
Unlink(c) ==
    /\ at = "idle" /\ UploadsOn /\ op[c] = "unlink" /\ TakeHello(c)
    /\ IF path \notin {"absent", "tree"}
       THEN path' = "absent" /\ Reply(c, "ack")
       ELSE UNCHANGED path /\ Reply(c, "nack")
    /\ UNCHANGED <<clientVars, at, peer, fin, stored>>

\* mmap() of an empty file raises ValueError out of BlockSender.run().
StartDownload(c) ==
    /\ at = "idle" /\ op[c] = "get" /\ TakeHello(c) /\ Reply(c, "meta")
    /\ \/ path = "tree" /\ Session("mux_send", c)
       \/ IsFile(path) /\ IF path = "file" /\ "empty" \in faults
                          THEN Session("down", NoClient) ELSE Session("send", c)
    /\ UNCHANGED <<clientVars, fin, diskVars>>

StartUpload(c) ==
    /\ at = "idle" /\ op[c] \in Uploads /\ UploadsOn /\ TakeHello(c)
    /\ Reply(c, "meta") /\ Session("wait_meta", c)
    /\ UNCHANGED <<clientVars, fin, diskVars>>

-----------------------------------------------------------------------------
(* The server in a session *)

\* _wait_upload_meta() and a mux stream skip every hello; the transfer of a
\* file skips those of its own session.
SkipHello(c) ==
    /\ \/ at \in {"wait_meta", "mux_recv", "mux_send"}
       \/ at \in {"recv", "send"} /\ c = peer
    /\ TakeHello(c)
    /\ UNCHANGED <<clientVars, replies, at, peer, fin, diskVars>>

\* The META of the upload arrives.  A directory in the way of a file, or a
\* file in the way of a directory, ends the session without a word to the
\* client.  A mux upload makes its directory at once.
MetaArrives ==
    /\ at = "wait_meta" /\ peer \in metaSent
    /\ IF op[peer] = "put"
       THEN /\ IF IsDir(path) THEN Idle ELSE Session("recv", peer)
            /\ UNCHANGED path
       ELSE /\ IF IsFile(path) THEN Idle ELSE Session("mux_recv", peer)
            /\ path' = IF path = "absent" THEN "dir" ELSE path
    /\ UNCHANGED <<clientVars, hello, replies, fin, stored>>

MetaTimeout ==
    /\ at = "wait_meta" /\ Idle
    /\ UNCHANGED <<clientVars, hello, replies, fin, diskVars>>

\* BlockReceiver.run() has the last block: FINs, and then the hash.
UploadDecoded ==
    /\ at = "recv" /\ peer \in allSent
    /\ Session("store", peer) /\ fin' = fin \cup {peer}
    /\ UNCHANGED <<clientVars, hello, replies, diskVars>>

\* os.replace() puts the part file in place.
Store ==
    /\ at = "store"
    /\ path' = peer /\ stored' = stored \cup {peer}
    /\ Idle
    /\ UNCHANGED <<clientVars, hello, replies, fin>>

\* The first chunk of a mux stream makes a file in the directory.
MuxWrites ==
    /\ at = "mux_recv" /\ peer \in metaSent /\ path = "dir"
    /\ path' = "tree"
    /\ UNCHANGED <<clientVars, hello, replies, at, peer, fin, stored>>

\* consume_object_stream() has every block and the FIN: it checks the objects,
\* unpacks the packs and sends its own FINs.
MuxStored ==
    /\ at = "mux_recv" /\ peer \in allSent
    /\ path' = "tree" /\ stored' = stored \cup {peer} /\ fin' = fin \cup {peer}
    /\ Idle
    /\ UNCHANGED <<clientVars, hello, replies>>

\* The limit of 180 seconds is for the whole stream; its TimeoutError leaves
\* run_block_server().
MuxTimeout ==
    /\ at = "mux_recv"
    /\ Session("down", NoClient)
    /\ UNCHANGED <<clientVars, hello, replies, fin, diskVars>>

\* Slip: only the limit for the time after the first DATA.
PeerLostLater(c) == c \in allSent /\ client[c] # "sending"

\* The peer of a transfer is silent for too long.
PeerLost(c) ==
    \/ client[c] \notin {"sending", "receiving"}
    \/ "silence" \in faults

Interrupted ==
    \/ PeerLost(peer) /\ UNCHANGED hello
    \/ \E c \in Client \ {peer} : TakeHello(c)

\* Slip: the part file is left in place, so os.replace() finds it.
PartReplaces == path' = peer /\ Idle /\ UNCHANGED stored

\* What _recv_upload() does after BlockReceiver.run() has returned 1 and has
\* unlinked the part file: os.replace() raises FileNotFoundError, and nothing
\* in run_block_server() catches it.
AfterAbort == Session("down", NoClient) /\ UNCHANGED diskVars

UploadAborts ==
    /\ at = "recv" /\ Interrupted
    /\ AfterAbort
    /\ UNCHANGED <<clientVars, replies, fin>>

\* The hash of the part file is not the one of the META: BlockReceiver.run()
\* raises, after its FINs, and the server ends.
HashMismatch ==
    /\ at = "store" /\ "edit" \in faults
    /\ Session("down", NoClient)
    /\ UNCHANGED <<clientVars, hello, replies, fin, diskVars>>

\* BlockSender.run() ends: FIN, or one of its abort checks.  A mux stream,
\* run_object_session(), looks for a silent client only.
DownloadEnds ==
    /\ \/ at \in {"send", "mux_send"} /\ peer \in fin /\ UNCHANGED hello
       \/ at = "send" /\ Interrupted
       \/ at = "mux_send" /\ PeerLost(peer) /\ UNCHANGED hello
    /\ Idle
    /\ UNCHANGED <<clientVars, replies, fin, diskVars>>

\* A pool with a dead worker refuses the next submit(): BrokenProcessPool
\* leaves BlockSender.run() and the server.
PoolBreaks ==
    /\ at = "send" /\ "pool" \in faults
    /\ Session("down", NoClient)
    /\ UNCHANGED <<clientVars, hello, replies, fin, diskVars>>

-----------------------------------------------------------------------------
(* The environment *)

LoseHello(c) ==
    /\ TakeHello(c)
    /\ UNCHANGED <<clientVars, replies, at, peer, fin, diskVars>>

\* The server is killed and started again; the part file stays behind.
Kill ==
    /\ "kill" \in faults /\ Idle
    /\ UNCHANGED <<clientVars, hello, replies, fin, diskVars>>

-----------------------------------------------------------------------------

ClientStep(c) ==
    \/ Ask(c) \/ AskAgain(c) \/ Leave(c) \/ SendAll(c) \/ PutEnds(c) \/ GetEnds(c)
    \/ TakeEntries(c) \/ TakeAck(c) \/ TakeMeta(c)

ServerStep ==
    \/ \E c \in Client :
          \/ Answer(c) \/ Mkdir(c) \/ Unlink(c)
          \/ StartDownload(c) \/ StartUpload(c) \/ SkipHello(c)
    \/ MetaArrives \/ MetaTimeout \/ UploadDecoded \/ Store
    \/ HashMismatch \/ UploadAborts \/ DownloadEnds
    \/ MuxWrites \/ MuxStored \/ MuxTimeout \/ PoolBreaks

Next ==
    /\ \/ \E c \in Client : ClientStep(c) \/ LoseHello(c)
       \/ ServerStep
       \/ Kill
    /\ UNCHANGED setup

\* Deadlines and idle limits run out, and a transfer between two living peers
\* makes progress (FileArrives of BlockTransferLive).
Fairness ==
    /\ WF_moving(MetaTimeout) /\ WF_moving(MuxTimeout) /\ WF_moving(UploadDecoded) /\ WF_moving(Store)
    /\ WF_moving(UploadAborts /\ PeerLost(peer))
    /\ WF_moving(DownloadEnds /\ (PeerLost(peer) \/ peer \in fin))
    /\ \A c \in Client : WF_moving(SendAll(c)) /\ WF_moving(GetEnds(c))

Spec == Init /\ [][Next]_vars
FairSpec == Spec /\ Fairness

-----------------------------------------------------------------------------
(* Properties *)

\* Only whole uploads become visible at a path, although sessions are
\* aborted, taken over, started by leftover hellos or killed at any point.
PathHoldsWhole == path \in Client => path \in fin

\* Of several clients that ask for the same new directory at most one is told
\* that it made it, whatever copies and retries the server executes, as long
\* as nobody removes it again.
MkdirToldOnce ==
    (\A c \in Client : op[c] = "unlink" => client[c] = "off") =>
        Cardinality({c \in Client : op[c] = "mkdir" /\ client[c] = "ok"}) <= 1

\* An upload that its client reports as done is at the path, or will be with
\* the server's next step, unless the server is killed or the file edited.
PutOkIsStored ==
    faults \cap {"kill", "edit"} = {} =>
        \A c \in Client : op[c] = "put" /\ client[c] = "ok" =>
            c \in stored \/ (at = "store" /\ peer = c)

\* The server is not held by a session for ever: every session ends, that of
\* a client that is long gone too.
SessionEnds == at \notin {"idle", "down"} ~> at \in {"idle", "down"}

\* The server "default: stay idle and wait for the next client"
\* (server.py:67): no client ends it.
StaysServing == at # "down"
=============================================================================
