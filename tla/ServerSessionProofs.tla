------------------------ MODULE ServerSessionProofs ------------------------
(***************************************************************************)
(* Theorems about ServerSession, for any clients, faults and copies.       *)
(*                                                                         *)
(* The properties are not inductive.  SessionInv adds what the state of a  *)
(* client and of the server says of the request (Roles), and relates the   *)
(* FINs to the path (WholeFiles, DecodedIsStored) and the answers to it    *)
(* (MadeOnce).                                                             *)
(***************************************************************************)
EXTENDS ServerSession, FiniteSetTheorems, TLAPS

\* What the state of a client, or of the server, says of the request.
Roles ==
    /\ \A c \in Client :
          /\ client[c] = "off" => hello[c] = 0
          /\ client[c] = "receiving" => op[c] = "get"
          /\ client[c] = "sending" => op[c] \in Uploads /\ c \in metaSent
          /\ client[c] = "ok" /\ op[c] = "put" => c \in fin
          /\ client[c] = "ok" /\ op[c] = "mkdir" => <<c, "ack">> \in replies
    /\ at = "wait_meta" => op[peer] \in Uploads
    /\ at \in {"recv", "store"} => op[peer] = "put"
    /\ at = "mux_recv" => op[peer] = "mput"

\* A file is put in place after its last block, and not before.
WholeFiles ==
    /\ at = "store" => peer \in fin
    /\ path \in Client => path \in fin

\* An upload with its last block is stored, or is about to be.
DecodedIsStored ==
    faults \cap {"kill", "edit"} = {} =>
        \A c \in fin : op[c] = "put" => c \in stored \/ (at = "store" /\ peer = c)

NobodyUnlinks == \A c \in Client : op[c] = "unlink" => client[c] = "off"
Acked == {c \in Client : op[c] = "mkdir" /\ <<c, "ack">> \in replies}

\* The first directory that was made stays, so no other mkdir succeeds.
Made ==
    /\ \A c, d \in Acked : c = d
    /\ Acked # {} => path # "absent"
MadeOnce == NobodyUnlinks => Made

SessionInv == TypeOK /\ Roles /\ WholeFiles /\ DecodedIsStored /\ MadeOnce

LEMMA SessionInit == Init => SessionInv
<1> SUFFICES ASSUME Init
             PROVE  SessionInv
  OBVIOUS
<1>1. TypeOK
  <2>1. /\ allowUpload \in BOOLEAN /\ faults \subseteq Faults
        /\ path \in {"absent", "dir", "tree", "file"} \cup Client
    BY DEF Init
  <2>2. op \in [Client -> OpKind] /\ hello \in [Client -> 0 .. MaxCopies]
    BY SessionAssumption DEF Init
  <2>3. QED
    BY <2>1, <2>2 DEF Init, TypeOK
<1>2. Roles /\ WholeFiles /\ DecodedIsStored /\ MadeOnce
  BY SessionAssumption DEF Init, Roles, WholeFiles, DecodedIsStored, MadeOnce, Made,
     Acked
<1>3. QED
  BY <1>1, <1>2 DEF SessionInv

\* Every step keeps the types.
LEMMA TypeStep ==
    ASSUME TypeOK, Roles, [Next]_vars
    PROVE  TypeOK'
<1>1. CASE UNCHANGED vars
  BY <1>1, SessionAssumption DEF TypeOK, Roles, Kind, vars, setup, moving,
     clientVars, diskVars
<1>2. ASSUME NEW c \in Client, UNCHANGED setup,
            Ask(c)
     PROVE  TypeOK'
  BY <1>2, SessionAssumption DEF TypeOK, Roles, Kind, Ask, clientVars,
     diskVars, setup
<1>3. ASSUME NEW c \in Client, UNCHANGED setup,
            AskAgain(c)
     PROVE  TypeOK'
  BY <1>3, SessionAssumption DEF TypeOK, Roles, Kind, AskAgain, clientVars,
     diskVars, setup
<1>4. ASSUME NEW c \in Client, UNCHANGED setup,
            Leave(c)
     PROVE  TypeOK'
  BY <1>4, SessionAssumption DEF TypeOK, Roles, Kind, Leave, clientVars,
     diskVars, setup
<1>5. ASSUME NEW c \in Client, UNCHANGED setup,
            SendAll(c)
     PROVE  TypeOK'
  BY <1>5, SessionAssumption DEF TypeOK, Roles, Kind, SendAll, clientVars,
     diskVars, setup
<1>6. ASSUME NEW c \in Client, UNCHANGED setup,
            PutEnds(c)
     PROVE  TypeOK'
  BY <1>6, SessionAssumption DEF TypeOK, Roles, Kind, PutEnds, FinArrives,
     Uploads, clientVars, diskVars, setup
<1>7. ASSUME NEW c \in Client, UNCHANGED setup,
            GetEnds(c)
     PROVE  TypeOK'
  BY <1>7, SessionAssumption DEF TypeOK, Roles, Kind, GetEnds, clientVars,
     diskVars, setup
<1>8. ASSUME NEW c \in Client, UNCHANGED setup,
            TakeEntries(c)
     PROVE  TypeOK'
  BY <1>8, SessionAssumption DEF TypeOK, Roles, Kind, TakeEntries, Takes,
     Becomes, clientVars, diskVars, setup
<1>9. ASSUME NEW c \in Client, UNCHANGED setup,
            TakeAck(c)
     PROVE  TypeOK'
  BY <1>9, SessionAssumption DEF TypeOK, Roles, Kind, TakeAck, Takes, Becomes,
     clientVars, diskVars, setup
<1>10. ASSUME NEW c \in Client, UNCHANGED setup,
            TakeMeta(c)
     PROVE  TypeOK'
  BY <1>10, SessionAssumption DEF TypeOK, Roles, Kind, TakeMeta, Takes,
     Becomes, Uploads, clientVars, diskVars, setup
<1>11. ASSUME NEW c \in Client, UNCHANGED setup,
            LoseHello(c)
     PROVE  TypeOK'
  BY <1>11, SessionAssumption DEF TypeOK, Roles, Kind, LoseHello, TakeHello,
     clientVars, diskVars, setup
<1>12. ASSUME NEW c \in Client, UNCHANGED setup,
            Answer(c)
     PROVE  TypeOK'
  BY <1>12, SessionAssumption DEF TypeOK, Roles, Kind, Answer, TakeHello,
     Reply, Uploads, clientVars, diskVars, setup
<1>13. ASSUME NEW c \in Client, UNCHANGED setup,
            Mkdir(c)
     PROVE  TypeOK'
  BY <1>13, SessionAssumption DEF TypeOK, Roles, Kind, Mkdir, TakeHello,
     Reply, MkdirSucceeds, clientVars, diskVars, setup
<1>14. ASSUME NEW c \in Client, UNCHANGED setup,
            Unlink(c)
     PROVE  TypeOK'
  BY <1>14, SessionAssumption DEF TypeOK, Roles, Kind, Unlink, TakeHello,
     Reply, clientVars, diskVars, setup
<1>15. ASSUME NEW c \in Client, UNCHANGED setup,
            StartDownload(c)
     PROVE  TypeOK'
  BY <1>15, SessionAssumption DEF TypeOK, Roles, Kind, StartDownload,
     TakeHello, Reply, Session, clientVars, diskVars, setup
<1>16. ASSUME NEW c \in Client, UNCHANGED setup,
            StartUpload(c)
     PROVE  TypeOK'
  BY <1>16, SessionAssumption DEF TypeOK, Roles, Kind, StartUpload, TakeHello,
     Reply, Session, Uploads, clientVars, diskVars, setup
<1>17. ASSUME NEW c \in Client, UNCHANGED setup,
            SkipHello(c)
     PROVE  TypeOK'
  BY <1>17, SessionAssumption DEF TypeOK, Roles, Kind, SkipHello, TakeHello,
     clientVars, diskVars, setup
<1>18. CASE /\ UNCHANGED setup
          /\ MetaArrives
  BY <1>18, SessionAssumption DEF TypeOK, Roles, Kind, MetaArrives, Session,
     Idle, Uploads, clientVars, diskVars, setup
<1>19. CASE /\ UNCHANGED setup
          /\ MetaTimeout
  BY <1>19, SessionAssumption DEF TypeOK, Roles, Kind, MetaTimeout, Session,
     Idle, clientVars, diskVars, setup
<1>20. CASE /\ UNCHANGED setup
          /\ UploadDecoded
  BY <1>20, SessionAssumption DEF TypeOK, Roles, Kind, UploadDecoded, Session,
     clientVars, diskVars, setup
<1>21. CASE /\ UNCHANGED setup
          /\ Store
  BY <1>21, SessionAssumption DEF TypeOK, Roles, Kind, Store, Session, Idle,
     clientVars, diskVars, setup
<1>22. CASE /\ UNCHANGED setup
          /\ HashMismatch
  BY <1>22, SessionAssumption DEF TypeOK, Roles, Kind, HashMismatch, Session,
     clientVars, diskVars, setup
<1>23. CASE /\ UNCHANGED setup
          /\ UploadAborts
  BY <1>23, SessionAssumption DEF TypeOK, Roles, Kind, UploadAborts,
     Interrupted, AfterAbort, Session, TakeHello, clientVars, diskVars, setup
<1>24. CASE /\ UNCHANGED setup
          /\ DownloadEnds
  BY <1>24, SessionAssumption DEF TypeOK, Roles, Kind, DownloadEnds,
     Interrupted, Session, Idle, TakeHello, clientVars, diskVars, setup
<1>25. CASE /\ UNCHANGED setup
          /\ MuxWrites
  BY <1>25, SessionAssumption DEF TypeOK, Roles, Kind, MuxWrites, clientVars,
     diskVars, setup
<1>26. CASE /\ UNCHANGED setup
          /\ MuxStored
  BY <1>26, SessionAssumption DEF TypeOK, Roles, Kind, MuxStored, Session,
     Idle, clientVars, diskVars, setup
<1>27. CASE /\ UNCHANGED setup
          /\ MuxTimeout
  BY <1>27, SessionAssumption DEF TypeOK, Roles, Kind, MuxTimeout, Session,
     clientVars, diskVars, setup
<1>28. CASE /\ UNCHANGED setup
          /\ PoolBreaks
  BY <1>28, SessionAssumption DEF TypeOK, Roles, Kind, PoolBreaks, Session,
     clientVars, diskVars, setup
<1>29. CASE /\ UNCHANGED setup
          /\ Kill
  BY <1>29, SessionAssumption DEF TypeOK, Roles, Kind, Kill, Session, Idle,
     clientVars, diskVars, setup
<1>30. QED
  BY <1>1, <1>2, <1>3, <1>4, <1>5, <1>6, <1>7, <1>8, <1>9, <1>10, <1>11,
     <1>12, <1>13, <1>14, <1>15, <1>16, <1>17, <1>18, <1>19, <1>20, <1>21,
     <1>22, <1>23, <1>24, <1>25, <1>26, <1>27, <1>28, <1>29 DEF Next, ClientStep, ServerStep

\* No step makes a client, or the server, do what was not asked.
LEMMA RolesStep ==
    ASSUME TypeOK, Roles, [Next]_vars
    PROVE  Roles'
<1>1. CASE UNCHANGED vars
  BY <1>1 DEF TypeOK, Roles, vars, setup, moving, clientVars, diskVars
<1>2. ASSUME NEW c \in Client, UNCHANGED setup,
            Ask(c)
     PROVE  Roles'
  BY <1>2 DEF TypeOK, Roles, Ask, clientVars, diskVars, setup
<1>3. ASSUME NEW c \in Client, UNCHANGED setup,
            AskAgain(c)
     PROVE  Roles'
  BY <1>3 DEF TypeOK, Roles, AskAgain, clientVars, diskVars, setup
<1>4. ASSUME NEW c \in Client, UNCHANGED setup,
            Leave(c)
     PROVE  Roles'
  BY <1>4 DEF TypeOK, Roles, Leave, clientVars, diskVars, setup
<1>5. ASSUME NEW c \in Client, UNCHANGED setup,
            SendAll(c)
     PROVE  Roles'
  BY <1>5 DEF TypeOK, Roles, SendAll, clientVars, diskVars, setup
<1>6. ASSUME NEW c \in Client, UNCHANGED setup,
            PutEnds(c)
     PROVE  Roles'
  BY <1>6 DEF TypeOK, Roles, PutEnds, FinArrives, Uploads, clientVars,
     diskVars, setup
<1>7. ASSUME NEW c \in Client, UNCHANGED setup,
            GetEnds(c)
     PROVE  Roles'
  BY <1>7 DEF TypeOK, Roles, GetEnds, clientVars, diskVars, setup
<1>8. ASSUME NEW c \in Client, UNCHANGED setup,
            TakeEntries(c)
     PROVE  Roles'
  BY <1>8 DEF TypeOK, Roles, TakeEntries, Takes, Becomes, clientVars,
     diskVars, setup
<1>9. ASSUME NEW c \in Client, UNCHANGED setup,
            TakeAck(c)
     PROVE  Roles'
  BY <1>9 DEF TypeOK, Roles, TakeAck, Takes, Becomes, clientVars, diskVars,
     setup
<1>10. ASSUME NEW c \in Client, UNCHANGED setup,
            TakeMeta(c)
     PROVE  Roles'
  BY <1>10 DEF TypeOK, Roles, TakeMeta, Takes, Becomes, Uploads, clientVars,
     diskVars, setup
<1>11. ASSUME NEW c \in Client, UNCHANGED setup,
            LoseHello(c)
     PROVE  Roles'
  BY <1>11 DEF TypeOK, Roles, LoseHello, TakeHello, clientVars, diskVars,
     setup
<1>12. ASSUME NEW c \in Client, UNCHANGED setup,
            Answer(c)
     PROVE  Roles'
  BY <1>12 DEF TypeOK, Roles, Answer, TakeHello, Reply, Uploads, clientVars,
     diskVars, setup
<1>13. ASSUME NEW c \in Client, UNCHANGED setup,
            Mkdir(c)
     PROVE  Roles'
  BY <1>13 DEF TypeOK, Roles, Mkdir, TakeHello, Reply, MkdirSucceeds,
     clientVars, diskVars, setup
<1>14. ASSUME NEW c \in Client, UNCHANGED setup,
            Unlink(c)
     PROVE  Roles'
  BY <1>14 DEF TypeOK, Roles, Unlink, TakeHello, Reply, clientVars, diskVars,
     setup
<1>15. ASSUME NEW c \in Client, UNCHANGED setup,
            StartDownload(c)
     PROVE  Roles'
  BY <1>15 DEF TypeOK, Roles, StartDownload, TakeHello, Reply, Session,
     clientVars, diskVars, setup
<1>16. ASSUME NEW c \in Client, UNCHANGED setup,
            StartUpload(c)
     PROVE  Roles'
  BY <1>16 DEF TypeOK, Roles, StartUpload, TakeHello, Reply, Session, Uploads,
     clientVars, diskVars, setup
<1>17. ASSUME NEW c \in Client, UNCHANGED setup,
            SkipHello(c)
     PROVE  Roles'
  BY <1>17 DEF TypeOK, Roles, SkipHello, TakeHello, clientVars, diskVars,
     setup
<1>18. CASE /\ UNCHANGED setup
          /\ MetaArrives
  BY <1>18 DEF TypeOK, Roles, MetaArrives, Session, Idle, Uploads, clientVars,
     diskVars, setup
<1>19. CASE /\ UNCHANGED setup
          /\ MetaTimeout
  BY <1>19 DEF TypeOK, Roles, MetaTimeout, Session, Idle, clientVars,
     diskVars, setup
<1>20. CASE /\ UNCHANGED setup
          /\ UploadDecoded
  BY <1>20 DEF TypeOK, Roles, UploadDecoded, Session, clientVars, diskVars,
     setup
<1>21. CASE /\ UNCHANGED setup
          /\ Store
  BY <1>21 DEF TypeOK, Roles, Store, Session, Idle, clientVars, diskVars,
     setup
<1>22. CASE /\ UNCHANGED setup
          /\ HashMismatch
  BY <1>22 DEF TypeOK, Roles, HashMismatch, Session, clientVars, diskVars,
     setup
<1>23. CASE /\ UNCHANGED setup
          /\ UploadAborts
  BY <1>23 DEF TypeOK, Roles, UploadAborts, Interrupted, AfterAbort, Session,
     TakeHello, clientVars, diskVars, setup
<1>24. CASE /\ UNCHANGED setup
          /\ DownloadEnds
  BY <1>24 DEF TypeOK, Roles, DownloadEnds, Interrupted, Session, Idle,
     TakeHello, clientVars, diskVars, setup
<1>25. CASE /\ UNCHANGED setup
          /\ MuxWrites
  BY <1>25 DEF TypeOK, Roles, MuxWrites, clientVars, diskVars, setup
<1>26. CASE /\ UNCHANGED setup
          /\ MuxStored
  BY <1>26 DEF TypeOK, Roles, MuxStored, Session, Idle, clientVars, diskVars,
     setup
<1>27. CASE /\ UNCHANGED setup
          /\ MuxTimeout
  BY <1>27 DEF TypeOK, Roles, MuxTimeout, Session, clientVars, diskVars, setup
<1>28. CASE /\ UNCHANGED setup
          /\ PoolBreaks
  BY <1>28 DEF TypeOK, Roles, PoolBreaks, Session, clientVars, diskVars, setup
<1>29. CASE /\ UNCHANGED setup
          /\ Kill
  BY <1>29 DEF TypeOK, Roles, Kill, Session, Idle, clientVars, diskVars, setup
<1>30. QED
  BY <1>1, <1>2, <1>3, <1>4, <1>5, <1>6, <1>7, <1>8, <1>9, <1>10, <1>11,
     <1>12, <1>13, <1>14, <1>15, <1>16, <1>17, <1>18, <1>19, <1>20, <1>21,
     <1>22, <1>23, <1>24, <1>25, <1>26, <1>27, <1>28, <1>29 DEF Next, ClientStep, ServerStep

\* Only Store and the requests of the idle server change what a path holds.
LEMMA WholeStep ==
    ASSUME TypeOK, WholeFiles, [Next]_vars
    PROVE  WholeFiles'
<1>1. CASE UNCHANGED vars
  BY <1>1, SessionAssumption DEF TypeOK, WholeFiles, vars, setup, moving,
     clientVars, diskVars
<1>2. ASSUME NEW c \in Client, UNCHANGED setup,
            Ask(c) \/ AskAgain(c) \/ Leave(c) \/ SendAll(c) \/ PutEnds(c)
            \/ GetEnds(c)
     PROVE  WholeFiles'
  BY <1>2, SessionAssumption DEF TypeOK, WholeFiles, Ask, AskAgain, Leave,
     SendAll, PutEnds, GetEnds, FinArrives, Uploads, clientVars, diskVars,
     setup
<1>3. ASSUME NEW c \in Client, UNCHANGED setup,
            TakeEntries(c) \/ TakeAck(c) \/ TakeMeta(c) \/ LoseHello(c)
            \/ Answer(c) \/ SkipHello(c)
     PROVE  WholeFiles'
  BY <1>3, SessionAssumption DEF TypeOK, WholeFiles, TakeEntries, TakeAck,
     TakeMeta, LoseHello, Answer, SkipHello, Takes, Becomes, Uploads,
     TakeHello, Reply, clientVars, diskVars, setup
<1>4. ASSUME NEW c \in Client, UNCHANGED setup,
            Mkdir(c)
     PROVE  WholeFiles'
  BY <1>4, SessionAssumption DEF TypeOK, WholeFiles, Mkdir, TakeHello, Reply,
     MkdirSucceeds, clientVars, diskVars, setup
<1>5. ASSUME NEW c \in Client, UNCHANGED setup,
            Unlink(c)
     PROVE  WholeFiles'
  BY <1>5, SessionAssumption DEF TypeOK, WholeFiles, Unlink, TakeHello, Reply,
     clientVars, diskVars, setup
<1>6. ASSUME NEW c \in Client, UNCHANGED setup,
            StartDownload(c) \/ StartUpload(c)
     PROVE  WholeFiles'
  BY <1>6, SessionAssumption DEF TypeOK, WholeFiles, StartDownload,
     StartUpload, TakeHello, Reply, Session, Uploads, clientVars, diskVars,
     setup
<1>7. CASE /\ UNCHANGED setup
          /\ MetaArrives
  BY <1>7, SessionAssumption DEF TypeOK, WholeFiles, MetaArrives, Session,
     Idle, Uploads, clientVars, diskVars, setup
<1>8. CASE /\ UNCHANGED setup
          /\ UploadDecoded
  BY <1>8, SessionAssumption DEF TypeOK, WholeFiles, UploadDecoded, Session,
     clientVars, diskVars, setup
<1>9. CASE /\ UNCHANGED setup
          /\ Store
  BY <1>9, SessionAssumption DEF TypeOK, WholeFiles, Store, Session, Idle,
     clientVars, diskVars, setup
<1>10. CASE /\ UNCHANGED setup
          /\ (MuxWrites \/ MuxStored)
  BY <1>10, SessionAssumption DEF TypeOK, WholeFiles, MuxWrites, MuxStored,
     Session, Idle, clientVars, diskVars, setup
<1>11. CASE /\ UNCHANGED setup
          /\ (MetaTimeout \/ HashMismatch \/ MuxTimeout \/ PoolBreaks \/ Kill)
  BY <1>11, SessionAssumption DEF TypeOK, WholeFiles, MetaTimeout,
     HashMismatch, MuxTimeout, PoolBreaks, Kill, Session, Idle, clientVars,
     diskVars, setup
<1>12. CASE /\ UNCHANGED setup
          /\ UploadAborts
  BY <1>12, SessionAssumption DEF TypeOK, WholeFiles, UploadAborts,
     Interrupted, AfterAbort, Session, TakeHello, clientVars, diskVars, setup
<1>13. CASE /\ UNCHANGED setup
          /\ DownloadEnds
  BY <1>13, SessionAssumption DEF TypeOK, WholeFiles, DownloadEnds,
     Interrupted, Session, Idle, TakeHello, clientVars, diskVars, setup
<1>14. QED
  BY <1>1, <1>2, <1>3, <1>4, <1>5, <1>6, <1>7, <1>8, <1>9, <1>10, <1>11,
     <1>12, <1>13 DEF Next, ClientStep, ServerStep

\* A put has its last block in the step before it is stored.
LEMMA StoredStep ==
    ASSUME TypeOK, Roles, DecodedIsStored, [Next]_vars
    PROVE  DecodedIsStored'
<1>1. CASE UNCHANGED vars
  BY <1>1 DEF TypeOK, Roles, DecodedIsStored, vars, setup, moving, clientVars,
     diskVars
<1>2. ASSUME NEW c \in Client, UNCHANGED setup,
            Ask(c) \/ AskAgain(c) \/ Leave(c) \/ SendAll(c) \/ PutEnds(c)
     PROVE  DecodedIsStored'
  BY <1>2 DEF TypeOK, Roles, DecodedIsStored, Ask, AskAgain, Leave, SendAll,
     PutEnds, FinArrives, Uploads, clientVars, diskVars, setup
<1>3. ASSUME NEW c \in Client, UNCHANGED setup,
            GetEnds(c)
     PROVE  DecodedIsStored'
  BY <1>3 DEF TypeOK, Roles, DecodedIsStored, GetEnds, clientVars, diskVars,
     setup
<1>4. ASSUME NEW c \in Client, UNCHANGED setup,
            TakeEntries(c) \/ TakeAck(c) \/ TakeMeta(c) \/ LoseHello(c)
            \/ Answer(c) \/ SkipHello(c)
     PROVE  DecodedIsStored'
  BY <1>4 DEF TypeOK, Roles, DecodedIsStored, TakeEntries, TakeAck, TakeMeta,
     LoseHello, Answer, SkipHello, Takes, Becomes, Uploads, TakeHello, Reply,
     clientVars, diskVars, setup
<1>5. ASSUME NEW c \in Client, UNCHANGED setup,
            Mkdir(c) \/ Unlink(c)
     PROVE  DecodedIsStored'
  BY <1>5 DEF TypeOK, Roles, DecodedIsStored, Mkdir, Unlink, TakeHello, Reply,
     MkdirSucceeds, clientVars, diskVars, setup
<1>6. ASSUME NEW c \in Client, UNCHANGED setup,
            StartDownload(c) \/ StartUpload(c)
     PROVE  DecodedIsStored'
  BY <1>6 DEF TypeOK, Roles, DecodedIsStored, StartDownload, StartUpload,
     TakeHello, Reply, Session, Uploads, clientVars, diskVars, setup
<1>7. CASE /\ UNCHANGED setup
          /\ MetaArrives
  BY <1>7 DEF TypeOK, Roles, DecodedIsStored, MetaArrives, Session, Idle,
     Uploads, clientVars, diskVars, setup
<1>8. CASE /\ UNCHANGED setup
          /\ UploadDecoded
  BY <1>8 DEF TypeOK, Roles, DecodedIsStored, UploadDecoded, Session,
     clientVars, diskVars, setup
<1>9. CASE /\ UNCHANGED setup
          /\ Store
  BY <1>9 DEF TypeOK, Roles, DecodedIsStored, Store, Session, Idle,
     clientVars, diskVars, setup
<1>10. CASE /\ UNCHANGED setup
          /\ MuxWrites
  BY <1>10 DEF TypeOK, Roles, DecodedIsStored, MuxWrites, clientVars,
     diskVars, setup
<1>11. CASE /\ UNCHANGED setup
          /\ MuxStored
  BY <1>11 DEF TypeOK, Roles, DecodedIsStored, MuxStored, Session, Idle,
     clientVars, diskVars, setup
<1>12. CASE /\ UNCHANGED setup
          /\ MetaTimeout
  BY <1>12 DEF TypeOK, Roles, DecodedIsStored, MetaTimeout, Session, Idle,
     clientVars, diskVars, setup
<1>13. CASE /\ UNCHANGED setup
          /\ MuxTimeout
  BY <1>13 DEF TypeOK, Roles, DecodedIsStored, MuxTimeout, Session,
     clientVars, diskVars, setup
<1>14. CASE /\ UNCHANGED setup
          /\ PoolBreaks
  BY <1>14 DEF TypeOK, Roles, DecodedIsStored, PoolBreaks, Session,
     clientVars, diskVars, setup
<1>15. CASE /\ UNCHANGED setup
          /\ HashMismatch
  BY <1>15 DEF TypeOK, Roles, DecodedIsStored, HashMismatch, Session,
     clientVars, diskVars, setup
<1>16. CASE /\ UNCHANGED setup
          /\ Kill
  BY <1>16 DEF TypeOK, Roles, DecodedIsStored, Kill, Session, Idle,
     clientVars, diskVars, setup
<1>17. CASE /\ UNCHANGED setup
          /\ UploadAborts
  BY <1>17 DEF TypeOK, Roles, DecodedIsStored, UploadAborts, Interrupted,
     AfterAbort, Session, TakeHello, clientVars, diskVars, setup
<1>18. CASE /\ UNCHANGED setup
          /\ DownloadEnds
  BY <1>18 DEF TypeOK, Roles, DecodedIsStored, DownloadEnds, Interrupted,
     Session, Idle, TakeHello, clientVars, diskVars, setup
<1>19. QED
  BY <1>1, <1>2, <1>3, <1>4, <1>5, <1>6, <1>7, <1>8, <1>9, <1>10, <1>11,
     <1>12, <1>13, <1>14, <1>15, <1>16, <1>17, <1>18 DEF Next, ClientStep, ServerStep

\* A client that asks for an unlink has asked for ever.
LEMMA AskedStays ==
    ASSUME TypeOK, [Next]_vars, NobodyUnlinks'
    PROVE  NobodyUnlinks
<1>1. \A c \in Client : client[c] # "off" => client'[c] # "off"
  <2>1. CASE UNCHANGED client
    BY <2>1
  <2>2. ASSUME NEW c \in Client, NEW s \in {"asking", "receiving", "sending", "ok", "failed"},
               client' = [client EXCEPT ![c] = s]
        PROVE  \A d \in Client : client[d] # "off" => client'[d] # "off"
    BY <2>2 DEF TypeOK
  <2>3. ASSUME NEW c \in Client, ClientStep(c)
        PROVE  \/ UNCHANGED client
               \/ \E s \in {"asking", "receiving", "sending", "ok", "failed"} :
                     client' = [client EXCEPT ![c] = s]
    BY <2>3 DEF ClientStep, Ask, AskAgain, Leave, SendAll, PutEnds, GetEnds,
       TakeEntries, TakeAck, TakeMeta, Becomes, clientVars
  <2>4. QED
    BY <2>1, <2>2, <2>3 DEF Next, vars, moving, clientVars, LoseHello, ServerStep, Answer,
       Mkdir, Unlink, StartDownload, StartUpload, SkipHello, MetaArrives, MetaTimeout,
       UploadDecoded, Store, HashMismatch, UploadAborts, DownloadEnds, MuxWrites,
       MuxStored, MuxTimeout, PoolBreaks, Kill
<1>2. op' = op
  BY DEF Next, vars, moving, clientVars, ClientStep, Ask, AskAgain, Leave, SendAll,
     PutEnds, GetEnds, TakeEntries, TakeAck, TakeMeta, LoseHello, ServerStep, Answer,
     Mkdir, Unlink, StartDownload, StartUpload, SkipHello, MetaArrives, MetaTimeout,
     UploadDecoded, Store, HashMismatch, UploadAborts, DownloadEnds, MuxWrites,
     MuxStored, MuxTimeout, PoolBreaks, Kill
<1>3. QED
  BY <1>1, <1>2 DEF NobodyUnlinks

\* Without an unlink the path that was made stays, and only the mkdir that made
\* it is acked.
LEMMA MadeStep ==
    ASSUME TypeOK, Roles, MadeOnce, [Next]_vars
    PROVE  MadeOnce'
<1> SUFFICES ASSUME NobodyUnlinks'
             PROVE  Made'
  BY DEF MadeOnce
<1>0. NobodyUnlinks /\ Made
  BY AskedStays DEF MadeOnce
<1>1. CASE UNCHANGED vars
  BY <1>1, <1>0, SessionAssumption DEF TypeOK, Made, Acked, vars, setup,
     moving, clientVars, diskVars
<1>2. ASSUME NEW c \in Client, UNCHANGED setup,
            Ask(c) \/ AskAgain(c) \/ Leave(c) \/ SendAll(c) \/ PutEnds(c)
            \/ GetEnds(c)
     PROVE  Made'
  BY <1>2, <1>0, SessionAssumption DEF TypeOK, Made, Acked, Ask, AskAgain,
     Leave, SendAll, PutEnds, GetEnds, FinArrives, Uploads, clientVars,
     diskVars, setup
<1>3. ASSUME NEW c \in Client, UNCHANGED setup,
            TakeEntries(c) \/ TakeAck(c) \/ TakeMeta(c) \/ LoseHello(c)
            \/ SkipHello(c)
     PROVE  Made'
  BY <1>3, <1>0, SessionAssumption DEF TypeOK, Made, Acked, TakeEntries,
     TakeAck, TakeMeta, LoseHello, SkipHello, Takes, Becomes, Uploads,
     TakeHello, clientVars, diskVars, setup
<1>4. ASSUME NEW c \in Client, UNCHANGED setup,
            Answer(c)
     PROVE  Made'
  BY <1>4, <1>0, SessionAssumption DEF TypeOK, Made, Acked, Answer, TakeHello,
     Reply, Uploads, clientVars, diskVars, setup
<1>5. ASSUME NEW c \in Client, UNCHANGED setup,
            Mkdir(c)
     PROVE  Made'
  BY <1>5, <1>0, SessionAssumption DEF TypeOK, Made, Acked, Mkdir, TakeHello,
     Reply, MkdirSucceeds, clientVars, diskVars, setup
<1>6. ASSUME NEW c \in Client, UNCHANGED setup,
            Unlink(c)
     PROVE  Made'
  <2>1. hello[c] # 0 /\ op[c] = "unlink"
    BY <1>6 DEF TypeOK, Unlink, TakeHello
  <2>2. QED
    BY <2>1, <1>6, <1>0 DEF NobodyUnlinks, Roles
<1>7. ASSUME NEW c \in Client, UNCHANGED setup,
            StartDownload(c) \/ StartUpload(c)
     PROVE  Made'
  BY <1>7, <1>0, SessionAssumption DEF TypeOK, Made, Acked, StartDownload,
     StartUpload, TakeHello, Reply, Session, Uploads, clientVars, diskVars,
     setup
<1>8. CASE /\ UNCHANGED setup
          /\ MetaArrives
  BY <1>8, <1>0, SessionAssumption DEF TypeOK, Made, Acked, MetaArrives,
     Session, Idle, Uploads, clientVars, diskVars, setup
<1>9. CASE /\ UNCHANGED setup
          /\ Store
  BY <1>9, <1>0, SessionAssumption DEF TypeOK, Made, Acked, Store, Session,
     Idle, clientVars, diskVars, setup
<1>10. CASE /\ UNCHANGED setup
          /\ (MuxWrites \/ MuxStored)
  BY <1>10, <1>0, SessionAssumption DEF TypeOK, Made, Acked, MuxWrites,
     MuxStored, Session, Idle, clientVars, diskVars, setup
<1>11. CASE /\ UNCHANGED setup
          /\ (MetaTimeout \/ UploadDecoded \/ HashMismatch \/ MuxTimeout
                \/ PoolBreaks \/ Kill)
  BY <1>11, <1>0, SessionAssumption DEF TypeOK, Made, Acked, MetaTimeout,
     UploadDecoded, HashMismatch, MuxTimeout, PoolBreaks, Kill, Session, Idle,
     clientVars, diskVars, setup
<1>12. CASE /\ UNCHANGED setup
          /\ (UploadAborts \/ DownloadEnds)
  BY <1>12, <1>0, SessionAssumption DEF TypeOK, Made, Acked, UploadAborts,
     DownloadEnds, Interrupted, AfterAbort, Session, TakeHello, Idle,
     clientVars, diskVars, setup
<1>13. QED
  BY <1>1, <1>2, <1>3, <1>4, <1>5, <1>6, <1>7, <1>8, <1>9, <1>10, <1>11, <1>12 DEF Next, ClientStep, ServerStep

LEMMA SessionStep == SessionInv /\ [Next]_vars => SessionInv'
BY TypeStep, RolesStep, WholeStep, StoredStep, MadeStep DEF SessionInv

\* The invariant the theorems below follow from.
THEOREM SessionInvAlways == Spec => []SessionInv
<1>1. QED
  BY SessionInit, SessionStep, PTL DEF Spec

\* The states of the clients and of the server stay in their domains; among
\* them, the server has a peer exactly while it is busy, and all data was sent
\* only after a meta packet.
THEOREM SessionTypes == Spec => []TypeOK
<1>1. SessionInv => TypeOK
  BY DEF SessionInv
<1>2. QED
  BY <1>1, SessionInit, SessionStep, PTL DEF Spec

\* Whatever aborts, takeovers, leftover hellos and kills happen, a path never
\* holds a part of an uploaded file.
THEOREM OnlyWholeFiles == Spec => []PathHoldsWhole
<1>1. SessionInv => PathHoldsWhole
  BY DEF SessionInv, WholeFiles, PathHoldsWhole
<1>2. QED
  BY <1>1, SessionInvAlways, PTL

\* A put that its client reports as done is stored, although the FINs leave
\* before the file is in place.
THEOREM OkIsStored == Spec => []PutOkIsStored
<1>1. SessionInv => PutOkIsStored
  BY DEF SessionInv, Roles, DecodedIsStored, PutOkIsStored
<1>2. QED
  BY <1>1, SessionInvAlways, PTL

\* At most one of any number of clients is told that it made a directory.
THEOREM OneMkdirIsTold == Spec => []MkdirToldOnce
<1>1. SessionInv => MkdirToldOnce
  <2> SUFFICES ASSUME SessionInv, NobodyUnlinks
               PROVE  Cardinality({c \in Client : op[c] = "mkdir" /\ client[c] = "ok"}) <= 1
    BY DEF MkdirToldOnce, NobodyUnlinks
  <2> DEFINE told == {c \in Client : op[c] = "mkdir" /\ client[c] = "ok"}
  <2>1. \A c, d \in told : c = d
    BY DEF SessionInv, Roles, MadeOnce, Made, Acked
  <2>2. CASE told = {}
    BY <2>2, FS_EmptySet
  <2>3. CASE told # {}
    <3>1. PICK c : told = {c}
      BY <2>1, <2>3
    <3>2. QED
      BY <3>1, FS_Singleton
  <2>4. QED
    BY <2>2, <2>3
<1>2. QED
  BY <1>1, SessionInvAlways, PTL

\* Without uploads, the server is idle or sends.
ReadOnlyServes ==
    ~allowUpload /\ faults \cap {"empty", "pool"} = {} =>
        at \in {"idle", "send", "mux_send"}

\* StaysServing, which the code breaks, holds of a server that takes no
\* uploads: no client, no order of hellos and no silence ends it, as long as
\* no file is empty and no worker of the pool dies.
THEOREM ReadOnlyStaysServing ==
    Spec => [](~allowUpload /\ faults \cap {"empty", "pool"} = {} => StaysServing)
<1>1. Init => ReadOnlyServes
  BY DEF Init, ReadOnlyServes
<1>2. ASSUME ReadOnlyServes, [Next]_vars
      PROVE  ReadOnlyServes'
  <2> SUFFICES ASSUME ~allowUpload', faults' \cap {"empty", "pool"} = {}
               PROVE  at' \in {"idle", "send", "mux_send"}
    BY DEF ReadOnlyServes
  <2>1. UNCHANGED setup
    BY <1>2 DEF Next, vars
  <2>2. /\ ~allowUpload /\ "empty" \notin faults /\ "pool" \notin faults
        /\ at \in {"idle", "send", "mux_send"}
    BY <1>2, <2>1 DEF setup, ReadOnlyServes
  <2>3. CASE UNCHANGED vars
    BY <2>2, <2>3 DEF vars, moving
  <2>4. ASSUME NEW c \in Client, ClientStep(c) \/ LoseHello(c)
        PROVE  at' = at
    BY <2>4 DEF ClientStep, LoseHello, Ask, AskAgain, Leave, SendAll, PutEnds, GetEnds,
       TakeEntries, TakeAck, TakeMeta, clientVars, diskVars
  <2>5. ASSUME NEW c \in Client, \/ Answer(c) \/ Mkdir(c) \/ Unlink(c)
                                 \/ StartDownload(c) \/ StartUpload(c) \/ SkipHello(c)
        PROVE  at' \in {"idle", "send", "mux_send"}
    BY <2>2, <2>5 DEF Answer, Mkdir, Unlink, StartDownload, StartUpload, SkipHello,
       Session, UploadsOn
  <2>6. CASE \/ MetaArrives \/ MetaTimeout \/ UploadDecoded \/ Store
             \/ HashMismatch \/ UploadAborts \/ DownloadEnds
             \/ MuxWrites \/ MuxStored \/ MuxTimeout \/ PoolBreaks
    BY <2>2, <2>6 DEF MetaArrives, MetaTimeout, UploadDecoded, Store, HashMismatch,
       UploadAborts, DownloadEnds, MuxWrites, MuxStored, MuxTimeout, PoolBreaks, Idle,
       Session
  <2>7. CASE Kill
    BY <2>7 DEF Kill, Idle, Session
  <2>8. QED
    BY <1>2, <2>2, <2>3, <2>4, <2>5, <2>6, <2>7 DEF Next, ServerStep
<1>3. ReadOnlyServes => (~allowUpload /\ faults \cap {"empty", "pool"} = {} => StaysServing)
  BY DEF ReadOnlyServes, StaysServing
<1>4. QED
  BY <1>1, <1>2, <1>3, PTL DEF Spec
=============================================================================
