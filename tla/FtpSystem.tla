------------------------------- MODULE FtpSystem -------------------------------
(***************************************************************************)
(* Client and server of one control session: FtpClient and TransferSession *)
(* joined by the control connection, which loses nothing and keeps the     *)
(* order in each direction, and by the data port, where sender and         *)
(* receiver meet only if they use the same address and the same TID.       *)
(*                                                                         *)
(* The command loop takes the commands one at a time, in order; replies    *)
(* come from it and from the workers.                                      *)
(*                                                                         *)
(* S_HandlerIfActive is a fault the code does not have; it replaces the    *)
(* definition after it to see that a property notices.                     *)
(***************************************************************************)
EXTENDS FtpClient, FiniteSets

CONSTANT MaxJobs        \* data commands the server accepts

ASSUME MaxJobsAssumption == MaxJobs \in Nat \ {0}

VARIABLES
    \* the session (TransferSession)
    transferActive, sessionAbort, transferContext, mode, pasvSock,
    cPc, command, refused,
    started, wPc, kind, result, jobSock, jobCancelled, installed, finals,
    \* the command loop
    serving,        \* the ABOR or QUIT that it carries out
    request,        \* the data command of each job
    address,        \* the PASV or PORT that the data port is from
    joined          \* the data ports and transfers that the client has opened

Server == INSTANCE TransferSession WITH
    abortRequested <- sessionAbort, cancelled <- jobCancelled

sessionVars == <<transferActive, sessionAbort, transferContext, mode, pasvSock,
                 cPc, command, refused, started, wPc, kind, result, jobSock,
                 jobCancelled, installed, finals>>
loopVars == <<serving, request, address>>
clientVars == vars
systemVars == <<clientVars, sessionVars, loopVars, joined>>

SystemTypeOK ==
    /\ TypeOK
    /\ Server!TypeOK
    /\ serving \in Numbers /\ address \in Numbers
    /\ request \in [Server!Jobs -> Numbers]
    /\ joined \subseteq Numbers \X Numbers

SystemInit ==
    /\ Init
    /\ Server!Init
    /\ serving = 0 /\ address = 0
    /\ request = [j \in Server!Jobs |-> 0]
    /\ joined = {}

-------------------------------------------------------------------------------
(* The command loop.                                                       *)

Request == Head(toServer)

Takes(commands) ==
    /\ cPc = "idle" /\ toServer # <<>>
    /\ Request.command \in commands
    /\ toServer' = Tail(toServer)
    /\ UNCHANGED sent

Answered(code) ==
    toClient' = Append(toClient, [to |-> Request.number, code |-> code,
                                  about |-> Request.number])

ClientStays ==
    UNCHANGED <<cliVars, threadVars, connected, dataVars, abortVars, history, joined>>

S_Refuse ==
    /\ Takes(Lines \ {"ABOR", "QUIT"})
    /\ Server!C_Refuse
    /\ Answered("450")
    /\ UNCHANGED loopVars /\ ClientStays

S_Passive ==
    /\ Takes({"PASV"})
    /\ Server!C_Passive
    /\ Answered(IF pasvSock' = "open" THEN "227" ELSE "425")
    /\ address' = IF pasvSock' = "open" THEN Request.number ELSE address
    /\ UNCHANGED <<serving, request>> /\ ClientStays

S_Port ==
    /\ Takes({"PORT"})
    /\ Server!C_Port
    /\ Answered("200")
    /\ address' = Request.number
    /\ UNCHANGED <<serving, request>> /\ ClientStays

\* A file that is gone or cannot be read by the time it is hashed has none.
S_Transfer ==
    /\ Takes(DataCommands)
    /\ Server!C_Transfer
    /\ kind'[started'] = (IF Request.command = "STOR" THEN "upload" ELSE "download")
    /\ \E code \in Preliminary :
          /\ code = "unhashed150" => Request.command = "RETR"
          /\ Answered(code)
    /\ request' = [request EXCEPT ![started'] = Request.number]
    /\ UNCHANGED <<serving, address>> /\ ClientStays

\* Any other command, or one refused for its argument (501), its file or the
\* want of a data port (425, 550).
S_Other ==
    /\ Takes({"OTHER", "PORT"} \cup DataCommands)
    /\ Request.command # "OTHER" => ~transferActive
    /\ Server!C_Other
    /\ Answered(IF Request.command = "OTHER" THEN "200" ELSE "550")
    /\ UNCHANGED loopVars /\ ClientStays

S_Abort ==
    /\ Takes({"ABOR", "QUIT"})
    /\ Server!C_Abort
    /\ IF transferActive
       THEN /\ command' = Request.command
            /\ serving' = Request.number
            /\ UNCHANGED toClient
       ELSE /\ cPc' = IF Request.command = "QUIT" THEN "closed" ELSE "idle"
            /\ Answered(IF Request.command = "QUIT" THEN "221" ELSE "225")
            /\ UNCHANGED serving
    /\ UNCHANGED <<request, address>> /\ ClientStays

S_HandlerIfActive ==
    /\ Server!Handler
    /\ toClient' = IF cPc # "reply" \/ ~transferActive THEN toClient
                   ELSE Append(toClient,
                               [to |-> serving,
                                code |-> IF command = "ABOR" THEN "426" ELSE "221",
                                about |-> request[started]])
    /\ UNCHANGED <<toServer, sent, loopVars>> /\ ClientStays

S_Handler ==
    /\ Server!Handler
    /\ toClient' = IF cPc # "reply" THEN toClient
                   ELSE Append(toClient,
                               [to |-> serving,
                                code |-> IF command = "ABOR" THEN "426" ELSE "221",
                                about |-> request[started]])
    /\ UNCHANGED <<toServer, sent, loopVars>> /\ ClientStays

S_Disconnect ==
    /\ cliPc \in Exited
    /\ Server!C_Disconnect
    /\ UNCHANGED <<channel, loopVars>> /\ ClientStays

-------------------------------------------------------------------------------
(* The workers and the data port.                                          *)

\* READY waits in the socket of the address; the packets that a sender and
\* a receiver accept carry their TID.
Reached(j) == \E t \in Numbers : <<address, t>> \in joined
Joined(j) == <<address, request[j]>> \in joined

\* No job raises here: its client would wait for good (FailedUploadIsReported).
S_Worker(j) ==
    /\ Server!Worker(j)
    /\ result'[j] # "raised"
    /\ wPc[j] = "ready" /\ wPc'[j] = "setctx" => Reached(j)
    /\ wPc'[j] = "tail" => Joined(j)
    /\ toClient' = IF wPc[j] = "reply" /\ cPc \notin Server!Gone
                   THEN Append(toClient,
                               [to |-> request[j],
                                code |-> IF result[j] = "success" THEN "226" ELSE "426",
                                about |-> request[j]])
                   ELSE toClient
    /\ UNCHANGED <<toServer, sent, loopVars>> /\ ClientStays

Sending(j) == kind[j] = "download" /\ wPc[j] \in {"transfer", "tail"}

ServerStays == UNCHANGED <<sessionVars, loopVars>>

D_Open ==
    /\ T_Open
    /\ joined' = IF socket = Unbound THEN joined ELSE joined \cup {<<socket, tTransfer>>}
    /\ ServerStays

D_Receives ==
    /\ T_Receives
    /\ socket = address
    /\ \E j \in Server!Jobs : request[j] = tTransfer /\ Sending(j)
    /\ ServerStays /\ UNCHANGED joined

\* All that the server has sent before it closed the connection is read first.
Closed == cPc \in Server!Gone /\ toClient = <<>>

D_EndOfFile ==
    /\ Closed
    /\ U_EndOfFile \/ T_EndOfFile
    /\ ServerStays /\ UNCHANGED joined

Client == (U_Enter \/ CommandLine \/ Thread) /\ ServerStays /\ UNCHANGED joined

-------------------------------------------------------------------------------
CommandLoop ==
    \/ S_Refuse \/ S_Passive \/ S_Port \/ S_Transfer \/ S_Other \/ S_Abort
    \/ S_Handler \/ S_Disconnect

DataPort == D_Open \/ D_Receives \/ D_EndOfFile

\* The user has entered what MaxSent allows, or the client has exited.
Resting ==
    /\ cliPc \in Exited \/ (cliPc = "prompt" /\ sent >= MaxSent /\ ~threadSet)
    /\ cliPc \in Exited => cPc \in Server!Gone
    /\ toServer = <<>> \/ cPc \in Server!Gone
    /\ \A j \in Server!Jobs : wPc[j] \in {"none", "done"}
    /\ UNCHANGED systemVars

SystemNext ==
    \/ Client \/ CommandLoop \/ DataPort
    \/ \E j \in Server!Jobs : S_Worker(j)
    \/ Resting

SystemSpec == SystemInit /\ [][SystemNext]_systemVars

-------------------------------------------------------------------------------
(* Properties.                                                             *)

One(condition) == IF condition THEN 1 ELSE 0

Count(queue, kinds) == Cardinality({i \in DOMAIN queue : queue[i] \in kinds})
JobsIn(pcs) == Cardinality({j \in Server!Jobs : wPc[j] \in pcs})

FinalReplies == {reply \in Replies : reply.code \notin Preliminary}
Owing == Server!Running \cup {"decide", "reply"}

\* Replies that have come or will, 150 and the final reply counted as one.
Owed ==
    Count(toClient, FinalReplies) + Len(toServer) + One(cPc # "idle")
    + JobsIn(Owing)

Awaited == One(cliPc = "wait") + One(tPc \in Reading \cup Transferring)

(* Nothing but their order ties replies to commands.  As long as nobody    *)
(* has read another's reply, the replies on the way are those that         *)
(* somebody waits for, at most one for each ABOR, and at most one for each *)
(* transfer whose thread has ended before its final reply, because its 150 *)
(* did not parse or because its listing could not be stored: never too     *)
(* few, and without an ABOR or such an end never too many.                 *)
RepliesBalance ==
    cPc \notin Server!Gone /\ cliPc \notin Exited /\ ~misread =>
        Owed - Awaited \in 0 .. aborts + abandoned

(* As long as no ABOR is sent during a transfer, and no thread ends        *)
(* between its 150 and the final reply, client and server are in step:     *)
(* every reply is read by whoever sent its command, and every file saved   *)
(* is the one asked for, whatever fails or is refused in between.          *)
InStepWithoutSurplus == aborts = 0 /\ abandoned = 0 => ~misread /\ ~wrongFile

(* Each side keeps its own idea of the data port, and drops it at its own  *)
(* time.  While replies are in step, and no PORT was refused after its     *)
(* socket was bound, a transfer that has a bound socket has the port of    *)
(* the last PASV or PORT that the server has accepted.  (After a PORT that *)
(* could not be bound it has an unbound one, and the server another idea.) *)
SamePort ==
    tPc \in Transferring /\ socket \notin {NoSocket, Unbound} /\ ~misread
        /\ ~portRefused => socket = address

(* Nobody waits for a reply that will not come, whoever has read whose:    *)
(* not for the final one that an ABOR took over, nor for one that the      *)
(* other reader has taken.                                                 *)
NoWaitInVain ==
    cPc \notin Server!Gone /\ cliPc \notin Exited => Owed >= Awaited

(* docs/integration-guide.md:229 - final size and SHA-256 match the        *)
(* source: what is saved is the file that was asked for.                   *)
DownloadIsTheOneAsked == ~wrongFile
===============================================================================
