---------------------------- MODULE FtpSystemProofs ----------------------------
(***************************************************************************)
(* Proofs about FtpSystem, for any number of commands, ABORs and jobs: the *)
(* system implements the server session that TransferSession specifies,    *)
(* and in the client the two readers and the two sides of an abort keep    *)
(* out of each other's way.                                                *)
(***************************************************************************)
EXTENDS FtpSystem, TLAPS

-------------------------------------------------------------------------------
(* The system as an implementation of TransferSession.                     *)

LEMMA CommandLoopImplements == ASSUME CommandLoop PROVE Server!Control
  BY DEF CommandLoop, S_Refuse, S_Passive, S_Port, S_Transfer, S_Other, S_Abort,
         S_Handler, S_Disconnect, Server!Control

LEMMA ClientImplements ==
    ASSUME Client \/ DataPort \/ Resting
    PROVE  UNCHANGED sessionVars
  BY DEF Client, DataPort, D_Open, D_Receives, D_EndOfFile, Resting, ServerStays,
         systemVars

(* Every step of client and server together is a step of the session that  *)
(* TransferSession describes, or leaves the session as it is: what is      *)
(* proved there of a session whose client may send anything holds for the  *)
(* real client.                                                            *)
THEOREM SystemImplementsSession == SystemSpec => Server!Spec
<1>1. SystemInit => Server!Init
  BY DEF SystemInit
<1>2. [SystemNext]_systemVars => [Server!Next]_(Server!vars)
  <2> SUFFICES ASSUME [SystemNext]_systemVars
               PROVE  Server!Next \/ UNCHANGED sessionVars
    BY DEF Server!vars, Server!sessionVars, Server!controlVars,
           Server!workerVars, sessionVars
  <2>1. CASE CommandLoop
    BY <2>1, CommandLoopImplements DEF Server!Next
  <2>2. CASE \E j \in Server!Jobs : S_Worker(j)
    BY <2>2 DEF S_Worker, Server!Next
  <2>3. CASE Client \/ DataPort \/ Resting
    BY <2>3, ClientImplements
  <2>4. CASE UNCHANGED systemVars
    BY <2>4 DEF systemVars
  <2> QED BY <2>1, <2>2, <2>3, <2>4 DEF SystemNext
<1> QED BY <1>1, <1>2, PTL DEF SystemSpec, Server!Spec

-------------------------------------------------------------------------------
(* What TransferSessionProofs has proved of a session holds here.          *)

Session == INSTANCE TransferSessionProofs WITH
    abortRequested <- sessionAbort, cancelled <- jobCancelled

LEMMA SameSession ==
    /\ Server!TypeOK <=> Session!TypeOK
    /\ [Server!Next]_(Server!vars) <=> [Session!Next]_(Session!vars)
    /\ Server!Init <=> Session!Init
  BY DEF Server!Jobs, Session!Jobs, Server!NoJob, Session!NoJob,
         Server!sessionVars, Session!sessionVars, Server!controlVars,
         Session!controlVars, Server!workerVars, Session!workerVars,
         Server!vars, Session!vars, Server!jobFacts, Session!jobFacts,
         Server!dataPort, Session!dataPort, Server!Gone, Session!Gone,
         Server!Beginning, Session!Beginning, Server!Busy, Session!Busy,
         Server!C_Refuse, Session!C_Refuse, Server!C_Passive,
         Session!C_Passive, Server!C_Port, Session!C_Port,
         Server!C_Transfer, Session!C_Transfer, Server!C_Other,
         Session!C_Other, Server!C_Abort, Session!C_Abort,
         Server!C_SetFlag, Session!C_SetFlag, Server!C_CheckContext,
         Session!C_CheckContext, Server!C_Cancel, Session!C_Cancel,
         Server!C_CheckSocket, Session!C_CheckSocket, Server!C_CloseSocket,
         Session!C_CloseSocket, Server!AbortReply, Session!AbortReply,
         Server!C_Reply, Session!C_Reply, Server!C_Disconnect,
         Session!C_Disconnect, Server!Handler, Session!Handler,
         Server!Control, Session!Control, Server!Goto, Session!Goto,
         Server!JobFails, Session!JobFails, Server!W_Socket,
         Session!W_Socket, Server!W_Ready, Session!W_Ready,
         Server!W_NoSocket, Session!W_NoSocket, Server!W_SetContext,
         Session!W_SetContext, Server!W_CheckAbort, Session!W_CheckAbort,
         Server!W_LastCheck, Session!W_LastCheck, Server!W_TransferFails,
         Session!W_TransferFails, Server!W_CleanUpRaises,
         Session!W_CleanUpRaises, Server!W_BufferRaises,
         Session!W_BufferRaises, Server!W_TransferReturns,
         Session!W_TransferReturns, Server!W_Install, Session!W_Install,
         Server!W_ClearContext, Session!W_ClearContext,
         Server!W_ClearSocket, Session!W_ClearSocket, Server!W_Decide,
         Session!W_Decide, Server!W_Reply, Session!W_Reply,
         Server!W_Inactive, Session!W_Inactive, Server!W_Unabort,
         Session!W_Unabort, Server!Worker, Session!Worker, Server!AllDone,
         Session!AllDone, Server!Done, Session!Done, Server!Next,
         Session!Next, Server!Init, Session!Init, Server!TypeOK, Session!TypeOK, Server!ControlPcs,
         Session!ControlPcs, Server!WorkerPcs, Session!WorkerPcs,
         Server!Running, Session!Running

LEMMA SameSpecification == Server!Spec <=> Session!Spec
  BY SameSession, PTL DEF Server!Spec, Session!Spec

LEMMA SessionInvariance ==
    SystemSpec => [](Server!TypeOK /\ Session!ActiveIsLast)
<1>1. Session!Inv => Session!ActiveIsLast
  BY DEF Session!Inv
<1> QED
  BY SystemImplementsSession, SameSession, SameSpecification, Session!Invariance,
     MaxJobsAssumption, <1>1, PTL

-------------------------------------------------------------------------------
(* What the steps of the server do to what the client can see.             *)

Handling == {"flag", "check", "cancel", "close", "closing", "reply"}
Undecided == Server!Running \cup {"decide"}

\* No job of the system raises, and a busy session has a job.
NotRaised == \A j \in Server!Jobs : result[j] # "raised"
Begun == transferActive \/ cPc \in Handling => started \in Server!Jobs
ServerInv ==
    Server!TypeOK /\ Session!ActiveIsLast /\ NotRaised /\ Begun

FinalReply(j) ==
    [to |-> request[j], code |-> IF result[j] = "success" THEN "226" ELSE "426",
     about |-> request[j]]

HandlerReply ==
    [to |-> serving, code |-> IF command = "ABOR" THEN "426" ELSE "221",
     about |-> request[started]]

\* Where a step of a worker leaves it, and what it has sent.
WorkerEffect(j) ==
    \/ /\ wPc[j] \in Undecided /\ wPc'[j] \in Undecided
       /\ toClient' = toClient
    \/ /\ wPc[j] = "decide" /\ toClient' = toClient
       /\ wPc'[j] = IF sessionAbort THEN "inactive" ELSE "reply"
    \/ /\ wPc[j] = "reply" /\ wPc'[j] = "inactive"
       /\ toClient' = IF cPc \in Server!Gone THEN toClient
                      ELSE Append(toClient, FinalReply(j))
    \/ /\ wPc[j] \in {"inactive", "unabort"} /\ wPc'[j] \in {"unabort", "done"}
       /\ toClient' = toClient

LEMMA WorkerStep ==
    ASSUME Server!TypeOK, NotRaised, NEW j \in Server!Jobs, S_Worker(j)
    PROVE  /\ ClientStays
           /\ UNCHANGED <<toServer, sent, loopVars, cPc, command, started>>
           /\ wPc' = [wPc EXCEPT ![j] = wPc'[j]]
           /\ transferActive' => transferActive
           /\ sessionAbort' => sessionAbort
           /\ NotRaised'
           /\ WorkerEffect(j)
<1> DEFINE Rest ==
      /\ UNCHANGED <<cPc, command, started>>
      /\ wPc' = [wPc EXCEPT ![j] = wPc'[j]]
      /\ transferActive' => transferActive
      /\ sessionAbort' => sessionAbort
<1> DEFINE Moves ==
      \/ wPc[j] \in Undecided /\ wPc'[j] \in Undecided
      \/ wPc[j] = "decide" /\ wPc'[j] = IF sessionAbort THEN "inactive" ELSE "reply"
      \/ wPc[j] = "reply" /\ wPc'[j] = "inactive"
      \/ wPc[j] \in {"inactive", "unabort"} /\ wPc'[j] \in {"unabort", "done"}
<1>1. /\ ClientStays /\ UNCHANGED <<toServer, sent, loopVars>>
      /\ Server!Worker(j) /\ result'[j] # "raised"
      /\ toClient' = IF wPc[j] = "reply" /\ cPc \notin Server!Gone
                     THEN Append(toClient, FinalReply(j)) ELSE toClient
  BY DEF S_Worker, FinalReply
<1>2. wPc[j] \in Server!WorkerPcs /\ result[j] # "raised"
  BY DEF Server!TypeOK, NotRaised
<1>3. Rest /\ Moves
  <2> USE <1>2
      DEF Server!TypeOK, Server!Goto, Server!JobFails, Server!sessionVars,
          Server!controlVars, Server!jobFacts, Server!dataPort, Undecided,
          Server!Running, Server!Beginning
  <2>1. CASE Server!W_Socket(j) BY <2>1 DEF Server!W_Socket
  <2>2. CASE Server!W_Ready(j) BY <2>2 DEF Server!W_Ready
  <2>3. CASE Server!W_NoSocket(j) BY <2>3 DEF Server!W_NoSocket
  <2>4. CASE Server!W_SetContext(j) BY <2>4 DEF Server!W_SetContext
  <2>5. CASE Server!W_CheckAbort(j) BY <2>5 DEF Server!W_CheckAbort
  <2>6. CASE Server!W_LastCheck(j) BY <2>6 DEF Server!W_LastCheck
  <2>7. CASE Server!W_TransferFails(j) BY <2>7 DEF Server!W_TransferFails
  <2>8. CASE Server!W_TransferReturns(j) BY <2>8 DEF Server!W_TransferReturns
  <2>9. CASE Server!W_Install(j) BY <2>9 DEF Server!W_Install
  <2>10. CASE Server!W_ClearContext(j) BY <2>10 DEF Server!W_ClearContext
  <2>11. CASE Server!W_ClearSocket(j) BY <2>11 DEF Server!W_ClearSocket
  <2>12. CASE Server!W_Decide(j) BY <2>12 DEF Server!W_Decide
  <2>13. CASE Server!W_Reply(j) BY <2>13 DEF Server!W_Reply
  <2>14. CASE Server!W_Inactive(j) BY <2>14 DEF Server!W_Inactive
  <2>15. CASE Server!W_Unabort(j) BY <2>15 DEF Server!W_Unabort
  <2>16. CASE Server!W_CleanUpRaises(j)
    BY <2>16, <1>1 DEF Server!W_CleanUpRaises
  <2>17. CASE Server!W_BufferRaises(j)
    BY <2>17, <1>1 DEF Server!W_BufferRaises
  <2> QED
    BY <1>1, <2>1, <2>2, <2>3, <2>4, <2>5, <2>6, <2>7, <2>8, <2>9, <2>10,
       <2>11, <2>12, <2>13, <2>14, <2>15, <2>16, <2>17 DEF Server!Worker
<1>4. NotRaised'
  <2> USE <1>2 DEF NotRaised
  <2>1. result' = result \/ result' = [result EXCEPT ![j] = result'[j]]
    BY <1>1
    DEF Server!TypeOK, Server!Worker, Server!JobFails, Server!W_Socket,
        Server!W_Ready, Server!W_NoSocket, Server!W_SetContext,
        Server!W_CheckAbort, Server!W_LastCheck, Server!W_TransferFails,
        Server!W_CleanUpRaises, Server!W_BufferRaises, Server!W_TransferReturns,
        Server!W_Install, Server!W_ClearContext, Server!W_ClearSocket,
        Server!W_Decide, Server!W_Reply, Server!W_Inactive, Server!W_Unabort
  <2> QED BY <1>1, <2>1 DEF Server!TypeOK
<1>5. WorkerEffect(j)
  BY <1>1, <1>3 DEF WorkerEffect, Undecided, Server!Running, Server!Beginning
<1> QED BY <1>1, <1>3, <1>4, <1>5

LEMMA HandlerStep ==
    ASSUME Server!Handler
    PROVE  /\ cPc \in Handling
           /\ UNCHANGED <<started, wPc, transferActive, command, result>>
           /\ sessionAbort' = IF cPc = "flag" THEN TRUE ELSE sessionAbort
           /\ IF cPc = "reply" THEN cPc' = IF command = "ABOR" THEN "idle" ELSE "closed"
              ELSE cPc' \in Handling \cup {"crashed"} /\ cPc' # "flag"
<1> USE DEF Handling, Server!sessionVars, Server!workerVars, Server!jobFacts,
            Server!dataPort
<1>1. CASE Server!C_SetFlag BY <1>1 DEF Server!C_SetFlag
<1>2. CASE Server!C_CheckContext BY <1>2 DEF Server!C_CheckContext
<1>3. CASE Server!C_Cancel BY <1>3 DEF Server!C_Cancel
<1>4. CASE Server!C_CheckSocket BY <1>4 DEF Server!C_CheckSocket
<1>5. CASE Server!C_CloseSocket BY <1>5 DEF Server!C_CloseSocket
<1>6. CASE Server!C_Reply BY <1>6 DEF Server!C_Reply
<1> QED BY <1>1, <1>2, <1>3, <1>4, <1>5, <1>6 DEF Server!Handler

(* The jobs of the system never raise, and only a session that has a job   *)
(* is busy.                                                                *)
LEMMA ServerInvariance == SystemSpec => []ServerInv
<1> DEFINE Own == NotRaised /\ Begun
<1>1. SystemInit => Own
  BY DEF SystemInit, Server!Init, NotRaised, Begun, Handling
<1>2. Server!TypeOK /\ Server!TypeOK' /\ Own /\ [SystemNext]_systemVars => Own'
  <2> SUFFICES ASSUME Server!TypeOK, Server!TypeOK', Own,
                      [SystemNext]_systemVars
               PROVE  Own'
    OBVIOUS
  <2> USE DEF NotRaised, Begun
  <2>1. CASE UNCHANGED sessionVars
    BY <2>1 DEF sessionVars
  <2>2. CASE \E j \in Server!Jobs : S_Worker(j)
    <3>1. PICK j \in Server!Jobs : S_Worker(j)
      BY <2>2
    <3> QED BY <3>1, WorkerStep
  <2>3. CASE S_Transfer
    <3>1. /\ result' = result /\ cPc = "idle" /\ cPc' = cPc
          /\ started' = started + 1 /\ started < MaxJobs
      BY <2>3 DEF S_Transfer, Server!C_Transfer
    <3>2. started \in 0 .. MaxJobs
      BY DEF Server!TypeOK
    <3>3. started' \in Server!Jobs
      BY ONLY <3>1, <3>2, MaxJobsAssumption DEF Server!Jobs
    <3> QED BY <3>1, <3>3
  <2>4. CASE S_Handler
    <3>1. Server!Handler
      BY <2>4 DEF S_Handler
    <3> QED BY <3>1, HandlerStep DEF Handling
  <2>5. CASE S_Abort
    <3>1. /\ UNCHANGED <<result, started, transferActive>>
          /\ transferActive \/ cPc' \in {"closed", "idle"}
      BY <2>5
      DEF S_Abort, Server!C_Abort, Server!sessionVars, Server!workerVars
    <3> QED BY <3>1 DEF Handling
  <2>6. CASE S_Refuse \/ S_Passive \/ S_Port \/ S_Other \/ S_Disconnect
    BY <2>6
    DEF S_Refuse, S_Passive, S_Port, S_Other, S_Disconnect, Server!C_Refuse,
        Server!C_Passive, Server!C_Port, Server!C_Other, Server!C_Disconnect,
        Server!sessionVars, Server!workerVars, Handling
  <2> QED
    BY <2>1, <2>2, <2>3, <2>4, <2>5, <2>6, ClientImplements
    DEF SystemNext, CommandLoop, systemVars
<1> QED
  BY <1>1, <1>2, SessionInvariance, PTL DEF SystemSpec, ServerInv

-------------------------------------------------------------------------------
(* The client.  A command that is waited for, but for the last QUIT, was   *)
(* sent while there was no transfer thread; and from the registration of   *)
(* its context to the end of the transfer the thread keeps it.             *)

Flags == {threadSet, context, cancelled, abortRequested} \subseteq BOOLEAN

NoThreadMeanwhile ==
    /\ tPc # "none" => threadSet
    /\ cliPc = "dispatch" => ~threadSet
    /\ cliPc = "wait" /\ line # "interrupt" => ~threadSet
    /\ cliPc \in {"join", "joining"} => line = "interrupt"

ContextKept == tPc \in {"checkflag", "run"} => context

ClientInv == Flags /\ NoThreadMeanwhile /\ ContextKept /\ AbortReachesTransfer

LEMMA ClientInvInit == SystemInit => ClientInv
  BY DEF SystemInit, Init, ClientInv, Flags, NoThreadMeanwhile, ContextKept,
         AbortReachesTransfer

LEMMA CommandLineInv == ASSUME ClientInv, U_Enter \/ CommandLine PROVE ClientInv'
<1> USE DEF ClientInv, Flags, NoThreadMeanwhile, ContextKept,
            AbortReachesTransfer, Prompts, Exits, ThreadEnds, AbortEnds, CliSends,
            threadVars, abortVars, dataVars, cliVars
<1>1. CASE U_Enter BY <1>1 DEF U_Enter
<1>2. CASE U_Alive BY <1>2 DEF U_Alive, AbortsTransfer
<1>3. CASE U_Raises BY <1>3 DEF U_Raises
<1>4. CASE U_SetFlag BY <1>4 DEF U_SetFlag
<1>5. CASE U_CheckContext BY <1>5 DEF U_CheckContext
<1>6. CASE U_Cancel BY <1>6 DEF U_Cancel
<1>7. CASE U_Join BY <1>7 DEF U_Join
<1>8. CASE U_Quit BY <1>8 DEF U_Quit
<1>9. CASE U_Command BY <1>9 DEF U_Command
<1>10. CASE U_Port BY <1>10 DEF U_Port
<1>11. CASE U_PortFails BY <1>11 DEF U_PortFails
<1>12. CASE U_StartsThread BY <1>12 DEF U_StartsThread
<1>13. CASE U_Reads BY <1>13 DEF U_Reads, OpensPassive
<1>14. CASE U_LoopEnds BY <1>14 DEF U_LoopEnds
<1> QED
  BY <1>1, <1>2, <1>3, <1>4, <1>5, <1>6, <1>7, <1>8, <1>9, <1>10, <1>11,
     <1>12, <1>13, <1>14 DEF CommandLine

LEMMA ThreadInv == ASSUME ClientInv, Thread PROVE ClientInv'
<1> USE DEF ClientInv, Flags, NoThreadMeanwhile, ContextKept,
            AbortReachesTransfer, ThreadEnds, ThreadReads, ThreadGoes,
            threadVars, abortVars, dataVars, cliVars
<1>1. CASE T_Start BY <1>1 DEF T_Start
<1>2. CASE T_Read227
  <2>1. UNCHANGED <<cliPc, line, threadSet>> /\ tPc' \in {"prepare", "end"}
    BY <1>2 DEF T_Read227
  <2>2. OpensPassive(socket') \/ UNCHANGED abortVars
    BY <1>2 DEF T_Read227, OpensPassive
  <2> QED BY <1>2, <2>1, <2>2 DEF T_Read227, OpensPassive
<1>3. CASE T_SendCommand BY <1>3 DEF T_SendCommand
<1>4. CASE T_NoLocalFile BY <1>4 DEF T_NoLocalFile
<1>5. CASE T_Read150 BY <1>5 DEF T_Read150
<1>6. CASE T_OpenFails BY <1>6 DEF T_OpenFails
<1>7. CASE T_SetContext BY <1>7 DEF T_SetContext
<1>8. CASE T_CheckFlag BY <1>8 DEF T_CheckFlag
<1>9. CASE T_Saves BY <1>9 DEF T_Saves
<1>10. CASE T_Ends BY <1>10 DEF T_Ends
<1>11. CASE T_Close BY <1>11 DEF T_Close
<1>12. CASE T_ClearFlag BY <1>12 DEF T_ClearFlag
<1>13. CASE T_ReadFinal BY <1>13 DEF T_ReadFinal
<1>14. CASE T_End BY <1>14 DEF T_End
<1>15. CASE T_BufferRaises BY <1>15 DEF T_BufferRaises
<1> QED
  BY <1>1, <1>2, <1>3, <1>4, <1>5, <1>6, <1>7, <1>8, <1>9, <1>10, <1>11,
     <1>12, <1>13, <1>14, <1>15 DEF Thread

LEMMA DataPortInv == ASSUME ClientInv, DataPort PROVE ClientInv'
<1> USE DEF ClientInv, Flags, NoThreadMeanwhile, ContextKept,
            AbortReachesTransfer, Exits, ThreadEnds, ThreadGoes, Reading,
            threadVars, abortVars, dataVars, cliVars
<1>1. CASE D_Open BY <1>1 DEF D_Open, T_Open
<1>2. CASE D_Receives BY <1>2 DEF D_Receives, T_Receives
<1>3. CASE U_EndOfFile BY <1>3 DEF U_EndOfFile
<1>4. CASE T_EndOfFile BY <1>4 DEF T_EndOfFile
<1> QED BY <1>1, <1>2, <1>3, <1>4 DEF DataPort, D_EndOfFile

LEMMA ServerKeepsClientInv ==
    ASSUME ClientInv, UNCHANGED <<cliVars, threadVars, abortVars>>
    PROVE  ClientInv'
  BY DEF ClientInv, Flags, NoThreadMeanwhile, ContextKept, AbortReachesTransfer,
         cliVars, threadVars, abortVars

THEOREM ClientInvariance == SystemSpec => []ClientInv
<1>1. ClientInv /\ [SystemNext]_systemVars => ClientInv'
  <2> SUFFICES ASSUME ClientInv, [SystemNext]_systemVars PROVE ClientInv'
    OBVIOUS
  <2>1. CASE Client
    BY <2>1, CommandLineInv, ThreadInv DEF Client
  <2>2. CASE DataPort
    BY <2>2, DataPortInv
  <2>3. CASE CommandLoop
    <3>1. ClientStays
      BY <2>3 DEF CommandLoop, S_Refuse, S_Passive, S_Port, S_Transfer, S_Other,
                  S_Abort, S_Handler, S_Disconnect
    <3> QED BY <3>1, ServerKeepsClientInv DEF ClientStays
  <2>4. CASE \E j \in Server!Jobs : S_Worker(j)
    <3>1. ClientStays
      BY <2>4 DEF S_Worker
    <3> QED BY <3>1, ServerKeepsClientInv DEF ClientStays
  <2>5. CASE Resting \/ UNCHANGED systemVars
    BY <2>5, ServerKeepsClientInv DEF Resting, systemVars, clientVars, vars
  <2> QED BY <2>1, <2>2, <2>3, <2>4, <2>5 DEF SystemNext
<1> QED BY ClientInvInit, <1>1, PTL DEF SystemSpec

(* Whatever is typed and however the threads interleave, the command line  *)
(* and the transfer thread never wait for a reply together, but after an   *)
(* interrupt.                                                              *)
THEOREM ReadersTakeTurns == SystemSpec => []OneReader
<1>1. ClientInv => OneReader
  BY DEF ClientInv, NoThreadMeanwhile, OneReader, Reading
<1> QED BY ClientInvariance, <1>1, PTL

(* An abort that udp_client_abort_transfer has delivered is not lost to a  *)
(* transfer that is just beginning.                                        *)
THEOREM AbortIsSeen == SystemSpec => []AbortReachesTransfer
<1>1. ClientInv => AbortReachesTransfer
  BY DEF ClientInv
<1> QED BY ClientInvariance, <1>1, PTL
-------------------------------------------------------------------------------
(* Typing.  What may still be sent for what the user has entered keeps the *)
(* numbers of the commands within their bound: a data command sends PASV   *)
(* and itself, an interrupt ABOR and QUIT.                                 *)

ChannelOK ==
    /\ toServer \in Seq(Messages) /\ toClient \in Seq(Replies)
    /\ sent \in Numbers

LocalsOK ==
    /\ cliNumber \in Numbers /\ tNumber \in Numbers
    /\ tTransfer \in Numbers /\ socket \in Sockets
    /\ cliPc \in CliPcs /\ line \in Lines
    /\ tPc \in ThreadPcs /\ tCommand \in DataCommands
    /\ dataMode \in {"none", "PASV", "PORT"}
    /\ threadSet \in BOOLEAN /\ connected \in BOOLEAN /\ context \in BOOLEAN
    /\ cancelled \in BOOLEAN /\ abortRequested \in BOOLEAN
    /\ portRefused \in BOOLEAN /\ misread \in BOOLEAN /\ wrongFile \in BOOLEAN
    /\ aborts \in 0 .. MaxAborts /\ abandoned \in Nat

ThreadMaySend ==
    IF tPc = "start" THEN 2 ELSE IF tPc \in {"wait227", "prepare"} THEN 1 ELSE 0

LineMaySend ==
    IF cliPc \in {"alive", "dispatch"} THEN 2
    ELSE IF cliPc \in {"flag", "check", "cancel", "join", "joining"} THEN 1 ELSE 0

Budget ==
    /\ sent + ThreadMaySend + LineMaySend <= MaxSent + 3
    /\ cliPc = "alive" /\ AbortsTransfer => aborts < MaxAborts

LoopOK ==
    /\ serving \in Numbers /\ address \in Numbers
    /\ request \in [Server!Jobs -> Numbers]
    /\ joined \subseteq Numbers \X Numbers

TypeInv == ChannelOK /\ LocalsOK /\ Budget /\ LoopOK

LEMMA ZeroIsNumber == 0 \in Numbers
  BY BoundsAssumption DEF Numbers

LEMMA SocketValues == {NoSocket, Unbound} \subseteq Sockets /\ Numbers \subseteq Sockets
  BY ZeroIsNumber DEF NoSocket, Sockets

LEMMA TypeInvInit == SystemInit => TypeInv
<1> SUFFICES ASSUME SystemInit PROVE TypeInv
  OBVIOUS
<1>1. ChannelOK
  BY ZeroIsNumber DEF SystemInit, Init, ChannelOK
<1>2. LocalsOK
  <2>1. aborts \in 0 .. MaxAborts /\ abandoned \in Nat /\ socket \in Sockets
    BY SocketValues, BoundsAssumption DEF SystemInit, Init
  <2> QED
    BY <2>1, ZeroIsNumber, Zenon
    DEF SystemInit, Init, LocalsOK, CliPcs, ThreadPcs, Lines, DataCommands
<1>3. Budget
  BY BoundsAssumption
  DEF SystemInit, Init, Budget, ThreadMaySend, LineMaySend
<1>4. LoopOK
  BY ZeroIsNumber DEF SystemInit, LoopOK
<1> QED BY <1>1, <1>2, <1>3, <1>4 DEF TypeInv

\* One side sends a command, or takes the reply at the head.
LEMMA SendsType ==
    ASSUME ChannelOK, NEW c \in Lines, Sends(c), sent < MaxSent + 4
    PROVE  ChannelOK' /\ sent' = sent + 1
<1>1. sent' = sent + 1 /\ sent' \in Numbers
  BY BoundsAssumption DEF Sends, ChannelOK, Numbers
<1>2. [command |-> c, number |-> sent'] \in Messages
  BY <1>1 DEF Messages
<1> QED BY <1>1, <1>2 DEF Sends, ChannelOK

LEMMA ReceivesType ==
    ASSUME ChannelOK, NEW reply, Receives(reply)
    PROVE  ChannelOK' /\ reply \in Replies
  BY DEF Receives, ChannelOK

LEMMA AnswersType ==
    ASSUME ChannelOK, NEW reply \in Replies, toClient' = Append(toClient, reply),
           toServer' \in Seq(Messages), sent' = sent
    PROVE  ChannelOK'
  BY DEF ChannelOK

LEMMA ReplyFields ==
    ASSUME NEW reply \in Replies
    PROVE  reply.to \in Numbers /\ reply.code \in Codes /\ reply.about \in Numbers
  BY DEF Replies

LEMMA CommandLineChannel ==
    ASSUME ChannelOK, Budget, U_Enter \/ CommandLine
    PROVE  ChannelOK'
<1>1. CASE \E c \in Lines : Sends(c) /\ cliPc \in {"alive", "dispatch", "joining"}
  <2>1. PICK c \in Lines : Sends(c) /\ cliPc \in {"alive", "dispatch", "joining"}
    BY <1>1
  <2>2. sent < MaxSent + 4
    BY <2>1, BoundsAssumption
    DEF Budget, ThreadMaySend, LineMaySend, ChannelOK, Numbers
  <2> QED BY <2>1, <2>2, SendsType
<1>2. CASE \E reply : Receives(reply)
  BY <1>2, ReceivesType
<1>3. CASE UNCHANGED channel
  BY <1>3 DEF channel, ChannelOK
<1> QED
  BY <1>1, <1>2, <1>3
  DEF CommandLine, U_Enter, U_Alive, U_Raises, U_SetFlag, U_CheckContext,
      U_Cancel, U_Join, U_Quit, U_Command, U_Port, U_PortFails, U_StartsThread,
      U_Reads, U_LoopEnds, CliSends, Lines

LEMMA CommandLineLocals ==
    ASSUME ChannelOK, LocalsOK, Budget, sent' \in Numbers, U_Enter \/ CommandLine
    PROVE  LocalsOK'
<1>0. /\ 0 \in Numbers
      /\ NoSocket \in Sockets /\ Unbound \in Sockets /\ Numbers \subseteq Sockets
  BY ZeroIsNumber, SocketValues
<1>l. "OTHER" \in Lines /\ "RETR" \in DataCommands /\ UserLines \subseteq Lines
  BY BoundsAssumption DEF Lines, DataCommands
<1> USE <1>0, <1>l
    DEF LocalsOK, CliPcs, Prompts, Exits, ThreadEnds, AbortEnds, CliSends,
        threadVars, abortVars, dataVars, cliVars, history
<1>1. CASE U_Enter BY <1>1, Zenon DEF U_Enter
<1>2. CASE U_Alive
  <2>1. aborts' \in 0 .. MaxAborts
    BY <1>2, BoundsAssumption DEF U_Alive, Budget
  <2> QED BY <1>2, <2>1, Zenon DEF U_Alive
<1>3. CASE U_Raises BY <1>3, Zenon DEF U_Raises, ThreadPcs
<1>4. CASE U_SetFlag BY <1>4, Zenon DEF U_SetFlag
<1>5. CASE U_CheckContext BY <1>5, Zenon DEF U_CheckContext
<1>6. CASE U_Cancel BY <1>6, Zenon DEF U_Cancel, ThreadPcs
<1>7. CASE U_Join BY <1>7, Zenon DEF U_Join
<1>8. CASE U_Quit BY <1>8, Zenon DEF U_Quit
<1>9. CASE U_Command BY <1>9, Zenon DEF U_Command
<1>10. CASE U_Port BY <1>10, Zenon DEF U_Port
<1>11. CASE U_PortFails BY <1>11, Zenon DEF U_PortFails
<1>12. CASE U_StartsThread BY <1>12, Zenon DEF U_StartsThread, ThreadPcs
<1>13. CASE U_Reads
  <2>1. PICK reply \in InTransit :
            /\ Receives(reply) /\ Noted(Answers(reply, cliNumber))
            /\ UNCHANGED abandoned
            /\ portRefused' = (portRefused \/ (line = "PORT" /\ reply.code # "200"))
            /\ \/ Exits("gone")
               \/ /\ Prompts
                  /\ UNCHANGED <<threadVars, connected>>
                  /\ IF line = "PASV" /\ reply.code = "227"
                     THEN OpensPassive(reply.to)
                     ELSE /\ dataMode' = IF line = "PORT" /\ reply.code = "200"
                                         THEN "PORT" ELSE dataMode
                          /\ UNCHANGED <<socket, abortVars>>
    BY <1>13 DEF U_Reads
  <2>2. reply.to \in Numbers
    BY <2>1, ReceivesType, ReplyFields
  <2>3. /\ misread' \in BOOLEAN /\ portRefused' \in BOOLEAN
        /\ UNCHANGED <<aborts, wrongFile>>
    BY <2>1, Zenon DEF Noted
  <2> QED BY <2>1, <2>2, <2>3, Zenon DEF OpensPassive, ThreadPcs
<1>14. CASE U_LoopEnds BY <1>14, Zenon DEF U_LoopEnds, ThreadPcs
<1> QED
  BY <1>1, <1>2, <1>3, <1>4, <1>5, <1>6, <1>7, <1>8, <1>9, <1>10, <1>11,
     <1>12, <1>13, <1>14 DEF CommandLine

LEMMA CommandLineBudget ==
    ASSUME ChannelOK, LocalsOK, Budget, U_Enter \/ CommandLine
    PROVE  Budget'
<1>0. sent \in Nat /\ aborts \in Nat /\ MaxSent \in Nat /\ MaxAborts \in Nat
  BY BoundsAssumption DEF ChannelOK, LocalsOK, Numbers
<1> USE <1>0
    DEF Budget, ThreadMaySend, LineMaySend, Prompts, Exits, ThreadEnds, AbortEnds,
        CliSends, Sends, threadVars, channel, history
<1>1. CASE U_Enter BY <1>1 DEF U_Enter, AbortsTransfer
<1>2. CASE U_Alive BY <1>2 DEF U_Alive
<1>3. CASE U_Raises BY <1>3 DEF U_Raises
<1>4. CASE U_SetFlag BY <1>4 DEF U_SetFlag
<1>5. CASE U_CheckContext BY <1>5 DEF U_CheckContext
<1>6. CASE U_Cancel BY <1>6 DEF U_Cancel
<1>7. CASE U_Join BY <1>7 DEF U_Join
<1>8. CASE U_Quit BY <1>8 DEF U_Quit
<1>9. CASE U_Command BY <1>9 DEF U_Command
<1>10. CASE U_Port BY <1>10 DEF U_Port
<1>11. CASE U_PortFails BY <1>11 DEF U_PortFails
<1>12. CASE U_StartsThread BY <1>12 DEF U_StartsThread
<1>13. CASE U_Reads
  <2>1. /\ sent' = sent /\ cliPc = "wait" /\ cliPc' \in {"prompt", "gone"}
        /\ tPc' \in {tPc, "none"}
    BY <1>13 DEF U_Reads, Receives
  <2> QED BY <2>1
<1>14. CASE U_LoopEnds BY <1>14 DEF U_LoopEnds
<1> QED
  BY <1>1, <1>2, <1>3, <1>4, <1>5, <1>6, <1>7, <1>8, <1>9, <1>10, <1>11,
     <1>12, <1>13, <1>14 DEF CommandLine

LEMMA ThreadChannel ==
    ASSUME ChannelOK, LocalsOK, Budget, Thread
    PROVE  ChannelOK'
<1>1. CASE \E c \in Lines : Sends(c) /\ tPc \in {"start", "prepare"}
  <2>1. PICK c \in Lines : Sends(c) /\ tPc \in {"start", "prepare"}
    BY <1>1
  <2>2. sent < MaxSent + 4
    BY <2>1, BoundsAssumption
    DEF Budget, ThreadMaySend, LineMaySend, ChannelOK, Numbers
  <2> QED BY <2>1, <2>2, SendsType
<1>2. CASE \E reply : Receives(reply)
  BY <1>2, ReceivesType
<1>3. CASE UNCHANGED channel
  BY <1>3 DEF channel, ChannelOK
<1> QED
  BY <1>1, <1>2, <1>3
  DEF Thread, T_Start, T_Read227, T_SendCommand, T_NoLocalFile, T_Read150,
      T_OpenFails, T_SetContext, T_CheckFlag, T_Saves, T_Ends, T_Close,
      T_ClearFlag, T_ReadFinal, T_BufferRaises, T_End, ThreadReads, ThreadGoes,
      Lines, LocalsOK

LEMMA ThreadLocals ==
    ASSUME ChannelOK, LocalsOK, sent' \in Numbers, Thread
    PROVE  LocalsOK'
<1>0. /\ 0 \in Numbers /\ "RETR" \in DataCommands
      /\ NoSocket \in Sockets /\ Numbers \subseteq Sockets
  BY ZeroIsNumber, SocketValues DEF DataCommands
<1>t. {"none", "end", "prepare", "wait227", "wait150", "waitfinal", "open",
       "setctx", "checkflag", "run", "save", "close", "clearflag"} \subseteq ThreadPcs
  BY DEF ThreadPcs, Reading, Transferring
<1>r. \A reply \in InTransit :
          Receives(reply) => reply.to \in Numbers /\ reply.about \in Numbers
  BY ReceivesType, ReplyFields
<1>b. \A answered : Noted(answered) =>
          misread' \in BOOLEAN /\ UNCHANGED <<aborts, wrongFile>>
  BY Zenon DEF Noted
<1> USE <1>0, <1>t
    DEF LocalsOK, ThreadEnds, ThreadReads, ThreadGoes, threadVars, abortVars,
        dataVars, cliVars, history
<1>1. CASE T_Start BY <1>1, Zenon DEF T_Start
<1>2. CASE T_Read227
  <2>1. PICK reply \in InTransit :
            /\ ThreadReads(reply) /\ Noted(Answers(reply, tNumber))
            /\ UNCHANGED abandoned
            /\ IF reply.code = "227"
               THEN tPc' = "prepare" /\ OpensPassive(reply.to)
               ELSE tPc' = "end" /\ UNCHANGED <<dataVars, abortVars>>
    BY <1>2 DEF T_Read227
  <2> QED BY <1>2, <1>r, <1>b, <2>1, Zenon DEF T_Read227, OpensPassive
<1>3. CASE T_SendCommand BY <1>3, Zenon DEF T_SendCommand
<1>4. CASE T_NoLocalFile BY <1>4, Zenon DEF T_NoLocalFile
<1>5. CASE T_Read150
  <2>1. PICK reply \in InTransit :
            /\ ThreadReads(reply) /\ Noted(Answers(reply, tNumber))
            /\ tPc' = IF reply.code = "150" THEN "open" ELSE "end"
            /\ tTransfer' = IF reply.code = "150" THEN reply.about ELSE tTransfer
            /\ abandoned' = abandoned + Abandons(reply)
    BY <1>5 DEF T_Read150
  <2>2. abandoned' \in Nat
    <3>1. abandoned \in Nat /\ Abandons(reply) \in {0, 1}
      BY Zenon DEF Abandons
    <3> HIDE DEF Abandons
    <3> QED BY <2>1, <3>1
  <2> QED BY <1>5, <1>r, <1>b, <2>1, <2>2, Zenon DEF T_Read150
<1>6. CASE T_OpenFails BY <1>6, Zenon DEF T_OpenFails
<1>7. CASE T_SetContext BY <1>7, Zenon DEF T_SetContext
<1>8. CASE T_CheckFlag BY <1>8, Zenon DEF T_CheckFlag
<1>9. CASE T_Saves BY <1>9, Zenon DEF T_Saves
<1>10. CASE T_Ends BY <1>10, Zenon DEF T_Ends
<1>11. CASE T_Close BY <1>11, Zenon DEF T_Close
<1>12. CASE T_ClearFlag BY <1>12, Zenon DEF T_ClearFlag
<1>13. CASE T_ReadFinal
  <2>1. PICK reply \in InTransit : ThreadReads(reply) /\ Noted(Final(reply))
    BY <1>13 DEF T_ReadFinal
  <2> QED BY <1>13, <1>b, <2>1, Zenon DEF T_ReadFinal
<1>14. CASE T_End BY <1>14, Zenon DEF T_End
<1>15. CASE T_BufferRaises
  <2>1. abandoned' \in Nat
    BY <1>15 DEF T_BufferRaises
  <2> QED BY <1>15, <2>1, Zenon DEF T_BufferRaises
<1> QED
  BY <1>1, <1>2, <1>3, <1>4, <1>5, <1>6, <1>7, <1>8, <1>9, <1>10, <1>11,
     <1>12, <1>13, <1>14, <1>15 DEF Thread

LEMMA ThreadBudget ==
    ASSUME ChannelOK, Budget, Thread
    PROVE  Budget'
<1>0. sent \in Nat /\ MaxSent \in Nat
  BY BoundsAssumption DEF ChannelOK, Numbers
<1> USE <1>0
    DEF Budget, ThreadMaySend, LineMaySend, AbortsTransfer, ThreadEnds,
        ThreadReads, ThreadGoes, Receives, Noted, Sends, cliVars, channel, history
<1>1. CASE T_Start BY <1>1 DEF T_Start
<1>2. CASE T_Read227 BY <1>2 DEF T_Read227
<1>3. CASE T_SendCommand BY <1>3 DEF T_SendCommand
<1>4. CASE T_NoLocalFile BY <1>4 DEF T_NoLocalFile
<1>5. CASE T_Read150 BY <1>5 DEF T_Read150
<1>6. CASE T_OpenFails BY <1>6 DEF T_OpenFails
<1>7. CASE T_SetContext BY <1>7 DEF T_SetContext
<1>8. CASE T_CheckFlag BY <1>8 DEF T_CheckFlag
<1>9. CASE T_Saves BY <1>9 DEF T_Saves
<1>10. CASE T_Ends BY <1>10 DEF T_Ends
<1>11. CASE T_Close BY <1>11 DEF T_Close
<1>12. CASE T_ClearFlag BY <1>12 DEF T_ClearFlag
<1>13. CASE T_ReadFinal BY <1>13 DEF T_ReadFinal
<1>14. CASE T_End BY <1>14 DEF T_End
<1>15. CASE T_BufferRaises BY <1>15 DEF T_BufferRaises
<1> QED
  BY <1>1, <1>2, <1>3, <1>4, <1>5, <1>6, <1>7, <1>8, <1>9, <1>10, <1>11,
     <1>12, <1>13, <1>14, <1>15 DEF Thread

LEMMA DataPortType ==
    ASSUME ChannelOK, LocalsOK, Budget, LoopOK, DataPort
    PROVE  ChannelOK' /\ LocalsOK' /\ Budget' /\ LoopOK'
<1>0. 0 \in Numbers /\ NoSocket \in Sockets /\ "RETR" \in DataCommands
      /\ "OTHER" \in Lines /\ sent \in Nat /\ MaxSent \in Nat
  BY ZeroIsNumber, SocketValues, BoundsAssumption
  DEF DataCommands, Lines, ChannelOK, Numbers
<1>1. UNCHANGED <<channel, serving, address, request>>
  BY DEF DataPort, D_Open, D_Receives, D_EndOfFile, ServerStays, loopVars, T_Open,
         T_Receives, U_EndOfFile, T_EndOfFile, ThreadGoes
<1>2. ChannelOK'
  BY <1>1 DEF channel, ChannelOK
<1>3. joined' \subseteq Numbers \X Numbers
  BY DEF DataPort, D_Open, D_Receives, D_EndOfFile, LocalsOK, LoopOK, Sockets
<1>4. LocalsOK'
  <2> USE <1>0
      DEF LocalsOK, CliPcs, ThreadGoes, abortVars, history, cliVars, dataVars
  <2>0. /\ "none" \in ThreadPcs /\ "end" \in ThreadPcs
        /\ "setctx" \in ThreadPcs /\ "save" \in ThreadPcs
    BY DEF ThreadPcs, Transferring
  <2> USE <2>0
  <2>1. CASE D_Open
    <3>1. T_Open BY <2>1 DEF D_Open
    <3> QED BY <3>1 DEF T_Open
  <2>2. CASE D_Receives
    <3>1. T_Receives BY <2>2 DEF D_Receives
    <3> QED BY <3>1 DEF T_Receives
  <2>3. CASE D_EndOfFile /\ U_EndOfFile
    <3>1. U_EndOfFile BY <2>3
    <3> QED BY <3>1 DEF U_EndOfFile, Exits, ThreadEnds
  <2>4. CASE D_EndOfFile /\ T_EndOfFile
    <3>1. T_EndOfFile BY <2>4
    <3> QED BY <3>1 DEF T_EndOfFile
  <2> QED BY <2>1, <2>2, <2>3, <2>4 DEF DataPort, D_EndOfFile
<1>5. Budget'
  <2>1. /\ UNCHANGED <<aborts, sent>>
        /\ tPc' \in {"setctx", "save", "end", "none"}
        /\ cliPc' = "gone" \/ UNCHANGED <<cliPc, line>>
    BY DEF DataPort, D_Open, D_Receives, D_EndOfFile, T_Open, T_Receives,
        U_EndOfFile, T_EndOfFile, ThreadGoes, Exits, ThreadEnds, history, cliVars,
        channel
  <2> QED
    BY <1>0, <2>1
    DEF Budget, ThreadMaySend, LineMaySend, AbortsTransfer
<1> QED BY <1>1, <1>2, <1>3, <1>4, <1>5 DEF LoopOK

LEMMA ServerKeepsClient ==
    ASSUME ClientStays, LocalsOK, Budget, sent' = sent
    PROVE  LocalsOK' /\ Budget'
  BY DEF ClientStays, cliVars, threadVars, dataVars, abortVars, history, LocalsOK,
         Budget, ThreadMaySend, LineMaySend, AbortsTransfer

LEMMA TakesType ==
    ASSUME ChannelOK, NEW commands, Takes(commands)
    PROVE  /\ toServer' \in Seq(Messages) /\ sent' = sent
           /\ Request.number \in Numbers /\ Request.command \in commands
<1>1. Request \in Messages
  BY DEF ChannelOK, Takes, Request
<1>2. Request.number \in Numbers
  BY <1>1 DEF Messages
<1> QED BY <1>2 DEF ChannelOK, Takes

LEMMA AnsweredType ==
    ASSUME ChannelOK, NEW commands, Takes(commands), NEW code \in Codes,
           Answered(code)
    PROVE  ChannelOK'
<1>1. /\ toServer' \in Seq(Messages) /\ sent' = sent
      /\ Request.number \in Numbers
  BY TakesType
<1>2. [to |-> Request.number, code |-> code, about |-> Request.number] \in Replies
  BY <1>1 DEF Replies
<1> QED BY <1>1, <1>2, AnswersType DEF Answered

LEMMA CommandLoopType ==
    ASSUME ServerInv, ServerInv', ChannelOK, LoopOK, CommandLoop
    PROVE  ChannelOK' /\ LoopOK' /\ sent' = sent
<1>0. /\ {"200", "221", "225", "226", "227", "425", "426", "450", "550"} \subseteq Codes
      /\ Preliminary \subseteq Codes
  BY DEF Codes
<1> USE DEF LoopOK, ClientStays, loopVars
<1>1. CASE S_Refuse
  <2>1. Takes(Lines \ {"ABOR", "QUIT"}) /\ Answered("450")
    BY <1>1 DEF S_Refuse
  <2> QED BY <1>0, <1>1, <2>1, AnsweredType, TakesType DEF S_Refuse
<1>2. CASE S_Passive
  <2>1. PICK code \in Codes : Takes({"PASV"}) /\ Answered(code)
    BY <1>0, <1>2 DEF S_Passive
  <2> QED BY <1>2, <2>1, AnsweredType, TakesType DEF S_Passive
<1>3. CASE S_Port
  <2>1. Takes({"PORT"}) /\ Answered("200")
    BY <1>3 DEF S_Port
  <2> QED BY <1>0, <1>3, <2>1, AnsweredType, TakesType DEF S_Port
<1>4. CASE S_Transfer
  <2>1. PICK code \in Codes : Takes(DataCommands) /\ Answered(code)
    BY <1>0, <1>4 DEF S_Transfer
  <2> QED BY <1>4, <2>1, AnsweredType, TakesType DEF S_Transfer
<1>5. CASE S_Other
  <2>1. PICK code \in Codes :
            Takes({"OTHER", "PORT"} \cup DataCommands) /\ Answered(code)
    BY <1>0, <1>5 DEF S_Other
  <2> QED BY <1>5, <2>1, AnsweredType, TakesType DEF S_Other
<1>6. CASE S_Abort
  <2>1. Takes({"ABOR", "QUIT"})
    BY <1>6 DEF S_Abort
  <2>2. CASE transferActive
    BY <1>6, <2>1, <2>2, TakesType DEF S_Abort, ChannelOK
  <2>3. CASE ~transferActive
    <3>1. PICK code \in Codes : Answered(code)
      BY <1>0, <1>6, <2>3 DEF S_Abort
    <3> QED BY <1>6, <2>1, <2>3, <3>1, AnsweredType, TakesType DEF S_Abort
  <2> QED BY <2>2, <2>3
<1>7. CASE S_Handler
  <2>1. CASE cPc # "reply"
    BY <1>7, <2>1 DEF S_Handler, ChannelOK
  <2>2. CASE cPc = "reply"
    <3>1. started \in Server!Jobs
      BY <2>2 DEF ServerInv, Begun, Handling
    <3>2. HandlerReply \in Replies
      BY <1>0, <3>1 DEF HandlerReply, Replies
    <3>3. toClient' = Append(toClient, HandlerReply)
      BY <1>7, <2>2 DEF S_Handler, HandlerReply
    <3> QED BY <1>7, <3>2, <3>3, AnswersType DEF S_Handler, ChannelOK
  <2> QED BY <2>1, <2>2
<1>8. CASE S_Disconnect
  BY <1>8 DEF S_Disconnect, channel, ChannelOK
<1> QED
  BY <1>1, <1>2, <1>3, <1>4, <1>5, <1>6, <1>7, <1>8 DEF CommandLoop

LEMMA WorkerType ==
    ASSUME ServerInv, ChannelOK, LoopOK, NEW j \in Server!Jobs, S_Worker(j)
    PROVE  ChannelOK' /\ LoopOK' /\ sent' = sent
<1>1. ClientStays /\ UNCHANGED <<toServer, sent, loopVars>> /\ WorkerEffect(j)
  BY WorkerStep DEF ServerInv
<1>2. FinalReply(j) \in Replies
  BY DEF FinalReply, Replies, Codes, LoopOK
<1>3. LoopOK'
  BY <1>1 DEF LoopOK, ClientStays, loopVars
<1>4. ChannelOK'
  BY <1>1, <1>2, AnswersType DEF WorkerEffect, ChannelOK
<1> QED BY <1>1, <1>3, <1>4

LEMMA TypeInvStep ==
    ASSUME ServerInv, ServerInv', TypeInv, [SystemNext]_systemVars
    PROVE  TypeInv'
<1> USE DEF TypeInv
<1>1. CASE Client
  <2>1. ChannelOK'
    BY <1>1, CommandLineChannel, ThreadChannel DEF Client
  <2>2. LocalsOK' /\ Budget'
    BY <1>1, <2>1, CommandLineLocals, CommandLineBudget, ThreadLocals, ThreadBudget
    DEF Client, ChannelOK
  <2>3. LoopOK'
    BY <1>1 DEF Client, ServerStays, loopVars, LoopOK
  <2> QED BY <2>1, <2>2, <2>3
<1>2. CASE DataPort BY <1>2, DataPortType
<1>3. CASE CommandLoop
  <2>1. ClientStays
    BY <1>3 DEF CommandLoop, S_Refuse, S_Passive, S_Port, S_Transfer, S_Other,
                S_Abort, S_Handler, S_Disconnect
  <2> QED BY <1>3, <2>1, CommandLoopType, ServerKeepsClient
<1>4. CASE \E j \in Server!Jobs : S_Worker(j)
  <2>1. ClientStays
    BY <1>4 DEF S_Worker
  <2> QED BY <1>4, <2>1, WorkerType, ServerKeepsClient
<1>5. CASE Resting \/ UNCHANGED systemVars
  <2>1. UNCHANGED <<channel, loopVars, joined>> /\ ClientStays
    BY <1>5 DEF Resting, systemVars, clientVars, vars, ClientStays
  <2>2. ChannelOK' /\ LoopOK' /\ sent' = sent
    BY <2>1 DEF channel, loopVars, ChannelOK, LoopOK
  <2> QED BY <2>1, <2>2, ServerKeepsClient
<1> QED BY <1>1, <1>2, <1>3, <1>4, <1>5 DEF SystemNext

LEMMA TypeInvariance == SystemSpec => [](ServerInv /\ TypeInv)
  BY ServerInvariance, TypeInvInit, TypeInvStep, PTL DEF SystemSpec

(* Every message and field of client and server keeps its type; and the    *)
(* commands sent never exceed MaxSent by more than what the last lines     *)
(* entered still send.                                                     *)
THEOREM SystemTyping == SystemSpec => []SystemTypeOK
<1>1. ServerInv /\ TypeInv => SystemTypeOK
  BY DEF ServerInv, TypeInv, ChannelOK, LocalsOK, LoopOK, SystemTypeOK, TypeOK
<1> QED BY <1>1, TypeInvariance, PTL

===============================================================================
