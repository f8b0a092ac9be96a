--------------------------- MODULE TransferSession ---------------------------
(***************************************************************************)
(* One control session of the server and the threads it starts: the        *)
(* command loop (handle_client_session), a worker per data command         *)
(* (start_transfer around udp_send_file or udp_receive_file) and ABOR,     *)
(* which reaches into the worker through the fields of FTPSession.  No     *)
(* lock guards these fields, so every read and write another thread can    *)
(* observe is a step of its own.                                           *)
(*                                                                         *)
(* The client may send any command at any time.  A transfer is seen as     *)
(* StopAndWait leaves it to the caller: it looks at its context for a last *)
(* time, and from then on ends well or badly whatever ABOR does.           *)
(*                                                                         *)
(* NeverBusy, ReplyIfStillActive, W_SkipCheckAbort, W_KeepContext,         *)
(* W_KeepSocket and W_StayActive are faults the code does not have; each   *)
(* replaces the definition after it to see that a property notices.        *)
(***************************************************************************)
EXTENDS Integers

CONSTANT MaxJobs        \* data commands the session accepts

ASSUME MaxJobsAssumption == MaxJobs \in Nat \ {0}

Jobs == 1 .. MaxJobs
NoJob == 0

VARIABLES
    \* fields of FTPSession
    transferActive, abortRequested,
    transferContext,    \* the job whose TransferContext is registered, or NoJob
    mode, pasvSock,
    \* the command loop
    cPc, command,       \* where it is; the command whose abort it carries out
    refused,            \* the last command was answered with 450
    \* the workers
    started,            \* the data commands accepted so far
    wPc, kind, result,
    jobSock,            \* the worker's data socket
    cancelled,          \* TransferContext.cancel_event
    installed,          \* the upload is at its destination
    finals              \* final replies to the data command

sessionVars == <<transferActive, abortRequested, transferContext, mode, pasvSock>>
controlVars == <<cPc, command, refused>>
workerVars == <<started, wPc, kind, result, jobSock, cancelled, installed, finals>>
vars == <<sessionVars, controlVars, workerVars>>

\* Groups that most worker steps leave alone.
jobFacts == <<started, kind, installed, finals>>
dataPort == <<mode, pasvSock>>

ControlPcs == {"idle", "flag", "check", "cancel", "close", "closing", "reply",
               "closed", "crashed"}
Gone == {"closed", "crashed"}
Beginning == {"run", "ready", "setctx", "checkabort", "transfer"}
Running == Beginning \cup {"tail", "install", "clearctx", "clearsock"}
WorkerPcs == Running \cup {"none", "decide", "reply", "inactive", "unabort", "done"}

TypeOK ==
    /\ transferActive \in BOOLEAN /\ abortRequested \in BOOLEAN
    /\ transferContext \in Jobs \cup {NoJob}
    /\ mode \in {"none", "passive", "active"} /\ pasvSock \in {"none", "open"}
    /\ cPc \in ControlPcs /\ command \in {"ABOR", "QUIT"} /\ refused \in BOOLEAN
    /\ started \in 0 .. MaxJobs
    /\ wPc \in [Jobs -> WorkerPcs]
    /\ kind \in [Jobs -> {"upload", "download"}]
    /\ result \in [Jobs -> {"pending", "success", "failure", "raised"}]
    /\ jobSock \in [Jobs -> {"none", "open", "closed"}]
    /\ cancelled \in [Jobs -> BOOLEAN] /\ installed \in [Jobs -> BOOLEAN]
    /\ finals \in [Jobs -> SUBSET {"226", "426", "ABOR 426"}]

Init ==
    /\ transferActive = FALSE /\ abortRequested = FALSE
    /\ transferContext = NoJob /\ mode = "none" /\ pasvSock = "none"
    /\ cPc = "idle" /\ command = "ABOR" /\ refused = FALSE
    /\ started = 0
    /\ wPc = [j \in Jobs |-> "none"]
    /\ kind = [j \in Jobs |-> "upload"]
    /\ result = [j \in Jobs |-> "pending"]
    /\ jobSock = [j \in Jobs |-> "none"]
    /\ cancelled = [j \in Jobs |-> FALSE]
    /\ installed = [j \in Jobs |-> FALSE]
    /\ finals = [j \in Jobs |-> {}]

-------------------------------------------------------------------------------
(* The command loop.                                                       *)

NeverBusy == FALSE

\* The guard at the head of the loop; ABOR, NOOP and QUIT pass it.
Busy == transferActive

C_Refuse ==
    /\ cPc = "idle" /\ Busy
    /\ refused' = TRUE
    /\ UNCHANGED <<sessionVars, cPc, command, workerVars>>

\* udp_prepare_passive_listener; without a socket the old mode stays.
C_Passive ==
    /\ cPc = "idle" /\ ~Busy
    /\ \E bound \in BOOLEAN :
          /\ pasvSock' = IF bound THEN "open" ELSE "none"
          /\ mode' = IF bound THEN "passive" ELSE mode
    /\ refused' = FALSE
    /\ UNCHANGED <<transferActive, abortRequested, transferContext, cPc,
                   command, workerVars>>

C_Port ==
    /\ cPc = "idle" /\ ~Busy
    /\ pasvSock' = "none"
    /\ mode' = "active"
    /\ refused' = FALSE
    /\ UNCHANGED <<transferActive, abortRequested, transferContext, cPc,
                   command, workerVars>>

\* RETR, LIST and NLST; STOR, APPE and STOU.  The reply is 150.
C_Transfer ==
    /\ cPc = "idle" /\ ~Busy
    /\ mode # "none" /\ started < MaxJobs
    /\ started' = started + 1
    /\ \E k \in {"upload", "download"} : kind' = [kind EXCEPT ![started'] = k]
    /\ wPc' = [wPc EXCEPT ![started'] = "run"]
    /\ transferActive' = TRUE
    /\ abortRequested' = FALSE
    /\ refused' = FALSE
    /\ UNCHANGED <<transferContext, dataPort, cPc, command, result, jobSock,
                   cancelled, installed, finals>>

\* A command that touches none of these fields, NOOP even in a transfer; a
\* data command without a data port or a file is answered 425 or 550.
C_Other ==
    /\ cPc = "idle"
    /\ refused' = FALSE
    /\ UNCHANGED <<sessionVars, cPc, command, workerVars>>

\* ABOR and QUIT read transfer_active a second time.
C_Abort ==
    /\ cPc = "idle"
    /\ \E c \in {"ABOR", "QUIT"} :
          /\ command' = IF transferActive THEN c ELSE command
          /\ cPc' = IF transferActive THEN "flag"
                    ELSE IF c = "QUIT" THEN "closed" ELSE "idle"
    /\ refused' = FALSE
    /\ UNCHANGED <<sessionVars, workerVars>>

\* udp_abort_transfer, one access to the session at a time.
C_SetFlag ==
    /\ cPc = "flag"
    /\ cPc' = "check"
    /\ abortRequested' = TRUE
    /\ UNCHANGED <<transferActive, transferContext, dataPort, command, refused,
                   workerVars>>

C_CheckContext ==
    /\ cPc = "check"
    /\ cPc' = IF transferContext = NoJob THEN "close" ELSE "cancel"
    /\ UNCHANGED <<sessionVars, command, refused, workerVars>>

\* The context is read again: it may be gone, and None has no cancel().
C_Cancel ==
    /\ cPc = "cancel"
    /\ cPc' = IF transferContext = NoJob THEN "crashed" ELSE "reply"
    /\ cancelled' = [j \in Jobs |-> cancelled[j] \/ j = transferContext]
    /\ UNCHANGED <<sessionVars, command, refused, jobFacts, wPc, result, jobSock>>

\* close_data_socket, whose test and call are two reads as well.
C_CheckSocket ==
    /\ cPc = "close"
    /\ cPc' = IF pasvSock = "none" THEN "reply" ELSE "closing"
    /\ UNCHANGED <<sessionVars, command, refused, workerVars>>

C_CloseSocket ==
    /\ cPc = "closing"
    /\ cPc' = IF pasvSock = "none" THEN "crashed" ELSE "reply"
    /\ pasvSock' = "none"
    /\ jobSock' = [j \in Jobs |->
                      IF pasvSock = "open" /\ jobSock[j] = "open" THEN "closed"
                      ELSE jobSock[j]]
    /\ UNCHANGED <<transferActive, abortRequested, transferContext, mode,
                   command, refused, jobFacts, wPc, result, cancelled>>

ReplyIfStillActive == IF transferActive THEN {"ABOR 426"} ELSE {}

AbortReply == {"ABOR 426"}

\* 426 to ABOR is the answer to the last data command as well.
C_Reply ==
    /\ cPc = "reply"
    /\ IF command = "ABOR"
       THEN /\ cPc' = "idle"
            /\ finals' = [finals EXCEPT ![started] = @ \cup AbortReply]
       ELSE /\ cPc' = "closed"
            /\ UNCHANGED finals
    /\ UNCHANGED <<sessionVars, command, refused, started, wPc, kind, result,
                   jobSock, cancelled, installed>>

\* The control connection breaks; a running worker is left to itself.
C_Disconnect ==
    /\ cPc = "idle"
    /\ cPc' = "closed"
    /\ UNCHANGED <<sessionVars, command, refused, workerVars>>

Handler ==
    \/ C_SetFlag \/ C_CheckContext \/ C_Cancel \/ C_CheckSocket
    \/ C_CloseSocket \/ C_Reply

Control ==
    \/ C_Refuse \/ C_Passive \/ C_Port \/ C_Transfer \/ C_Other \/ C_Abort
    \/ Handler \/ C_Disconnect

-------------------------------------------------------------------------------
(* A worker.                                                               *)

Goto(j, pc) == wPc' = [wPc EXCEPT ![j] = pc]

JobFails(j) ==
    /\ result' = [result EXCEPT ![j] = "failure"]
    /\ Goto(j, "clearctx")

\* _server_socket_and_peer: the PASV socket, or a socket of the job's own.
W_Socket(j) ==
    /\ wPc[j] = "run"
    /\ mode = "active" \/ (mode = "passive" /\ pasvSock = "open")
    /\ jobSock' = [jobSock EXCEPT ![j] = "open"]
    /\ Goto(j, IF mode = "passive" /\ kind[j] = "download" THEN "ready" ELSE "setctx")
    /\ UNCHANGED <<sessionVars, controlVars, jobFacts, result, cancelled>>

\* The client's READY datagram arrives.
W_Ready(j) ==
    /\ wPc[j] = "ready" /\ jobSock[j] = "open"
    /\ Goto(j, "setctx")
    /\ UNCHANGED <<sessionVars, controlVars, jobFacts, result, jobSock, cancelled>>

\* No socket, or no READY within its timeout.
W_NoSocket(j) ==
    /\ wPc[j] \in {"run", "ready"}
    /\ JobFails(j)
    /\ UNCHANGED <<sessionVars, controlVars, jobFacts, jobSock, cancelled>>

W_SetContext(j) ==
    /\ wPc[j] = "setctx"
    /\ transferContext' = j
    /\ Goto(j, "checkabort")
    /\ UNCHANGED <<transferActive, abortRequested, dataPort, controlVars,
                   jobFacts, result, jobSock, cancelled>>

W_SkipCheckAbort(j) ==
    /\ wPc[j] = "checkabort"
    /\ Goto(j, "transfer")
    /\ UNCHANGED <<sessionVars, controlVars, jobFacts, result, jobSock, cancelled>>

W_CheckAbort(j) ==
    /\ wPc[j] = "checkabort"
    /\ cancelled' = [cancelled EXCEPT ![j] = @ \/ abortRequested]
    /\ Goto(j, "transfer")
    /\ UNCHANGED <<sessionVars, controlVars, jobFacts, result, jobSock>>

\* The sender's last _check_cancelled before FIN_ACK, the receiver's before FIN.
W_LastCheck(j) ==
    /\ wPc[j] = "transfer" /\ ~cancelled[j] /\ jobSock[j] = "open"
    /\ Goto(j, "tail")
    /\ UNCHANGED <<sessionVars, controlVars, jobFacts, result, jobSock, cancelled>>

\* Cancelled, timed out, mismatched, or an I/O error.
W_TransferFails(j) ==
    /\ wPc[j] \in {"transfer", "tail", "install"}
    /\ JobFails(j)
    /\ UNCHANGED <<sessionVars, controlVars, jobFacts, jobSock, cancelled>>

\* Removing the staged upload raises in turn: its directory is none.
W_CleanUpRaises(j) ==
    /\ wPc[j] \in {"run", "transfer", "tail", "install"} /\ kind[j] = "upload"
    /\ result' = [result EXCEPT ![j] = "raised"]
    /\ Goto(j, "clearctx")
    /\ UNCHANGED <<sessionVars, controlVars, jobFacts, jobSock, cancelled>>

\* udp_send_buffer cannot make its file; udp_send_file is not called.
W_BufferRaises(j) ==
    /\ wPc[j] = "run" /\ kind[j] = "download"
    /\ result' = [result EXCEPT ![j] = "raised"]
    /\ Goto(j, "inactive")
    /\ UNCHANGED <<sessionVars, controlVars, jobFacts, jobSock, cancelled>>

\* send_file or receive_file returns.
W_TransferReturns(j) ==
    /\ wPc[j] = "tail"
    /\ IF kind[j] = "upload"
       THEN Goto(j, "install") /\ UNCHANGED result
       ELSE Goto(j, "clearctx") /\ result' = [result EXCEPT ![j] = "success"]
    /\ UNCHANGED <<sessionVars, controlVars, jobFacts, jobSock, cancelled>>

W_Install(j) ==
    /\ wPc[j] = "install"
    /\ installed' = [installed EXCEPT ![j] = TRUE]
    /\ result' = [result EXCEPT ![j] = "success"]
    /\ Goto(j, "clearctx")
    /\ UNCHANGED <<sessionVars, controlVars, started, kind, finals, jobSock,
                   cancelled>>

\* The finally block of udp_send_file and udp_receive_file, in its order.
W_KeepContext(j) ==
    /\ wPc[j] = "clearctx"
    /\ Goto(j, "clearsock")
    /\ UNCHANGED <<sessionVars, controlVars, jobFacts, result, jobSock, cancelled>>

W_ClearContext(j) ==
    /\ wPc[j] = "clearctx"
    /\ transferContext' = NoJob
    /\ Goto(j, "clearsock")
    /\ UNCHANGED <<transferActive, abortRequested, dataPort, controlVars,
                   jobFacts, result, jobSock, cancelled>>

W_KeepSocket(j) ==
    /\ wPc[j] = "clearsock"
    /\ jobSock' = [jobSock EXCEPT ![j] = "closed"]
    /\ pasvSock' = IF pasvSock = "open" THEN "closed" ELSE pasvSock
    /\ mode' = "none"
    /\ Goto(j, IF result[j] = "raised" THEN "inactive" ELSE "decide")
    /\ UNCHANGED <<transferActive, abortRequested, transferContext,
                   controlVars, jobFacts, result, cancelled>>

W_ClearSocket(j) ==
    /\ wPc[j] = "clearsock"
    /\ jobSock' = [jobSock EXCEPT ![j] = "closed"]
    /\ pasvSock' = "none"
    /\ mode' = "none"
    /\ Goto(j, IF result[j] = "raised" THEN "inactive" ELSE "decide")
    /\ UNCHANGED <<transferActive, abortRequested, transferContext,
                   controlVars, jobFacts, result, cancelled>>

\* An aborted job leaves the reply to ABOR.
W_Decide(j) ==
    /\ wPc[j] = "decide"
    /\ Goto(j, IF abortRequested THEN "inactive" ELSE "reply")
    /\ UNCHANGED <<sessionVars, controlVars, jobFacts, result, jobSock, cancelled>>

\* A reply to a closed connection is logged and lost.
W_Reply(j) ==
    /\ wPc[j] = "reply"
    /\ finals' = IF cPc \in Gone THEN finals
                 ELSE [finals EXCEPT ![j] = @ \cup
                          {IF result[j] = "success" THEN "226" ELSE "426"}]
    /\ Goto(j, "inactive")
    /\ UNCHANGED <<sessionVars, controlVars, started, kind, result, jobSock,
                   cancelled, installed>>

W_StayActive(j) ==
    /\ wPc[j] = "inactive"
    /\ transferActive' = (result[j] = "failure")
    /\ Goto(j, "unabort")
    /\ UNCHANGED <<abortRequested, transferContext, dataPort, controlVars,
                   jobFacts, result, jobSock, cancelled>>

W_Inactive(j) ==
    /\ wPc[j] = "inactive"
    /\ transferActive' = FALSE
    /\ Goto(j, "unabort")
    /\ UNCHANGED <<abortRequested, transferContext, dataPort, controlVars,
                   jobFacts, result, jobSock, cancelled>>

W_Unabort(j) ==
    /\ wPc[j] = "unabort"
    /\ abortRequested' = FALSE
    /\ Goto(j, "done")
    /\ UNCHANGED <<transferActive, transferContext, dataPort, controlVars,
                   jobFacts, result, jobSock, cancelled>>

Worker(j) ==
    \/ W_Socket(j) \/ W_Ready(j) \/ W_NoSocket(j) \/ W_SetContext(j)
    \/ W_CheckAbort(j) \/ W_LastCheck(j) \/ W_TransferFails(j)
    \/ W_CleanUpRaises(j) \/ W_BufferRaises(j)
    \/ W_TransferReturns(j) \/ W_Install(j) \/ W_ClearContext(j)
    \/ W_ClearSocket(j) \/ W_Decide(j) \/ W_Reply(j) \/ W_Inactive(j)
    \/ W_Unabort(j)

AllDone == cPc \in Gone /\ \A j \in Jobs : wPc[j] \in {"none", "done"}

Done == AllDone /\ UNCHANGED vars

Next == Control \/ (\E j \in Jobs : Worker(j)) \/ Done

Spec == Init /\ [][Next]_vars

(* A started ABOR goes on, and so does every worker: each of its blocking  *)
(* calls has a timeout, and StopAndWait!Termination says that the transfer *)
(* itself ends.  Commands need never come.                                 *)
FairSpec ==
    /\ Spec
    /\ WF_vars(Handler)
    /\ \A j \in Jobs : WF_vars(Worker(j))

-------------------------------------------------------------------------------
(* Properties.                                                             *)

(* The guard and the late reset of transfer_active keep the jobs apart: at *)
(* most one is between the start of its thread and the end of its finally  *)
(* block, though the thread of an earlier one may still be going.          *)
OneJobAtATime ==
    \A i, j \in Jobs : wPc[i] \in Running /\ wPc[j] \in Running => i = j

(* What ABOR finds registered is the context of the job that is running:   *)
(* an old worker never clears or leaves behind one.                        *)
ContextOfRunningJob ==
    \A j \in Jobs : transferContext = j =>
        wPc[j] \in {"checkabort", "transfer", "tail", "install", "clearctx"}

(* Whichever of ABOR and the worker comes first at the flag and at the     *)
(* context, the job is stopped: if ABOR is about to answer 426 and the job *)
(* has not yet looked at its context for the last time, the upload is      *)
(* never installed.  This needs that no older worker is alive to reset the *)
(* flag, as is the case for the first job of a session.                    *)
EarlyAbortStops(j) ==
    [](cPc = "reply" /\ started = j /\ wPc[j] \in Beginning => []~installed[j])

FirstAbortStops == EarlyAbortStops(1)

(* The session never stays busy: 450 is for a while only.                  *)
NotBusyForever == transferActive ~> ~transferActive

(* Every data command that got its 150 gets a final reply while the        *)
(* session lasts, unless its job raised: the worker's own, or ABOR's 426.  *)
EveryTransferAnswered ==
    \A j \in Jobs :
        wPc[j] # "none" ~> finals[j] # {} \/ result[j] = "raised" \/ cPc \in Gone

-------------------------------------------------------------------------------
(* What documents and tests of the repository say, and the code does not   *)
(* keep.                                                                   *)

(* tests/test_ftp_integration.py:184 - after ABOR's 426 the upload's path  *)
(* does not exist.                                                         *)
AbortedUploadNotInstalled ==
    \A j \in Jobs : ~("ABOR 426" \in finals[j] /\ installed[j])

(* docs/integration-guide.md:227 - `ABOR` cancels the active context: when *)
(* it answers 426, a transfer that is under way has been stopped.          *)
AbortCancelsContext ==
    \A j \in Jobs : cPc = "reply" /\ wPc[j] = "transfer" =>
        cancelled[j] \/ jobSock[j] = "closed"

(* docs/excellent-demo-guide.md - ABOR during a transfer is answered with  *)
(* 426: its handler does not end the session.                              *)
AbortIsAnswered == cPc # "crashed"

(* docs/integration-guide.md:115 - a transfer that fails is answered 426:   *)
(* an upload that got its 150 gets a final reply.                          *)
FailedUploadIsReported ==
    \A j \in Jobs : wPc[j] # "none" /\ kind[j] = "upload" ~>
        finals[j] # {} \/ cPc \in Gone
===============================================================================
