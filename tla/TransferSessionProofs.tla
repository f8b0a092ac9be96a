------------------------ MODULE TransferSessionProofs ------------------------
(***************************************************************************)
(* Proofs about TransferSession, for any number of data commands: the jobs *)
(* of a session never overlap, the registered context is always that of    *)
(* the running job, and an early ABOR stops the first one.                 *)
(***************************************************************************)
EXTENDS TransferSession, TLAPS

USE MaxJobsAssumption DEF Jobs, NoJob

-------------------------------------------------------------------------------
LEMMA TypeInit == Init => TypeOK
<1> SUFFICES ASSUME Init PROVE TypeOK
  OBVIOUS
<1>1. /\ wPc \in [Jobs -> WorkerPcs]
      /\ kind \in [Jobs -> {"upload", "download"}]
      /\ result \in [Jobs -> {"pending", "success", "failure", "raised"}]
      /\ jobSock \in [Jobs -> {"none", "open", "closed"}]
  BY DEF Init, WorkerPcs
<1>2. /\ cancelled \in [Jobs -> BOOLEAN] /\ installed \in [Jobs -> BOOLEAN]
      /\ finals \in [Jobs -> SUBSET {"226", "426", "ABOR 426"}]
  BY DEF Init
<1>3. started \in 0 .. MaxJobs /\ cPc \in ControlPcs
  BY DEF Init, ControlPcs
<1> QED BY <1>1, <1>2, <1>3 DEF Init, TypeOK

LEMMA ControlType ==
    ASSUME TypeOK, Control
    PROVE  TypeOK'
<1> USE DEF TypeOK, ControlPcs, sessionVars, workerVars, jobFacts, dataPort
<1>1. CASE C_Refuse BY <1>1 DEF C_Refuse
<1>2. CASE C_Passive BY <1>2 DEF C_Passive
<1>3. CASE C_Port BY <1>3 DEF C_Port
<1>4. CASE C_Transfer
  <2>0. started \in 0 .. MaxJobs /\ started < MaxJobs /\ started' = started + 1
    BY <1>4 DEF C_Transfer
  <2>1. started' \in Jobs /\ started' \in 0 .. MaxJobs
    BY ONLY <2>0, MaxJobsAssumption DEF Jobs
  <2>2. wPc' \in [Jobs -> WorkerPcs]
    BY <1>4, <2>1 DEF C_Transfer, WorkerPcs, Running, Beginning
  <2>3. kind' \in [Jobs -> {"upload", "download"}]
    BY <1>4, <2>1 DEF C_Transfer
  <2> QED BY <1>4, <2>1, <2>2, <2>3 DEF C_Transfer
<1>5. CASE C_Abort BY <1>5 DEF C_Abort
<1>6. CASE C_SetFlag BY <1>6 DEF C_SetFlag
<1>7. CASE C_CheckContext BY <1>7 DEF C_CheckContext
<1>8. CASE C_Cancel BY <1>8 DEF C_Cancel
<1>9. CASE C_CheckSocket BY <1>9 DEF C_CheckSocket
<1>10. CASE C_CloseSocket BY <1>10 DEF C_CloseSocket
<1>11. CASE C_Reply
  <2>1. \A j \in Jobs :
            finals[j] \cup AbortReply \in SUBSET {"226", "426", "ABOR 426"}
    BY DEF AbortReply
  <2>2. finals' \in [Jobs -> SUBSET {"226", "426", "ABOR 426"}]
    <3>1. finals \in [Jobs -> SUBSET {"226", "426", "ABOR 426"}]
      OBVIOUS
    <3>2. CASE finals' = [finals EXCEPT ![started] = @ \cup AbortReply]
      BY ONLY <3>1, <3>2, <2>1
    <3>3. CASE finals' = finals
      BY <3>1, <3>3
    <3> QED BY <1>11, <3>2, <3>3 DEF C_Reply
  <2> QED BY <1>11, <2>2 DEF C_Reply
<1>12. CASE C_Disconnect BY <1>12 DEF C_Disconnect
<1>13. CASE C_Other BY <1>13 DEF C_Other
<1> QED
  BY <1>1, <1>2, <1>3, <1>4, <1>5, <1>6, <1>7, <1>8, <1>9, <1>10, <1>11,
     <1>12, <1>13 DEF Control, Handler

LEMMA WorkerType ==
    ASSUME TypeOK, NEW j \in Jobs, Worker(j)
    PROVE  TypeOK'
<1> USE DEF TypeOK, WorkerPcs, Running, Beginning, Goto, JobFails,
            sessionVars, controlVars, jobFacts, dataPort
<1>1. CASE W_Socket(j) BY <1>1 DEF W_Socket
<1>2. CASE W_Ready(j) BY <1>2 DEF W_Ready
<1>3. CASE W_NoSocket(j) BY <1>3 DEF W_NoSocket
<1>4. CASE W_SetContext(j) BY <1>4 DEF W_SetContext
<1>5. CASE W_CheckAbort(j) BY <1>5 DEF W_CheckAbort
<1>6. CASE W_LastCheck(j) BY <1>6 DEF W_LastCheck
<1>7. CASE W_TransferFails(j) BY <1>7 DEF W_TransferFails
<1>8. CASE W_TransferReturns(j) BY <1>8 DEF W_TransferReturns
<1>9. CASE W_Install(j) BY <1>9 DEF W_Install
<1>10. CASE W_ClearContext(j) BY <1>10 DEF W_ClearContext
<1>11. CASE W_ClearSocket(j) BY <1>11 DEF W_ClearSocket
<1>12. CASE W_Decide(j) BY <1>12 DEF W_Decide
<1>13. CASE W_Reply(j) BY <1>13 DEF W_Reply
<1>14. CASE W_Inactive(j) BY <1>14 DEF W_Inactive
<1>15. CASE W_Unabort(j) BY <1>15 DEF W_Unabort
<1>16. CASE W_CleanUpRaises(j) BY <1>16 DEF W_CleanUpRaises
<1>17. CASE W_BufferRaises(j) BY <1>17 DEF W_BufferRaises
<1> QED
  BY <1>1, <1>2, <1>3, <1>4, <1>5, <1>6, <1>7, <1>8, <1>9, <1>10, <1>11,
     <1>12, <1>13, <1>14, <1>15, <1>16, <1>17 DEF Worker

LEMMA TypeNext == TypeOK /\ [Next]_vars => TypeOK'
<1> SUFFICES ASSUME TypeOK, [Next]_vars PROVE TypeOK'
  OBVIOUS
<1>1. CASE Control BY <1>1, ControlType
<1>2. CASE \E j \in Jobs : Worker(j) BY <1>2, WorkerType
<1>3. CASE UNCHANGED vars
  BY <1>3 DEF vars, sessionVars, controlVars, workerVars, TypeOK
<1> QED BY <1>1, <1>2, <1>3 DEF Next, Done

(* Every field of the session and of the workers keeps its type; above all *)
(* the session never holds on to a socket that was closed.                 *)
THEOREM Typing == Spec => []TypeOK
  BY TypeInit, TypeNext, PTL DEF Spec

-------------------------------------------------------------------------------
(* The inductive invariant.  transfer_active is true from the acceptance   *)
(* of a data command until its worker resets it, and while it is true no   *)
(* other data command is accepted; so a worker that has not reset it is    *)
(* the one started last.                                                   *)

Unreset == Running \cup {"decide", "reply", "inactive"}
Registered == {"checkabort", "transfer", "tail", "install", "clearctx"}

ActiveIsLast ==
    \A j \in Jobs : wPc[j] \in Unreset => j = started /\ transferActive

ContextOK ==
    transferContext # NoJob => wPc[transferContext] \in Registered

Inv == ActiveIsLast /\ ContextOK

LEMMA InvInit == Init => Inv
  BY DEF Init, Inv, ActiveIsLast, ContextOK, Unreset, Running, Beginning

LEMMA ControlInv ==
    ASSUME TypeOK, Inv, Control
    PROVE  Inv'
<1>1. CASE C_Transfer
  <2> USE <1>1 DEF C_Transfer, Busy, TypeOK
  <2>1. \A j \in Jobs : wPc[j] \notin Unreset
    BY DEF Inv, ActiveIsLast
  <2>2. ActiveIsLast'
    BY <2>1 DEF ActiveIsLast
  <2>3. transferContext = NoJob
    BY <2>1 DEF Inv, ContextOK, Registered, Unreset, Running, Beginning
  <2> QED BY <2>2, <2>3 DEF Inv, ContextOK
<1>2. CASE ~C_Transfer
  <2>1. UNCHANGED <<wPc, started, transferActive, transferContext>>
    BY <1>2
    DEF Control, Handler, C_Refuse, C_Passive, C_Port, C_Other, C_Abort, C_SetFlag,
        C_CheckContext, C_Cancel, C_CheckSocket, C_CloseSocket, C_Reply,
        C_Disconnect, sessionVars, workerVars, jobFacts, dataPort
  <2> QED BY <2>1 DEF Inv, ActiveIsLast, ContextOK
<1> QED BY <1>1, <1>2

\* A step of a worker on its way to the next place.
LEMMA WorkerMoves ==
    ASSUME TypeOK, Inv, NEW j \in Jobs, NEW pc \in WorkerPcs, Goto(j, pc),
           UNCHANGED <<started, transferActive, transferContext>>,
           pc \in Unreset => wPc[j] \in Unreset,
           wPc[j] \in Registered => pc \in Registered
    PROVE  Inv'
<1> USE DEF TypeOK, Goto
<1>1. ActiveIsLast'
  BY DEF Inv, ActiveIsLast
<1>2. ContextOK'
  BY DEF Inv, ContextOK
<1> QED BY <1>1, <1>2 DEF Inv

LEMMA WorkerInv ==
    ASSUME TypeOK, Inv, NEW j \in Jobs, Worker(j)
    PROVE  Inv'
<1> USE DEF WorkerPcs, Unreset, Registered, Running, Beginning, JobFails,
            sessionVars, jobFacts, dataPort
<1>1. CASE W_Socket(j) BY <1>1, WorkerMoves DEF W_Socket
<1>2. CASE W_Ready(j) BY <1>2, WorkerMoves DEF W_Ready
<1>3. CASE W_NoSocket(j) BY <1>3, WorkerMoves DEF W_NoSocket
<1>4. CASE W_SetContext(j)
  <2> USE <1>4 DEF W_SetContext, Goto, TypeOK
  <2>1. ActiveIsLast'
    BY DEF Inv, ActiveIsLast
  <2>2. ContextOK'
    BY DEF ContextOK
  <2> QED BY <2>1, <2>2 DEF Inv
<1>5. CASE W_CheckAbort(j) BY <1>5, WorkerMoves DEF W_CheckAbort
<1>6. CASE W_LastCheck(j) BY <1>6, WorkerMoves DEF W_LastCheck
<1>7. CASE W_TransferFails(j) BY <1>7, WorkerMoves DEF W_TransferFails
<1>8. CASE W_TransferReturns(j)
  BY <1>8, WorkerMoves DEF W_TransferReturns
<1>9. CASE W_Install(j) BY <1>9, WorkerMoves DEF W_Install
<1>10. CASE W_ClearContext(j)
  <2> USE <1>10 DEF W_ClearContext, Goto, TypeOK
  <2>1. ActiveIsLast'
    BY DEF Inv, ActiveIsLast
  <2>2. ContextOK'
    BY DEF ContextOK
  <2> QED BY <2>1, <2>2 DEF Inv
<1>11. CASE W_ClearSocket(j) BY <1>11, WorkerMoves DEF W_ClearSocket
<1>12. CASE W_Decide(j) BY <1>12, WorkerMoves DEF W_Decide
<1>13. CASE W_Reply(j) BY <1>13, WorkerMoves DEF W_Reply
<1>14. CASE W_Inactive(j)
  <2> USE <1>14 DEF W_Inactive, Goto, TypeOK
  <2>1. \A i \in Jobs : wPc[i] \in Unreset => i = j
    BY DEF Inv, ActiveIsLast
  <2>2. ActiveIsLast'
    BY <2>1 DEF ActiveIsLast
  <2>3. ContextOK'
    BY DEF Inv, ContextOK
  <2> QED BY <2>2, <2>3 DEF Inv
<1>15. CASE W_Unabort(j) BY <1>15, WorkerMoves DEF W_Unabort
<1>16. CASE W_CleanUpRaises(j) BY <1>16, WorkerMoves DEF W_CleanUpRaises
<1>17. CASE W_BufferRaises(j) BY <1>17, WorkerMoves DEF W_BufferRaises
<1> QED
  BY <1>1, <1>2, <1>3, <1>4, <1>5, <1>6, <1>7, <1>8, <1>9, <1>10, <1>11,
     <1>12, <1>13, <1>14, <1>15, <1>16, <1>17 DEF Worker

THEOREM Invariance == Spec => [](TypeOK /\ Inv)
<1>1. TypeOK /\ Inv /\ [Next]_vars => Inv'
  <2> SUFFICES ASSUME TypeOK, Inv, [Next]_vars PROVE Inv'
    OBVIOUS
  <2>1. CASE Control BY <2>1, ControlInv
  <2>2. CASE \E j \in Jobs : Worker(j) BY <2>2, WorkerInv
  <2>3. CASE UNCHANGED vars
    BY <2>3
    DEF vars, sessionVars, workerVars, Inv, ActiveIsLast, ContextOK
  <2> QED BY <2>1, <2>2, <2>3 DEF Next, Done
<1> QED BY TypeInit, InvInit, TypeNext, <1>1, PTL DEF Spec

(* Two jobs of a session are never in their critical part together,        *)
(* however many data commands it accepts.                                  *)
THEOREM MutualExclusion == Spec => []OneJobAtATime
<1>1. Inv => OneJobAtATime
  BY DEF Inv, ActiveIsLast, OneJobAtATime, Unreset
<1> QED BY Invariance, <1>1, PTL

(* The context ABOR may cancel belongs to the running job, never to one    *)
(* that has ended.                                                         *)
THEOREM ContextIsCurrent == Spec => []ContextOfRunningJob
<1>1. Inv => ContextOfRunningJob
  BY DEF Inv, ContextOK, ContextOfRunningJob, Registered
<1> QED BY Invariance, <1>1, PTL

-------------------------------------------------------------------------------
(* The first job and its abort.  udp_abort_transfer raises the flag before *)
(* it looks for a context, the worker registers the context before it      *)
(* looks at the flag: so either ABOR finds the context, or the worker will *)
(* find the flag, which nobody but this worker takes down.                 *)

BeforeCheck == {"run", "ready", "setctx", "checkabort"}
Flagged == cPc \in {"check", "cancel", "close", "closing", "reply"}
Looked == cPc \in {"close", "closing", "reply"}

NotYet == \A j \in Jobs : j > started => wPc[j] = "none" /\ ~installed[j]

FirstAborted ==
    started = 1 =>
        /\ wPc[1] \in {"checkabort", "transfer"} => transferContext = 1
        /\ Flagged /\ wPc[1] \in Beginning => abortRequested
        /\ Looked /\ wPc[1] = "transfer" => cancelled[1]
        /\ wPc[1] \in Beginning \cup {"tail", "install"} => ~installed[1]

AbortInv == NotYet /\ FirstAborted

LEMMA AbortInit == Init => AbortInv
  BY DEF Init, AbortInv, NotYet, FirstAborted

LEMMA AbortControl ==
    ASSUME TypeOK, Inv, AbortInv, Control
    PROVE  AbortInv'
<1> 1 \in Jobs
  OBVIOUS
<1> USE DEF AbortInv, NotYet, FirstAborted, Flagged, Looked
<1>1. CASE C_Transfer
  <2>1. /\ started \in 0 .. MaxJobs /\ started < MaxJobs /\ started' = started + 1
        /\ wPc' = [wPc EXCEPT ![started'] = "run"] /\ wPc \in [Jobs -> WorkerPcs]
        /\ installed' = installed /\ cPc = "idle" /\ cPc' = cPc
    BY <1>1 DEF C_Transfer, TypeOK
  <2>2. NotYet'
    BY <2>1
  <2>3. started' = 1 => wPc'[1] = "run" /\ ~installed'[1]
    BY <2>1
  <2>4. FirstAborted'
    BY <2>1, <2>3
  <2> QED BY <2>2, <2>4
<1>2. CASE C_SetFlag
  BY <1>2 DEF C_SetFlag, workerVars
<1>3. CASE C_CheckContext
  BY <1>3 DEF C_CheckContext, workerVars, sessionVars
<1>4. CASE C_Cancel
  <2>1. /\ UNCHANGED <<started, wPc, installed, abortRequested, transferContext>>
        /\ cPc' = IF transferContext = NoJob THEN "crashed" ELSE "reply"
        /\ cancelled'[1] = (cancelled[1] \/ 1 = transferContext)
        /\ cPc = "cancel"
    BY <1>4 DEF C_Cancel, sessionVars, jobFacts
  <2> QED BY <2>1
<1>5. CASE C_CheckSocket \/ C_CloseSocket \/ C_Reply
  BY <1>5 DEF C_CheckSocket, C_CloseSocket, C_Reply, sessionVars, workerVars, jobFacts
<1>6. CASE C_Refuse \/ C_Passive \/ C_Port \/ C_Other \/ C_Abort \/ C_Disconnect
  BY <1>6
  DEF C_Refuse, C_Passive, C_Port, C_Other, C_Abort, C_Disconnect, sessionVars,
      workerVars
<1> QED
  BY <1>1, <1>2, <1>3, <1>4, <1>5, <1>6 DEF Control, Handler

\* A worker's step that leaves alone what ABOR looks at.
LEMMA WorkerGoesOn ==
    ASSUME TypeOK, AbortInv, NEW j \in Jobs, NEW pc \in WorkerPcs, Goto(j, pc),
           UNCHANGED <<started, cPc, transferContext, abortRequested, cancelled,
                       installed>>,
           wPc[j] # "none",
           pc \in {"checkabort", "transfer"} => wPc[j] = pc,
           pc \in Beginning \cup {"tail", "install"} =>
               wPc[j] \in Beginning \cup {"tail", "install"},
           pc \in Beginning => wPc[j] \in Beginning
    PROVE  AbortInv'
<1>0. 1 \in Jobs
  OBVIOUS
<1>1. /\ wPc \in [Jobs -> WorkerPcs] /\ started \in 0 .. MaxJobs
      /\ wPc' = [wPc EXCEPT ![j] = pc]
  BY DEF Goto, TypeOK
<1>2. j <= started
  BY <1>1 DEF AbortInv, NotYet
<1>3. NotYet'
  BY <1>1, <1>2 DEF AbortInv, NotYet
<1>4. started = 1 => j = 1 /\ wPc'[1] = pc
  BY <1>0, <1>1, <1>2
<1>5. FirstAborted'
  BY <1>4 DEF AbortInv, FirstAborted, Flagged, Looked
<1> QED BY <1>3, <1>5 DEF AbortInv

LEMMA AbortWorker ==
    ASSUME TypeOK, AbortInv, NEW j \in Jobs, Worker(j)
    PROVE  AbortInv'
<1> USE DEF WorkerPcs, Running, Beginning, JobFails, sessionVars, controlVars,
            jobFacts, dataPort
<1>1. CASE W_Socket(j) BY <1>1, WorkerGoesOn DEF W_Socket
<1>2. CASE W_Ready(j) BY <1>2, WorkerGoesOn DEF W_Ready
<1>3. CASE W_NoSocket(j) BY <1>3, WorkerGoesOn DEF W_NoSocket
<1>4. CASE W_SetContext(j)
  <2> USE DEF AbortInv, NotYet, FirstAborted, Flagged, Looked
  <2>1. /\ wPc[j] = "setctx" /\ wPc' = [wPc EXCEPT ![j] = "checkabort"]
        /\ wPc \in [Jobs -> WorkerPcs] /\ transferContext' = j
        /\ UNCHANGED <<started, cPc, abortRequested, cancelled, installed>>
        /\ started \in 0 .. MaxJobs
    BY <1>4 DEF W_SetContext, Goto, TypeOK
  <2>2. j <= started
    BY <2>1
  <2>3. NotYet'
    BY <2>1, <2>2
  <2>4. FirstAborted'
    BY <2>1, <2>2
  <2> QED BY <2>3, <2>4
<1>5. CASE W_CheckAbort(j)
  <2> USE DEF AbortInv, NotYet, FirstAborted, Flagged, Looked
  <2>1. /\ wPc[j] = "checkabort" /\ wPc' = [wPc EXCEPT ![j] = "transfer"]
        /\ wPc \in [Jobs -> WorkerPcs] /\ cancelled \in [Jobs -> BOOLEAN]
        /\ cancelled' = [cancelled EXCEPT ![j] = @ \/ abortRequested]
        /\ UNCHANGED <<started, cPc, abortRequested, transferContext, installed>>
        /\ started \in 0 .. MaxJobs
    BY <1>5 DEF W_CheckAbort, Goto, TypeOK
  <2>2. j <= started
    BY <2>1
  <2>3. NotYet'
    BY <2>1, <2>2
  <2>4. started = 1 =>
            j = 1 /\ wPc'[1] = "transfer" /\ cancelled'[1] = (cancelled[1] \/ abortRequested)
    BY <2>1, <2>2
  <2>5. FirstAborted'
    BY <2>1, <2>4
  <2> QED BY <2>3, <2>5
<1>6. CASE W_LastCheck(j) BY <1>6, WorkerGoesOn DEF W_LastCheck
<1>7. CASE W_TransferFails(j) BY <1>7, WorkerGoesOn DEF W_TransferFails
<1>8. CASE W_TransferReturns(j) BY <1>8, WorkerGoesOn DEF W_TransferReturns
<1>9. CASE W_Install(j)
  <2> USE DEF AbortInv, NotYet, FirstAborted, Flagged, Looked
  <2>1. /\ wPc[j] = "install" /\ wPc' = [wPc EXCEPT ![j] = "clearctx"]
        /\ wPc \in [Jobs -> WorkerPcs] /\ installed \in [Jobs -> BOOLEAN]
        /\ installed' = [installed EXCEPT ![j] = TRUE]
        /\ UNCHANGED <<started, cPc, abortRequested, transferContext, cancelled>>
        /\ started \in 0 .. MaxJobs
    BY <1>9 DEF W_Install, Goto, TypeOK
  <2>2. j <= started
    BY <2>1
  <2>3. NotYet'
    BY <2>1, <2>2
  <2>4. FirstAborted'
    BY <2>1, <2>2
  <2> QED BY <2>3, <2>4
<1>10. CASE W_ClearContext(j)
  <2> USE DEF AbortInv, NotYet, FirstAborted, Flagged, Looked
  <2>1. /\ wPc[j] = "clearctx" /\ wPc' = [wPc EXCEPT ![j] = "clearsock"]
        /\ wPc \in [Jobs -> WorkerPcs]
        /\ UNCHANGED <<started, cPc, abortRequested, cancelled, installed>>
        /\ started \in 0 .. MaxJobs
    BY <1>10 DEF W_ClearContext, Goto, TypeOK
  <2>2. j <= started
    BY <2>1
  <2>3. NotYet'
    BY <2>1, <2>2
  <2>4. FirstAborted'
    BY <2>1, <2>2
  <2> QED BY <2>3, <2>4
<1>11. CASE W_ClearSocket(j) BY <1>11, WorkerGoesOn DEF W_ClearSocket
<1>12. CASE W_Decide(j) BY <1>12, WorkerGoesOn DEF W_Decide
<1>13. CASE W_Reply(j) BY <1>13, WorkerGoesOn DEF W_Reply
<1>14. CASE W_Inactive(j) BY <1>14, WorkerGoesOn DEF W_Inactive
<1>15. CASE W_Unabort(j)
  <2> USE DEF AbortInv, NotYet, FirstAborted, Flagged, Looked
  <2>1. /\ wPc[j] = "unabort" /\ wPc' = [wPc EXCEPT ![j] = "done"]
        /\ wPc \in [Jobs -> WorkerPcs]
        /\ UNCHANGED <<started, cPc, transferContext, cancelled, installed>>
        /\ started \in 0 .. MaxJobs
    BY <1>15 DEF W_Unabort, Goto, TypeOK
  <2>2. j <= started
    BY <2>1
  <2>3. NotYet'
    BY <2>1, <2>2
  <2>4. FirstAborted'
    BY <2>1, <2>2
  <2> QED BY <2>3, <2>4
<1>16. CASE W_CleanUpRaises(j) BY <1>16, WorkerGoesOn DEF W_CleanUpRaises
<1>17. CASE W_BufferRaises(j) BY <1>17, WorkerGoesOn DEF W_BufferRaises
<1> QED
  BY <1>1, <1>2, <1>3, <1>4, <1>5, <1>6, <1>7, <1>8, <1>9, <1>10, <1>11,
     <1>12, <1>13, <1>14, <1>15, <1>16, <1>17 DEF Worker

THEOREM AbortInvariance == Spec => []AbortInv
<1>1. TypeOK /\ Inv /\ AbortInv /\ [Next]_vars => AbortInv'
  <2> SUFFICES ASSUME TypeOK, Inv, AbortInv, [Next]_vars PROVE AbortInv'
    OBVIOUS
  <2>1. CASE Control BY <2>1, AbortControl
  <2>2. CASE \E j \in Jobs : Worker(j) BY <2>2, AbortWorker
  <2>3. CASE UNCHANGED vars
    BY <2>3
    DEF vars, sessionVars, controlVars, workerVars, AbortInv, NotYet,
        FirstAborted, Flagged, Looked
  <2> QED BY <2>1, <2>2, <2>3 DEF Next, Done
<1> QED BY Invariance, AbortInit, <1>1, PTL DEF Spec

\* What holds of the first job once it is bound to stop.
Stopped ==
    /\ ~installed[1]
    /\ wPc[1] \notin {"none", "tail", "install"}
    /\ wPc[1] \in BeforeCheck => abortRequested /\ started = 1
    /\ wPc[1] = "transfer" => cancelled[1]

LEMMA ControlLeavesStopped ==
    ASSUME TypeOK, Inv, AbortInv, Stopped, Control
    PROVE  Stopped'
<1>0. 1 \in Jobs
  OBVIOUS
<1>1. CASE C_Transfer
  <2>1. wPc[1] \notin BeforeCheck
    BY <1>0, <1>1 DEF C_Transfer, Busy, Inv, ActiveIsLast, Unreset, Running,
                      Beginning, BeforeCheck
  <2>2. /\ started \in 0 .. MaxJobs /\ started' = started + 1
        /\ wPc' = [wPc EXCEPT ![started'] = "run"] /\ wPc \in [Jobs -> WorkerPcs]
        /\ UNCHANGED <<installed, cancelled>>
    BY <1>1 DEF C_Transfer, TypeOK
  <2>3. started # 0
    BY <1>0, <2>2 DEF Stopped, AbortInv, NotYet
  <2> QED BY <2>1, <2>2, <2>3 DEF Stopped
<1>2. CASE ~C_Transfer
  <2>1. /\ UNCHANGED <<started, wPc, installed>>
        /\ abortRequested => abortRequested'
        /\ cancelled[1] => cancelled'[1]
    BY <1>0, <1>2
    DEF Control, Handler, C_Refuse, C_Passive, C_Port, C_Other, C_Abort, C_SetFlag,
        C_CheckContext, C_Cancel, C_CheckSocket, C_CloseSocket, C_Reply,
        C_Disconnect, sessionVars, workerVars, jobFacts, TypeOK
  <2> QED BY <2>1 DEF Stopped
<1> QED BY <1>1, <1>2

LEMMA WorkerLeavesStopped ==
    ASSUME TypeOK, AbortInv, Stopped, NEW j \in Jobs, Worker(j)
    PROVE  Stopped'
<1>0. 1 \in Jobs
  OBVIOUS
<1>1. CASE j = 1
  <2> USE <1>0, <1>1 DEF TypeOK, Stopped, BeforeCheck, Goto, JobFails, sessionVars, jobFacts
  <2>1. CASE W_Socket(1) BY <2>1 DEF W_Socket
  <2>2. CASE W_Ready(1) BY <2>2 DEF W_Ready
  <2>3. CASE W_NoSocket(1) BY <2>3 DEF W_NoSocket
  <2>4. CASE W_SetContext(1) BY <2>4 DEF W_SetContext
  <2>5. CASE W_CheckAbort(1) BY <2>5 DEF W_CheckAbort
  <2>6. CASE W_LastCheck(1) BY <2>6 DEF W_LastCheck
  <2>7. CASE W_TransferFails(1) BY <2>7 DEF W_TransferFails
  <2>8. CASE W_TransferReturns(1) \/ W_Install(1)
    BY <2>8 DEF W_TransferReturns, W_Install
  <2>9. CASE W_ClearContext(1) BY <2>9 DEF W_ClearContext
  <2>10. CASE W_ClearSocket(1) BY <2>10 DEF W_ClearSocket
  <2>11. CASE W_Decide(1) BY <2>11 DEF W_Decide
  <2>12. CASE W_Reply(1) BY <2>12 DEF W_Reply
  <2>13. CASE W_Inactive(1) BY <2>13 DEF W_Inactive
  <2>14. CASE W_Unabort(1) BY <2>14 DEF W_Unabort
  <2>15. CASE W_CleanUpRaises(1) BY <2>15 DEF W_CleanUpRaises
  <2>16. CASE W_BufferRaises(1) BY <2>16 DEF W_BufferRaises
  <2> QED
    BY <1>1, <2>1, <2>2, <2>3, <2>4, <2>5, <2>6, <2>7, <2>8, <2>9, <2>10,
       <2>11, <2>12, <2>13, <2>14, <2>15, <2>16 DEF Worker
<1>2. CASE j # 1
  <2>1. /\ wPc'[1] = wPc[1] /\ installed'[1] = installed[1]
        /\ cancelled'[1] = cancelled[1] /\ started' = started
    BY <1>0, <1>2
    DEF Worker, TypeOK, Goto, JobFails, sessionVars, jobFacts, W_Socket, W_Ready,
        W_NoSocket, W_SetContext, W_CheckAbort, W_LastCheck, W_TransferFails,
        W_TransferReturns, W_Install, W_ClearContext, W_ClearSocket, W_Decide,
        W_Reply, W_Inactive, W_Unabort, W_CleanUpRaises, W_BufferRaises
  <2>2. wPc[j] # "none"
    BY DEF Worker, W_Socket, W_Ready, W_NoSocket, W_SetContext, W_CheckAbort,
           W_LastCheck, W_TransferFails, W_TransferReturns, W_Install,
           W_ClearContext, W_ClearSocket, W_Decide, W_Reply, W_Inactive,
           W_Unabort, W_CleanUpRaises, W_BufferRaises
  <2>3. started # 1
    BY <1>2, <2>2 DEF AbortInv, NotYet
  <2> QED BY <2>1, <2>3 DEF Stopped
<1> QED BY <1>1, <1>2

(* A 426 that ABOR is about to send for the first job of a session, while  *)
(* the job has not yet looked at its context for the last time, is true:   *)
(* the upload is never installed, whatever commands follow.                *)
THEOREM FirstAbortIsFinal == Spec => FirstAbortStops
<1> DEFINE early == cPc = "reply" /\ started = 1 /\ wPc[1] \in Beginning
           out == ~installed[1]
<1>0. 1 \in Jobs
  OBVIOUS
<1>1. AbortInv /\ early => Stopped
  BY DEF AbortInv, FirstAborted, Flagged, Looked, Stopped, Beginning, BeforeCheck
<1>2. TypeOK /\ Inv /\ AbortInv /\ Stopped /\ [Next]_vars => Stopped'
  <2> SUFFICES ASSUME TypeOK, Inv, AbortInv, Stopped, [Next]_vars PROVE Stopped'
    OBVIOUS
  <2>1. CASE Control BY <2>1, ControlLeavesStopped
  <2>2. CASE \E j \in Jobs : Worker(j) BY <2>2, WorkerLeavesStopped
  <2>3. CASE UNCHANGED vars
    BY <2>3 DEF vars, sessionVars, controlVars, workerVars, Stopped
  <2> QED BY <2>1, <2>2, <2>3 DEF Next, Done
<1>3. Stopped => out
  BY DEF Stopped
<1>4. FirstAbortStops <=> [](early => []out)
  BY DEF FirstAbortStops, EarlyAbortStops
<1> HIDE DEF early, out
<1> QED BY Invariance, AbortInvariance, <1>1, <1>2, <1>3, <1>4, PTL DEF Spec
===============================================================================
