------------------------------- MODULE FtpClient -------------------------------
(***************************************************************************)
(* The client: the command line (run_cli), the thread that it starts for   *)
(* a data command (_run_transfer) and the module globals of the data       *)
(* transfer that both use.  Thread and command line read replies from one  *)
(* connection; nothing in a reply says which command it answers, so the    *)
(* numbers that commands and replies carry here are only for the           *)
(* properties to look at.                                                  *)
(*                                                                         *)
(* The server is FtpSystem's.  What a step means for the data port is said *)
(* there: T_Open, T_Receives and the ends of file are left to it.           *)
(*                                                                         *)
(* RETR stands for LIST and NLST as well, STOR for APPE and STOU.          *)
(*                                                                         *)
(* U_PortUnbound, T_ReadsCode, T_WaitsAnyway, T_SkipCheckFlag, T_EndsEarly *)
(* and T_SkipsFinal are faults the code does not have; each replaces the   *)
(* definition after it to see that a property notices.                     *)
(***************************************************************************)
EXTENDS Integers, Sequences

CONSTANTS
    MaxSent,        \* commands sent on the control connection
    MaxAborts,      \* of these, ABORs sent during a transfer
    MaxBeforeInterrupt, \* commands sent before the user interrupts
    UserLines       \* what the user enters

VARIABLES
    \* the control connection
    toServer, toClient,
    sent,           \* the number of the last command
    \* the command line
    cliPc, line, cliNumber,
    \* the transfer thread
    threadSet,      \* self.transfer_thread is not None
    tPc, tCommand, tNumber,
    tTransfer,      \* the transfer that the TID of its 150 belongs to
    \* attributes and globals
    connected,
    dataMode,
    socket,         \* number of the PASV or PORT that it is bound for, or
                    \* NoSocket, or Unbound
    context,        \* is a _client_context registered?
    cancelled,      \* its cancel event
    abortRequested, \* _client_abort_requested
    \* history
    aborts,         \* ABORs sent during a transfer
    abandoned,      \* transfers whose thread ended before their final reply
    portRefused,    \* the server has refused a PORT
    misread,        \* somebody has read another command's reply
    wrongFile       \* another transfer's file was saved

NoSocket == 0
Unbound == -1

channel == <<toServer, toClient, sent>>
cliVars == <<cliPc, line, cliNumber>>
threadVars == <<threadSet, tPc, tCommand, tNumber, tTransfer>>
dataVars == <<dataMode, socket>>
abortVars == <<context, cancelled, abortRequested>>
history == <<aborts, abandoned, portRefused, misread, wrongFile>>
vars == <<channel, cliVars, threadVars, connected, dataVars, abortVars, history>>

Numbers == 0 .. MaxSent + 4
Sockets == Numbers \cup {Unbound}
DataCommands == {"RETR", "STOR"}
Lines == {"PASV", "PORT", "OTHER", "ABOR", "QUIT", "interrupt"} \cup DataCommands
\* The second is a 150 with nothing after SHA256=, which does not parse.
Preliminary == {"150", "unhashed150"}
Codes == Preliminary
         \cup {"200", "221", "225", "226", "227", "425", "426", "450", "550"}

ASSUME BoundsAssumption ==
    /\ MaxSent \in Nat /\ MaxAborts \in Nat /\ MaxBeforeInterrupt \in Nat
    /\ UserLines \subseteq Lines

Messages == [command : Lines, number : Numbers]
\* The command answered, and the data command that it is about.
Replies == [to : Numbers, code : Codes, about : Numbers]

CliPcs == {"prompt", "alive", "dispatch", "wait", "flag", "check", "cancel",
           "join", "joining", "gone", "crashed"}
Exited == {"gone", "crashed"}

Reading == {"wait227", "wait150", "waitfinal"}
Transferring == {"open", "setctx", "checkflag", "run", "save", "close",
                 "clearflag"}
ThreadPcs == {"none", "start", "prepare", "end"} \cup Reading \cup Transferring

TypeOK ==
    /\ toServer \in Seq(Messages) /\ toClient \in Seq(Replies)
    /\ sent \in Numbers /\ cliNumber \in Numbers /\ tNumber \in Numbers
    /\ tTransfer \in Numbers /\ socket \in Sockets
    /\ cliPc \in CliPcs /\ line \in Lines
    /\ tPc \in ThreadPcs /\ tCommand \in DataCommands
    /\ dataMode \in {"none", "PASV", "PORT"}
    /\ {threadSet, connected, context, cancelled, abortRequested, portRefused,
        misread, wrongFile} \subseteq BOOLEAN
    /\ aborts \in 0 .. MaxAborts /\ abandoned \in Nat

Init ==
    /\ toServer = <<>> /\ toClient = <<>> /\ sent = 0
    /\ cliPc = "prompt" /\ line = "OTHER" /\ cliNumber = 0
    /\ threadSet = FALSE /\ tPc = "none" /\ tCommand = "RETR"
    /\ tNumber = 0 /\ tTransfer = 0
    /\ connected = TRUE /\ dataMode = "none" /\ socket = NoSocket
    /\ context = FALSE /\ cancelled = FALSE /\ abortRequested = FALSE
    /\ aborts = 0 /\ abandoned = 0 /\ portRefused = FALSE /\ misread = FALSE
    /\ wrongFile = FALSE

-------------------------------------------------------------------------------
(* The control connection.                                                 *)

Sends(command) ==
    /\ sent' = sent + 1
    /\ toServer' = Append(toServer, [command |-> command, number |-> sent'])
    /\ UNCHANGED toClient

\* _receive_response
Receives(reply) ==
    /\ toClient # <<>> /\ reply = Head(toClient)
    /\ toClient' = Tail(toClient)
    /\ UNCHANGED <<toServer, sent>>

InTransit == {toClient[i] : i \in DOMAIN toClient}

Answers(reply, number) == reply.to = number

Noted(answered) ==
    /\ misread' = (misread \/ ~answered)
    /\ UNCHANGED <<aborts, wrongFile>>

\* The locals of a thread end with it, those of an input line with its turn.
ThreadEnds ==
    /\ threadSet' = FALSE /\ tPc' = "none"
    /\ tCommand' = "RETR" /\ tNumber' = 0 /\ tTransfer' = 0

Prompts ==
    /\ cliPc' = "prompt"
    /\ line' = "OTHER" /\ cliNumber' = 0

\* The process exits, and its daemon thread with it.
Exits(how) ==
    /\ cliPc' = how
    /\ line' = "OTHER" /\ cliNumber' = 0
    /\ ThreadEnds
    /\ connected' = FALSE /\ dataMode' = "none" /\ socket' = NoSocket
    /\ context' = FALSE /\ cancelled' = FALSE /\ abortRequested' = FALSE

-------------------------------------------------------------------------------
(* The command line.  transfer_thread is read twice, is_alive of None      *)
(* raises.                                                                 *)

U_Enter ==
    /\ cliPc = "prompt" /\ connected /\ sent < MaxSent
    /\ \E l \in UserLines :
          /\ l \in {"ABOR", "interrupt"} => aborts < MaxAborts
          /\ l = "interrupt" => sent < MaxBeforeInterrupt
          /\ line' = l
    /\ cliPc' = IF threadSet THEN "alive" ELSE "dispatch"
    /\ UNCHANGED <<channel, cliNumber, threadVars, connected, dataVars,
                   abortVars, history>>

\* ABOR, and the interrupt that disconnects, abort a running transfer; any
\* other command waits for its end.
AbortsTransfer == line \in {"ABOR", "interrupt"}

U_Alive ==
    /\ cliPc = "alive" /\ threadSet
    /\ IF AbortsTransfer
       THEN /\ Sends("ABOR")
            /\ aborts' = aborts + 1
            /\ cliPc' = "flag" /\ UNCHANGED <<line, cliNumber>>
       ELSE /\ Prompts
            /\ UNCHANGED <<channel, aborts>>
    /\ UNCHANGED <<threadVars, connected, dataVars, abortVars, abandoned,
                   portRefused, misread, wrongFile>>

\* The transfer thread ended between the two reads.
U_Raises ==
    /\ cliPc \in {"alive", "join"} /\ ~threadSet
    /\ Exits("crashed")
    /\ UNCHANGED <<channel, history>>

\* udp_client_abort_transfer, one access to the globals at a time.
U_SetFlag ==
    /\ cliPc = "flag"
    /\ abortRequested' = TRUE
    /\ cliPc' = "check"
    /\ UNCHANGED <<channel, line, cliNumber, threadVars, connected, dataVars,
                   context, cancelled, history>>

AbortEnds ==
    IF line = "interrupt"
    THEN cliPc' = "join" /\ UNCHANGED <<line, cliNumber>>
    ELSE Prompts

U_CheckContext ==
    /\ cliPc = "check"
    /\ IF context
       THEN cliPc' = "cancel" /\ UNCHANGED <<line, cliNumber>>
       ELSE AbortEnds
    /\ UNCHANGED <<channel, threadVars, connected, dataVars, abortVars, history>>

U_Cancel ==
    /\ cliPc = "cancel"
    /\ IF context
       THEN /\ cancelled' = TRUE
            /\ AbortEnds
            /\ UNCHANGED <<threadVars, connected, dataVars, context, abortRequested>>
       ELSE Exits("crashed")
    /\ UNCHANGED <<channel, history>>

\* join(timeout=3): the attribute is read once more, and the thread may live on.
U_Join ==
    /\ cliPc = "join" /\ threadSet
    /\ cliPc' = "joining"
    /\ UNCHANGED <<channel, line, cliNumber, threadVars, connected, dataVars,
                   abortVars, history>>

CliSends(command) ==
    /\ Sends(command)
    /\ cliNumber' = sent'
    /\ cliPc' = "wait"

U_Quit ==
    /\ \/ cliPc = "dispatch" /\ line \in {"QUIT", "interrupt"}
       \/ cliPc = "joining"
    /\ CliSends("QUIT")
    /\ UNCHANGED <<line, threadVars, connected, dataVars, abortVars, history>>

\* _enter_passive, and every command that is passed on as it is.
U_Command ==
    /\ cliPc = "dispatch" /\ line \in {"PASV", "OTHER", "ABOR"}
    /\ CliSends(line)
    /\ UNCHANGED <<line, threadVars, connected, dataVars, abortVars, history>>

U_PortUnbound ==
    /\ cliPc = "dispatch" /\ line = "PORT"
    /\ CliSends("PORT")
    /\ UNCHANGED <<line, threadVars, connected, dataVars, abortVars, history>>

\* udp_client_set_active binds a new socket before the command goes out.
U_Port ==
    /\ cliPc = "dispatch" /\ line = "PORT"
    /\ CliSends("PORT")
    /\ socket' = sent'
    /\ context' = FALSE /\ abortRequested' = FALSE
    /\ UNCHANGED <<line, threadVars, connected, dataMode, cancelled, history>>

\* ... or fails when the old one is closed already: without a new one, or
\* with one that it could not bind.
U_PortFails ==
    /\ cliPc = "dispatch" /\ line = "PORT"
    /\ Prompts
    /\ socket' \in {NoSocket, Unbound}
    /\ context' = FALSE /\ abortRequested' = FALSE
    /\ UNCHANGED <<channel, threadVars, connected, dataMode,
                   cancelled, history>>

U_StartsThread ==
    /\ cliPc = "dispatch" /\ line \in DataCommands
    /\ threadSet' = TRUE
    /\ tPc' = "start"
    /\ tCommand' = line
    /\ Prompts
    /\ UNCHANGED <<channel, tNumber, tTransfer, connected,
                   dataVars, abortVars, history>>

\* udp_client_set_passive
OpensPassive(number) ==
    /\ socket' = number
    /\ dataMode' = "PASV"
    /\ context' = FALSE /\ abortRequested' = FALSE
    /\ UNCHANGED cancelled

U_Reads ==
    /\ cliPc = "wait"
    /\ \E reply \in InTransit :
          /\ Receives(reply)
          /\ Noted(Answers(reply, cliNumber))
          /\ UNCHANGED abandoned
          /\ portRefused' = (portRefused \/ (line = "PORT" /\ reply.code # "200"))
          /\ \/ line \in {"QUIT", "interrupt"} /\ Exits("gone")
             \/ /\ line \notin {"QUIT", "interrupt"}
                /\ Prompts
                /\ UNCHANGED <<threadVars, connected>>
                /\ IF line = "PASV" /\ reply.code = "227"
                   THEN OpensPassive(reply.to)
                   ELSE /\ dataMode' = IF line = "PORT" /\ reply.code = "200"
                                       THEN "PORT" ELSE dataMode
                        /\ UNCHANGED <<socket, abortVars>>

\* The connection is closed: the reply is empty.
U_EndOfFile ==
    /\ cliPc = "wait"
    /\ Exits("gone")
    /\ UNCHANGED <<channel, history>>

\* ... or the thread has found it closed, and the loop ends.
U_LoopEnds ==
    /\ cliPc = "prompt" /\ ~connected
    /\ Exits("gone")
    /\ UNCHANGED <<channel, history>>

CommandLine ==
    \/ U_Alive \/ U_Raises \/ U_SetFlag \/ U_CheckContext \/ U_Cancel
    \/ U_Join \/ U_Quit \/ U_Command \/ U_Port \/ U_PortFails
    \/ U_StartsThread \/ U_Reads \/ U_LoopEnds

-------------------------------------------------------------------------------
(* The transfer thread: _run_transfer around handle_data_transfer.         *)

T_Start ==
    /\ tPc = "start"
    /\ IF dataMode = "none"
       THEN Sends("PASV") /\ tNumber' = sent' /\ tPc' = "wait227"
       ELSE tPc' = "prepare" /\ UNCHANGED <<channel, tNumber>>
    /\ UNCHANGED <<cliVars, threadSet, tCommand, tTransfer, connected, dataVars,
                   abortVars, history>>

ThreadReads(reply) ==
    /\ Receives(reply)
    /\ UNCHANGED <<cliVars, threadSet, tCommand, tNumber, connected, portRefused>>

T_Read227 ==
    /\ tPc = "wait227"
    /\ \E reply \in InTransit :
          /\ ThreadReads(reply)
          /\ Noted(Answers(reply, tNumber)) /\ UNCHANGED abandoned
          /\ IF reply.code = "227"
             THEN tPc' = "prepare" /\ OpensPassive(reply.to)
             ELSE tPc' = "end" /\ UNCHANGED <<dataVars, abortVars>>
    /\ UNCHANGED tTransfer

T_SendCommand ==
    /\ tPc = "prepare"
    /\ Sends(tCommand)
    /\ tNumber' = sent'
    /\ tPc' = "wait150"
    /\ UNCHANGED <<cliVars, threadSet, tCommand, tTransfer, connected, dataVars,
                   abortVars, history>>

T_NoLocalFile ==
    /\ tPc = "prepare" /\ tCommand = "STOR"
    /\ tPc' = "end"
    /\ UNCHANGED <<channel, cliVars, threadSet, tCommand, tNumber, tTransfer,
                   connected, dataVars, abortVars, history>>

Abandons(reply) == IF reply.code = "unhashed150" THEN 1 ELSE 0

T_ReadsCode ==
    /\ tPc = "wait150"
    /\ \E reply \in InTransit :
          /\ ThreadReads(reply)
          /\ Noted(Answers(reply, tNumber))
          /\ tPc' = IF reply.code = "150" THEN "open" ELSE "end"
          /\ tTransfer' = IF reply.code = "150" THEN 150 ELSE tTransfer
          /\ abandoned' = abandoned + Abandons(reply)
    /\ UNCHANGED <<dataVars, abortVars>>

T_WaitsAnyway ==
    /\ tPc = "wait150"
    /\ \E reply \in InTransit :
          /\ ThreadReads(reply)
          /\ Noted(Answers(reply, tNumber))
          /\ tPc' = IF reply.code = "150" THEN "open" ELSE "waitfinal"
          /\ tTransfer' = IF reply.code = "150" THEN reply.about ELSE tTransfer
          /\ UNCHANGED abandoned
    /\ UNCHANGED <<dataVars, abortVars>>

\* Name, size and hash of the file are the command's; TID, size and hash
\* that the transfer is checked against are the reply's.  Without them the
\* thread ends, and leaves the final reply to the next reader.
T_Read150 ==
    /\ tPc = "wait150"
    /\ \E reply \in InTransit :
          /\ ThreadReads(reply)
          /\ Noted(Answers(reply, tNumber))
          /\ tPc' = IF reply.code = "150" THEN "open" ELSE "end"
          /\ tTransfer' = IF reply.code = "150" THEN reply.about ELSE tTransfer
          /\ abandoned' = abandoned + Abandons(reply)
    /\ UNCHANGED <<dataVars, abortVars>>

ThreadGoes(from, to) ==
    /\ tPc = from
    /\ tPc' = to
    /\ UNCHANGED <<channel, cliVars, threadSet, tCommand, tNumber, tTransfer,
                   connected, dataVars>>

\* A download in passive mode sends READY, an upload in active mode gets one;
\* with an unbound socket, for which the mode is none and the peer unknown, a
\* download just listens and an upload fails.
T_Open ==
    /\ socket # NoSocket
    /\ socket = Unbound => tCommand = "RETR"
    /\ ThreadGoes("open", "setctx")
    /\ UNCHANGED <<abortVars, history>>

\* No socket, no READY in time, or no local file any more.
T_OpenFails ==
    /\ ThreadGoes("open", "close")
    /\ UNCHANGED <<abortVars, history>>

T_SetContext ==
    /\ ThreadGoes("setctx", "checkflag")
    /\ context' = TRUE /\ cancelled' = FALSE
    /\ UNCHANGED <<abortRequested, history>>

T_SkipCheckFlag ==
    /\ ThreadGoes("checkflag", "run")
    /\ UNCHANGED <<abortVars, history>>

T_CheckFlag ==
    /\ ThreadGoes("checkflag", "run")
    /\ cancelled' = (cancelled \/ abortRequested)
    /\ UNCHANGED <<context, abortRequested, history>>

\* Everything has come, up to FIN: udp_client_receive_file will succeed.
T_Receives ==
    /\ tCommand = "RETR" /\ ~cancelled
    /\ ThreadGoes("run", "save")
    /\ UNCHANGED <<abortVars, history>>

T_Saves ==
    /\ ThreadGoes("save", "close")
    /\ wrongFile' = (wrongFile \/ tTransfer # tNumber)
    /\ UNCHANGED <<abortVars, aborts, abandoned, portRefused, misread>>

\* An upload's end; cancelled, timed out or failed.
T_Ends ==
    /\ tPc \in {"run", "save"}
    /\ ThreadGoes(tPc, "close")
    /\ UNCHANGED <<abortVars, history>>

\* _close_client_socket; the flag is reset last.
T_Close ==
    /\ tPc = "close"
    /\ tPc' = "clearflag"
    /\ socket' = NoSocket /\ context' = FALSE
    /\ UNCHANGED <<channel, cliVars, threadSet, tCommand, tNumber, tTransfer,
                   connected, dataMode, cancelled, abortRequested, history>>

T_EndsEarly ==
    /\ tPc = "clearflag"
    /\ tPc' = "waitfinal" /\ threadSet' = FALSE
    /\ abortRequested' = FALSE
    /\ UNCHANGED <<channel, cliVars, tCommand, tNumber, tTransfer, connected,
                   dataVars, context, cancelled, history>>

T_ClearFlag ==
    /\ ThreadGoes("clearflag", "waitfinal")
    /\ abortRequested' = FALSE
    /\ UNCHANGED <<context, cancelled, history>>

\* 226 or 426 about the transfer: the answer to it, or ABOR's to both.
Final(reply) == reply.code \in {"226", "426"} /\ reply.about = tNumber

T_SkipsFinal ==
    /\ tPc = "waitfinal"
    /\ dataMode' = "none"
    /\ tPc' = "end"
    /\ UNCHANGED <<channel, cliVars, threadSet, tCommand, tNumber, tTransfer,
                   connected, socket, abortVars, history>>

T_ReadFinal ==
    /\ tPc = "waitfinal"
    /\ \E reply \in InTransit : ThreadReads(reply) /\ Noted(Final(reply))
    /\ UNCHANGED abandoned
    /\ dataMode' = "none"
    /\ tPc' = "end"
    /\ UNCHANGED <<tTransfer, socket, abortVars>>

\* udp_client_receive_buffer, for LIST and NLST: no temporary directory, or
\* nothing to be read from it; the exception leaves the thread.
T_BufferRaises ==
    /\ tPc \in {"open", "waitfinal"} /\ tCommand = "RETR"
    /\ tPc' = "end"
    /\ abandoned' = abandoned + 1
    /\ UNCHANGED <<channel, cliVars, threadSet, tCommand, tNumber, tTransfer,
                   connected, dataVars, abortVars, aborts, portRefused, misread,
                   wrongFile>>

\* The connection is closed: an empty reply, whose code is none.
T_EndOfFile ==
    /\ tPc \in Reading
    /\ connected' = FALSE
    /\ dataMode' = IF tPc = "waitfinal" THEN "none" ELSE dataMode
    /\ tPc' = "end"
    /\ UNCHANGED <<channel, cliVars, threadSet, tCommand, tNumber, tTransfer,
                   socket, abortVars, history>>

T_End ==
    /\ tPc = "end"
    /\ ThreadEnds
    /\ UNCHANGED <<channel, cliVars, connected, dataVars, abortVars, history>>

\* Without T_Open, T_Receives and T_EndOfFile, which depend on the server.
Thread ==
    \/ T_Start \/ T_Read227 \/ T_SendCommand \/ T_NoLocalFile \/ T_Read150
    \/ T_OpenFails \/ T_SetContext \/ T_CheckFlag \/ T_Saves \/ T_Ends
    \/ T_Close \/ T_ClearFlag \/ T_ReadFinal \/ T_BufferRaises \/ T_End

-------------------------------------------------------------------------------
(* Properties.                                                             *)

(* Command line and transfer thread share the connection and have no lock: *)
(* they wait for a reply at the same time only after the interrupt, whose  *)
(* join has a timeout.                                                     *)
OneReader == cliPc = "wait" /\ tPc \in Reading => line = "interrupt"

(* Whichever of ABOR and the thread comes first at the flag and at the     *)
(* context: once udp_client_abort_transfer has returned, a running         *)
(* transfer is cancelled.                                                  *)
AbortReachesTransfer ==
    tPc = "run" /\ abortRequested /\ cliPc \notin {"check", "cancel"} => cancelled
===============================================================================
