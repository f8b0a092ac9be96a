-------------------------- MODULE FtpSystemOrderProofs --------------------------
(***************************************************************************)
(* Proofs about who reads which reply in FtpSystem, and through which data *)
(* port a transfer goes, for any number of commands and jobs.  That the    *)
(* balance of FtpSystemReplyProofs is even until an ABOR is sent or a      *)
(* thread leaves its final reply unread leaves at most one thing under way *)
(* at a time, and it belongs to the one who waits.                         *)
(***************************************************************************)
EXTENDS FtpSystemReplyProofs

-------------------------------------------------------------------------------
(* Without an ABOR, and without a thread that leaves its final reply.      *)

NoSurplus == aborts = 0 /\ abandoned = 0

\* Where the server owes at most one reply, what owes it is alone.
Quiet == \A reply \in Range(toClient) : reply.code \in Preliminary

Alone ==
    Supply <= 1 =>
        /\ toServer # <<>> =>
              Tail(toServer) = <<>> /\ Quiet /\ cPc = "idle" /\ ~Owes
        /\ cPc # "idle" \/ Owes => toServer = <<>> /\ Quiet
        /\ Supply = 0 => toServer = <<>> /\ Quiet /\ cPc = "idle" /\ ~Owes

LEMMA NoneCounted ==
    ASSUME NEW S, NEW queue \in Seq(S), NEW kinds, Count(queue, kinds) = 0,
           NEW e \in Range(queue)
    PROVE  e \notin kinds
<1>1. Places(queue, kinds) = {}
  BY PlacesFinite, FS_EmptySet
<1> QED BY <1>1 DEF Places, Range

LEMMA EmptyOrSingle ==
    ASSUME NEW S, NEW queue \in Seq(S)
    PROVE  /\ Len(queue) = 0 <=> queue = <<>>
           /\ Len(queue) = 1 => Tail(queue) = <<>>
<1>1. \A q \in Seq(S) : Len(q) = 0 <=> q = <<>>
  OBVIOUS
<1>2. ASSUME Len(queue) = 1 PROVE Tail(queue) = <<>>
  <2>1. queue # <<>>
    BY <1>1, <1>2
  <2>2. Tail(queue) \in Seq(S) /\ Len(Tail(queue)) = Len(queue) - 1
    BY <2>1
  <2> DEFINE rest == Tail(queue)
  <2>3. rest \in Seq(S) /\ Len(rest) = 0
    BY <1>2, <2>2
  <2> HIDE DEF rest
  <2>4. rest = <<>>
    BY <1>1, <2>3
  <2> QED BY <2>4 DEF rest
<1> QED BY <1>1, <1>2

LEMMA AloneHolds == TypeInv /\ Sums => Alone
<1> SUFFICES ASSUME TypeInv, Sums, Supply <= 1
             PROVE  /\ toServer # <<>> =>
                          Tail(toServer) = <<>> /\ Quiet /\ cPc = "idle" /\ ~Owes
                    /\ cPc # "idle" \/ Owes => toServer = <<>> /\ Quiet
                    /\ Supply = 0 => toServer = <<>> /\ Quiet /\ cPc = "idle" /\ ~Owes
  BY DEF Alone
<1>1. /\ toServer \in Seq(Messages) /\ toClient \in Seq(Replies)
      /\ Finals \in Nat /\ Pending \in Nat
      /\ Supply = Finals + Pending + One(cPc # "idle") + One(Owes)
  BY DEF TypeInv, ChannelOK, Sums, Supply
<1>2. /\ One(cPc # "idle") \in Nat /\ (cPc # "idle" => One(cPc # "idle") = 1)
      /\ One(Owes) \in Nat /\ (Owes => One(Owes) = 1)
  BY DEF One
<1>3. Finals = 0 => Quiet
  <2> SUFFICES ASSUME Finals = 0, NEW reply \in Range(toClient)
               PROVE  reply.code \in Preliminary
    BY DEF Quiet
  <2>1. reply \notin FinalReplies
    BY <1>1, NoneCounted DEF Finals
  <2>2. reply \in Replies
    BY <1>1 DEF Range
  <2> QED BY <2>1, <2>2 DEF FinalReplies
<1>4. /\ Pending = 0 <=> toServer = <<>>
      /\ Pending = 1 => Tail(toServer) = <<>>
  BY <1>1, EmptyOrSingle DEF Pending
<1>5. toServer # <<>> => Pending = 1 /\ Finals = 0 /\ cPc = "idle" /\ ~Owes
  BY <1>1, <1>2, <1>4
<1>6. cPc # "idle" \/ Owes => Pending = 0 /\ Finals = 0
  BY <1>1, <1>2
<1>7. Supply = 0 => Pending = 0 /\ Finals = 0 /\ cPc = "idle" /\ ~Owes
  BY <1>1, <1>2
<1> QED BY <1>3, <1>4, <1>5, <1>6, <1>7

\* Nobody has sent an ABOR into a transfer, so at most one waits at a time,
\* and what is under way is for the one that waits: the commands, the
\* replies and their order, the job, an ABOR and the end of the session.
Leaving == line \in {"QUIT", "interrupt"}

AwaitsAnswer(number) ==
    \/ cliPc = "wait" /\ number = cliNumber
    \/ tPc \in {"wait227", "wait150"} /\ number = tNumber

AboutTransfer(reply) == reply.code \in {"226", "426"} /\ reply.about = tNumber

Awaits(reply) ==
    \/ reply.code \notin Preliminary /\ AwaitsAnswer(reply.to)
    \/ /\ reply.code \in Preliminary /\ tPc = "wait150"
       /\ reply.to = tNumber /\ reply.about = tNumber
    \/ AboutTransfer(reply) /\ tPc \in {"waitfinal"} \cup Transferring

OneWaits ==
    /\ cliPc \in {"prompt", "alive", "dispatch", "wait"}
    /\ cliPc = "wait" => tPc = "none"

OwnCommands ==
    \A m \in Range(toServer) :
        /\ AwaitsAnswer(m.number)
        /\ m.command \in Stops => cliPc = "wait"
        /\ m.command = "QUIT" => Leaving

OwnReplies ==
    /\ \A reply \in Range(toClient) : Awaits(reply)
    /\ \A i \in DOMAIN toClient : toClient[i].code \in Preliminary => i = 1
    /\ tPc = "wait150" =>
          \A i \in DOMAIN toClient : i > 1 => AboutTransfer(toClient[i])
    /\ toServer # <<>> => toClient = <<>>

OwnJob ==
    \A j \in Server!Jobs : wPc[j] \in Owing =>
        request[j] = tNumber /\ tPc \in {"wait150", "waitfinal"} \cup Transferring

OwnAbort ==
    cPc \in Handling =>
        cliPc = "wait" /\ serving = cliNumber /\ (command = "QUIT" => Leaving)

OwnEnd == cPc \in Server!Gone => cliPc = "wait" /\ (toClient # <<>> => Leaving)

OwnTransfer == tPc \in Transferring => tTransfer = tNumber

Own ==
    /\ OneWaits /\ OwnCommands /\ OwnReplies /\ OwnJob /\ OwnAbort /\ OwnEnd
    /\ OwnTransfer

InStep ==
    NoSurplus =>
        /\ ~misread /\ ~wrongFile
        /\ IF cliPc \in Exited THEN tPc = "none" ELSE Own

LEMMA InStepInit == SystemInit => InStep
<1> SUFFICES ASSUME SystemInit PROVE InStep
  OBVIOUS
<1>1. toServer = <<>> /\ toClient = <<>> /\ cliPc = "prompt" /\ tPc = "none"
      /\ cPc = "idle" /\ wPc = [j \in Server!Jobs |-> "none"]
      /\ ~misread /\ ~wrongFile
  BY DEF SystemInit, Init, Server!Init
<1>2. Range(toServer) = {} /\ Range(toClient) = {} /\ DOMAIN toClient = {}
  BY <1>1 DEF Range
<1>3. OneWaits /\ OwnCommands /\ OwnReplies
  BY <1>1, <1>2 DEF OneWaits, OwnCommands, OwnReplies
<1>4. OwnJob /\ OwnAbort /\ OwnEnd /\ OwnTransfer
  BY <1>1
  DEF OwnJob, OwnAbort, OwnEnd, OwnTransfer, Owing, Server!Running,
      Server!Beginning, Server!Gone, Handling, Transferring
<1> QED BY <1>1, <1>3, <1>4 DEF InStep, Own, Exited

\* What the server owes is what is waited for.
Even ==
    Live /\ NoSurplus /\ ~misread =>
        Supply = One(cliPc = "wait") + One(tPc \in Reading \cup Transferring)

LEMMA EvenHolds == Sums /\ Balance => Even
<1> SUFFICES ASSUME Sums, Balance, Live, NoSurplus, ~misread
             PROVE  Supply = One(cliPc = "wait") + One(tPc \in Reading \cup Transferring)
  BY DEF Even
<1>1. /\ Excess \in Int /\ Excess <= 0 /\ Excess >= 0 /\ Supply \in Nat
      /\ Excess = Supply - One(cliPc = "wait") - One(tPc \in Reading \cup Transferring)
  <2>1. Surplus = 0
    BY DEF Surplus, NoSurplus
  <2> QED BY <2>1 DEF Balance, Enough, NotTooMany, Sums
<1>2. /\ One(cliPc = "wait") \in {0, 1} /\ One(tPc \in Reading \cup Transferring) \in {0, 1}
  BY DEF One
<1> QED BY <1>1, <1>2

LEMMA AtMostOne ==
    ASSUME Even, OneWaits, Live, NoSurplus, ~misread
    PROVE  /\ Supply <= 1
           /\ cliPc # "wait" /\ tPc \notin Reading \cup Transferring => Supply = 0
<1>1. /\ One(cliPc = "wait") + One(tPc \in Reading \cup Transferring) <= 1
      /\ cliPc # "wait" => One(cliPc = "wait") = 0
      /\ tPc \notin Reading \cup Transferring => One(tPc \in Reading \cup Transferring) = 0
  BY DEF OneWaits, One, Reading, Transferring
<1> QED BY <1>1 DEF Even

LEMMA RangeEmpty ==
    ASSUME NEW S, NEW queue \in Seq(S), Range(queue) = {}
    PROVE  queue = <<>>
<1>1. \A i \in DOMAIN queue : queue[i] \in Range(queue)
  BY DEF Range
<1>2. DOMAIN queue = 1 .. Len(queue) /\ Len(queue) \in Nat
  OBVIOUS
<1>3. Len(queue) = 0
  BY <1>1, <1>2
<1> QED BY <1>3, EmptyOrSingle

LEMMA NothingElse ==
    ASSUME OwnReplies, Quiet, tPc # "wait150", TypeInv
    PROVE  toClient = <<>>
<1>1. toClient \in Seq(Replies)
  BY DEF TypeInv, ChannelOK
<1>2. Range(toClient) = {}
  BY DEF OwnReplies, Awaits, AboutTransfer, Quiet, Preliminary
<1> QED BY <1>1, <1>2, RangeEmpty

\* Steps of the client that neither send nor read, and wait as before.
Waits ==
    /\ UNCHANGED <<channel, sessionVars, loopVars>>
    /\ cliPc' \in {"prompt", "alive", "dispatch", "wait"}
    /\ cliPc' = "wait" <=> cliPc = "wait"
    /\ cliPc' = "wait" => UNCHANGED <<line, cliNumber, tPc>>
    /\ \/ UNCHANGED <<tPc, tNumber, tTransfer>>
       \/ /\ tPc \notin Reading \cup Transferring
          /\ tPc' \notin Reading \cup Transferring
       \/ /\ tPc \in Transferring /\ tPc' \in Transferring \cup {"waitfinal"}
          /\ UNCHANGED <<tNumber, tTransfer>>

LEMMA WaitsInStep == ASSUME Own, Waits PROVE Own'
<1>1. /\ \A n : AwaitsAnswer(n) => AwaitsAnswer(n)'
      /\ tPc \in {"wait150", "waitfinal"} \cup Transferring =>
            tNumber' = tNumber /\ tPc' \in {"wait150", "waitfinal"} \cup Transferring
      /\ tPc' = "wait150" <=> tPc = "wait150"
      /\ tPc \in {"waitfinal"} \cup Transferring => tPc' \in {"waitfinal"} \cup Transferring
      /\ tPc' \in Transferring => tPc \in Transferring /\ UNCHANGED <<tNumber, tTransfer>>
      /\ cliPc = "wait" => line' = line
  BY DEF Waits, AwaitsAnswer, Reading, Transferring
<1>2. /\ UNCHANGED <<toServer, toClient, wPc, request, cPc, serving, command>>
      /\ Range(toServer') = Range(toServer) /\ Range(toClient') = Range(toClient)
  BY DEF Waits, channel, sessionVars, loopVars
<1>3. OneWaits'
  BY DEF Waits, Own, OneWaits
<1>4. OwnCommands'
  BY <1>1, <1>2 DEF Waits, Own, OwnCommands, Leaving, Stops
<1>5. OwnReplies'
  <2>1. \A reply \in Range(toClient) : Awaits(reply) => Awaits(reply)'
    BY <1>1 DEF Awaits, AboutTransfer
  <2> QED BY <1>1, <1>2, <2>1 DEF Own, OwnReplies, AboutTransfer
<1>6. OwnJob' /\ OwnAbort' /\ OwnEnd' /\ OwnTransfer'
  BY <1>1, <1>2 DEF Waits, Own, OwnJob, OwnAbort, OwnEnd, OwnTransfer, Leaving
<1> QED BY <1>3, <1>4, <1>5, <1>6 DEF Own

\* A command goes out when nothing is under way.
LEMMA SendsInStep ==
    ASSUME TypeInv, Even, Alone, Own, NoSurplus, ~misread,
           UNCHANGED <<sessionVars, loopVars>>, NEW c \in Lines, Sends(c),
           \/ /\ cliPc = "dispatch" /\ tPc = "none"
              /\ cliPc' = "wait" /\ cliNumber' = sent' /\ tPc' = tPc
              /\ c = "QUIT" => Leaving'
           \/ /\ tPc \in {"start", "prepare"} /\ tPc' \in {"wait227", "wait150"}
              /\ tNumber' = sent' /\ c \notin Stops /\ UNCHANGED cliVars
    PROVE  Own'
<1>1. OneWaits /\ cliPc # "wait" /\ tPc \notin Reading \cup Transferring
  BY DEF Own, OneWaits, Reading, Transferring
<1>2. Live /\ cPc \notin Server!Gone
  BY <1>1 DEF Live, Own, OneWaits, OwnEnd, Exited
<1>3. Supply <= 1 /\ Supply = 0
  BY <1>1, <1>2, AtMostOne
<1>4. toServer = <<>> /\ cPc = "idle" /\ ~Owes /\ toClient = <<>>
  BY <1>1, <1>3, NothingElse DEF Alone, Own, Reading
<1>5. /\ Range(toServer') = {[command |-> c, number |-> sent']}
      /\ toClient' = <<>> /\ Range(toClient') = {} /\ DOMAIN toClient' = {}
  BY <1>4 DEF Sends, Range
<1>6. UNCHANGED <<wPc, cPc>>
  BY DEF sessionVars
<1>7. OneWaits' /\ tPc' \notin Transferring
  BY <1>1 DEF OneWaits, cliVars, Transferring
<1>8. OwnCommands'
  <2>1. AwaitsAnswer(sent)' /\ (c \in Stops => cliPc' = "wait") /\ (c = "QUIT" => Leaving')
    BY DEF AwaitsAnswer, Stops
  <2> QED BY <1>5, <2>1 DEF OwnCommands
<1>9. OwnReplies'
  BY <1>5 DEF OwnReplies
<1>10. OwnJob' /\ OwnAbort' /\ OwnEnd' /\ OwnTransfer'
  BY <1>2, <1>4, <1>6, <1>7
  DEF OwnJob, OwnAbort, OwnEnd, OwnTransfer, Owes, Handling
<1> QED BY <1>7, <1>8, <1>9, <1>10 DEF Own

\* A reader takes the reply it has waited for, and nobody waits any more.
LEMMA LastRead ==
    ASSUME TypeInv, TypeInv', Even', Alone', Own, cPc \notin Server!Gone,
           NoSurplus', ~misread', UNCHANGED <<sessionVars, loopVars>>,
           NEW reply, Receives(reply),
           cliPc' \in {"prompt", "alive", "dispatch"},
           tPc' \notin Reading \cup Transferring
    PROVE  Own'
<1>1. /\ cPc' = cPc /\ wPc' = wPc /\ Live'
      /\ One(cliPc = "wait")' = 0 /\ One(tPc \in Reading \cup Transferring)' = 0
  BY DEF sessionVars, Live, Exited, One
<1>2. Supply' = 0
  BY <1>1 DEF Even
<1>3. toServer' = <<>> /\ Quiet' /\ cPc' = "idle" /\ ~Owes'
  BY <1>2 DEF Alone
<1>4. toClient' = <<>>
  <2>1. /\ toClient \in Seq(Replies) /\ toClient # <<>>
        /\ toClient' = Tail(toClient) /\ toClient' \in Seq(Replies)
    BY DEF TypeInv, ChannelOK, Receives
  <2>2. \A i \in DOMAIN toClient' :
            i + 1 \in DOMAIN toClient /\ i + 1 # 1 /\ toClient'[i] = toClient[i + 1]
    BY <2>1
  <2>3. \A i \in DOMAIN toClient' : toClient'[i].code \notin Preliminary
    BY <2>2 DEF Own, OwnReplies
  <2>4. Range(toClient') = {}
    BY <1>3, <2>3 DEF Quiet, Range
  <2> QED BY <2>1, <2>4, RangeEmpty
<1>5. Range(toServer') = {} /\ Range(toClient') = {} /\ DOMAIN toClient' = {}
  BY <1>3, <1>4 DEF Range
<1>6. OneWaits' /\ OwnCommands' /\ OwnReplies'
  BY <1>4, <1>5 DEF OneWaits, OwnCommands, OwnReplies
<1>7. OwnJob' /\ OwnAbort' /\ OwnEnd' /\ OwnTransfer'
  BY <1>3 DEF OwnJob, OwnAbort, OwnEnd, OwnTransfer, Owes, Handling, Server!Gone
<1> QED BY <1>6, <1>7 DEF Own

LEMMA Read150 ==
    ASSUME TypeInv, Own, UNCHANGED <<cliVars, sessionVars, loopVars, tNumber>>,
           NEW reply, Receives(reply), reply.code \in Preliminary,
           tPc = "wait150", tPc' = "open", tTransfer' = reply.about
    PROVE  Own'
<1>1. /\ toClient \in Seq(Replies) /\ toClient # <<>> /\ reply = toClient[1]
      /\ toClient' = Tail(toClient) /\ toServer' = toServer /\ reply \in Range(toClient)
  BY DEF TypeInv, ChannelOK, Receives, Range
<1>2. toServer = <<>> /\ Awaits(reply)
  BY <1>1 DEF Own, OwnReplies
<1>3. \A i \in DOMAIN toClient' :
          i + 1 \in DOMAIN toClient /\ i + 1 > 1 /\ i + 1 # 1
          /\ toClient'[i] = toClient[i + 1]
  BY <1>1
<1>4. \A i \in DOMAIN toClient' :
          AboutTransfer(toClient'[i]) /\ toClient'[i].code \notin Preliminary
  BY <1>3 DEF Own, OwnReplies, AboutTransfer
<1>5. \A r \in Range(toClient') : AboutTransfer(r)
  BY <1>4 DEF Range
<1>6. UNCHANGED <<wPc, cPc, request, cliPc, line, cliNumber, serving, command>>
      /\ "open" \in Transferring
  BY DEF sessionVars, loopVars, cliVars, Transferring
<1>7. OneWaits'
  BY <1>6 DEF Own, OneWaits
<1>8. OwnCommands'
  BY <1>1, <1>2 DEF OwnCommands, Range
<1>9. OwnReplies'
  BY <1>1, <1>2, <1>4, <1>5, <1>6
  DEF OwnReplies, Awaits, AboutTransfer
<1>10. OwnJob' /\ OwnTransfer'
  BY <1>2, <1>6 DEF Own, OwnJob, OwnTransfer, Awaits, AboutTransfer
<1>11. OwnAbort' /\ OwnEnd'
  BY <1>6 DEF Own, OneWaits, OwnAbort, OwnEnd
<1> QED BY <1>7, <1>8, <1>9, <1>10, <1>11 DEF Own

LEMMA SurplusGrows ==
    ASSUME Client \/ DataPort, LocalsOK, NoSurplus'
    PROVE  NoSurplus /\ ~(U_Alive /\ AbortsTransfer) /\ ~T_BufferRaises
<1> USE DEF history, Noted, ThreadGoes
<1>0. aborts \in Nat /\ abandoned \in Nat /\ aborts' = 0 /\ abandoned' = 0
  BY DEF LocalsOK, NoSurplus
<1>1. CASE U_Enter \/ CommandLine
  <2>1. aborts' \in {aborts, aborts + 1} /\ abandoned' = abandoned
        /\ (U_Alive /\ AbortsTransfer => aborts' = aborts + 1)
    BY <1>1
    DEF CommandLine, U_Enter, U_Alive, U_Raises, U_SetFlag, U_CheckContext, U_Cancel,
        U_Join, U_Quit, U_Command, U_Port, U_PortFails, U_StartsThread, U_Reads,
        U_LoopEnds
  <2> QED BY <1>0, <2>1 DEF NoSurplus, T_BufferRaises
<1>2. CASE Thread
  <2>1. aborts' = aborts
    BY <1>2
    DEF Thread, T_Start, T_Read227, T_SendCommand, T_NoLocalFile, T_Read150,
        T_OpenFails, T_SetContext, T_CheckFlag, T_Saves, T_Ends, T_Close,
        T_ClearFlag, T_ReadFinal, T_BufferRaises, T_End
  <2>2. abandoned' \in {abandoned, abandoned + 1}
    <3>1. CASE T_Read150
      <4>1. PICK reply : abandoned' = abandoned + Abandons(reply)
        BY <3>1 DEF T_Read150
      <4>2. Abandons(reply) \in {0, 1}
        BY DEF Abandons
      <4> QED BY <1>0, <4>1, <4>2
    <3> QED
      BY <1>2, <3>1
      DEF Thread, T_Start, T_Read227, T_SendCommand, T_NoLocalFile,
          T_OpenFails, T_SetContext, T_CheckFlag, T_Saves, T_Ends, T_Close,
          T_ClearFlag, T_ReadFinal, T_BufferRaises, T_End
  <2>3. ~(U_Alive /\ AbortsTransfer)
    BY <1>0, <2>1 DEF U_Alive
  <2>4. ~T_BufferRaises
    BY <1>0 DEF T_BufferRaises
  <2> QED BY <1>0, <2>1, <2>2, <2>3, <2>4 DEF NoSurplus
<1>3. CASE DataPort
  <2>1. UNCHANGED <<aborts, abandoned>>
    BY <1>3
    DEF DataPort, D_Open, D_Receives, D_EndOfFile, T_Open, T_Receives, U_EndOfFile,
        T_EndOfFile
  <2> QED BY <1>0, <2>1 DEF NoSurplus, U_Alive, T_BufferRaises
<1> QED BY <1>1, <1>2, <1>3 DEF Client

LEMMA WaitsSteps ==
    ASSUME Own, ClientInv, UNCHANGED <<sessionVars, loopVars>>,
           \/ U_Enter \/ (U_Alive /\ ~AbortsTransfer) \/ U_PortFails \/ U_StartsThread
           \/ (T_Start /\ dataMode # "none") \/ T_NoLocalFile \/ T_OpenFails
           \/ T_SetContext \/ T_CheckFlag \/ T_Saves \/ T_Ends \/ T_Close
           \/ T_ClearFlag \/ T_End \/ T_Open \/ T_Receives
    PROVE  Waits /\ misread' = misread /\ (wrongFile' => wrongFile)
<1>0. /\ cliPc \in {"prompt", "alive", "dispatch", "wait"}
      /\ cliPc = "wait" => tPc = "none"
      /\ cliPc = "dispatch" => tPc = "none"
      /\ tPc \in Transferring => tTransfer = tNumber
  BY DEF Own, OneWaits, OwnTransfer, ClientInv, NoThreadMeanwhile
<1> USE <1>0 DEF Waits, Reading, Transferring, Prompts, ThreadEnds, ThreadGoes,
                 cliVars, threadVars, history
<1>1. CASE U_Enter BY <1>1 DEF U_Enter
<1>2. CASE U_Alive /\ ~AbortsTransfer BY <1>2 DEF U_Alive
<1>8. CASE U_PortFails BY <1>8 DEF U_PortFails
<1>9. CASE U_StartsThread BY <1>9 DEF U_StartsThread
<1>10. CASE T_Start /\ dataMode # "none" BY <1>10 DEF T_Start
<1>11. CASE T_NoLocalFile BY <1>11 DEF T_NoLocalFile
<1>12. CASE T_OpenFails BY <1>12 DEF T_OpenFails
<1>13. CASE T_SetContext BY <1>13 DEF T_SetContext
<1>14. CASE T_CheckFlag BY <1>14 DEF T_CheckFlag
<1>15. CASE T_Saves BY <1>15 DEF T_Saves
<1>16. CASE T_Ends BY <1>16 DEF T_Ends
<1>17. CASE T_Close BY <1>17 DEF T_Close
<1>18. CASE T_ClearFlag BY <1>18 DEF T_ClearFlag
<1>19. CASE T_End BY <1>19 DEF T_End
<1>20. CASE T_Open BY <1>20 DEF T_Open
<1>21. CASE T_Receives BY <1>21 DEF T_Receives
<1> QED
  BY <1>1, <1>2, <1>8, <1>9, <1>10, <1>11, <1>12, <1>13, <1>14, <1>15, <1>16,
     <1>17, <1>18, <1>19, <1>20, <1>21

LEMMA NothingAfterExit ==
    ASSUME cliPc \in Exited, tPc = "none"
    PROVE  ~(Client \/ DataPort)
  BY DEF Client, DataPort, CommandLine, U_Enter, U_Alive, U_Raises, U_SetFlag,
         U_CheckContext, U_Cancel, U_Join, U_Quit, U_Command, U_Port, U_PortFails,
         U_StartsThread, U_Reads, U_LoopEnds, Thread, T_Start, T_Read227,
         T_SendCommand, T_NoLocalFile, T_Read150, T_OpenFails, T_SetContext,
         T_CheckFlag, T_Saves, T_Ends, T_Close, T_ClearFlag, T_ReadFinal,
         T_BufferRaises, T_End, D_Open, D_Receives, D_EndOfFile, T_Open,
         T_Receives, U_EndOfFile, T_EndOfFile, ThreadGoes, Exited, Reading

LEMMA ClientInStep ==
    ASSUME ClientInv, TypeInv, TypeInv', Even, Even', Alone, Alone', InStep,
           Client \/ DataPort
    PROVE  InStep'
<1> SUFFICES ASSUME NoSurplus'
             PROVE  /\ ~misread' /\ ~wrongFile'
                    /\ IF cliPc' \in Exited THEN tPc' = "none" ELSE Own'
  BY DEF InStep
<1>0. UNCHANGED <<sessionVars, loopVars>> /\ tCommand \in DataCommands
  BY ClientImplements
  DEF Client, DataPort, D_Open, D_Receives, D_EndOfFile, ServerStays, TypeInv, LocalsOK
<1>1. /\ NoSurplus /\ ~(U_Alive /\ AbortsTransfer) /\ ~T_BufferRaises
      /\ ~misread /\ ~wrongFile
  BY SurplusGrows DEF TypeInv, InStep
<1>2. cliPc \notin Exited /\ Own
  <2>1. CASE cliPc \in Exited
    BY <1>1, <2>1, NothingAfterExit DEF InStep
  <2> QED BY <1>1, <2>1 DEF InStep
<1>3. /\ cliPc \in {"prompt", "alive", "dispatch", "wait"}
      /\ cliPc = "wait" => tPc = "none"
      /\ cliPc = "dispatch" => tPc = "none"
      /\ tPc # "none" => cPc \notin Server!Gone
  BY <1>2 DEF Own, OneWaits, OwnEnd, ClientInv, NoThreadMeanwhile
<1>4. CASE \/ U_Enter \/ (U_Alive /\ ~AbortsTransfer) \/ U_PortFails \/ U_StartsThread
           \/ (T_Start /\ dataMode # "none") \/ T_NoLocalFile \/ T_OpenFails
           \/ T_SetContext \/ T_CheckFlag \/ T_Saves \/ T_Ends \/ T_Close
           \/ T_ClearFlag \/ T_End \/ T_Open \/ T_Receives
  <2>1. Waits /\ misread' = misread /\ (wrongFile' => wrongFile)
    BY <1>0, <1>2, <1>4, WaitsSteps
  <2>2. cliPc' \notin Exited
    BY <2>1 DEF Waits, Exited
  <2> QED BY <1>1, <1>2, <2>1, <2>2, WaitsInStep
<1>5. CASE U_Raises \/ U_LoopEnds \/ U_EndOfFile
  BY <1>1, <1>5 DEF U_Raises, U_LoopEnds, U_EndOfFile, Exits, ThreadEnds, history, Exited
<1>6. CASE U_SetFlag \/ U_CheckContext \/ U_Cancel \/ U_Join
  BY <1>3, <1>6 DEF U_SetFlag, U_CheckContext, U_Cancel, U_Join
<1>7. CASE U_Quit \/ U_Command \/ U_Port
  <2>1. PICK c \in Lines :
            /\ Sends(c) /\ cliPc = "dispatch" /\ cliPc' = "wait" /\ cliNumber' = sent'
            /\ tPc' = tPc /\ UNCHANGED history /\ (c = "QUIT" => Leaving')
    BY <1>3, <1>7
    DEF U_Quit, U_Command, U_Port, CliSends, Lines, Leaving, threadVars
  <2>2. Own'
    BY <1>0, <1>1, <1>2, <1>3, <2>1, SendsInStep
  <2> QED BY <1>1, <2>1, <2>2 DEF history, Exited
<1>8. CASE (T_Start /\ dataMode = "none") \/ T_SendCommand
  <2>1. PICK c \in Lines :
            /\ Sends(c) /\ tPc \in {"start", "prepare"} /\ tPc' \in {"wait227", "wait150"}
            /\ tNumber' = sent' /\ c \notin Stops /\ UNCHANGED <<cliVars, history>>
    BY <1>0, <1>8 DEF T_Start, T_SendCommand, Lines, DataCommands, Stops
  <2>2. Own'
    BY <1>0, <1>1, <1>2, <2>1, SendsInStep
  <2> QED BY <1>1, <1>2, <2>1, <2>2 DEF history, cliVars
\* Whoever reads takes a reply that is its own.
<1>9. \A reply : Receives(reply) => Awaits(reply)
  BY <1>2, ReceivesRange DEF TypeInv, Own, OwnReplies
<1>10. CASE U_Reads
  <2>1. PICK reply \in InTransit :
            /\ Receives(reply) /\ Noted(Answers(reply, cliNumber))
            /\ \/ Leaving /\ Exits("gone")
               \/ ~Leaving /\ Prompts /\ UNCHANGED threadVars
    BY <1>10 DEF U_Reads, Leaving
  <2>2. cliPc = "wait" /\ tPc = "none" /\ toClient # <<>>
    BY <1>3, <1>10, <2>1 DEF U_Reads, Receives
  <2>3. reply.to = cliNumber
    BY <1>9, <2>1, <2>2 DEF Awaits, AwaitsAnswer, Transferring
  <2>4. ~misread' /\ ~wrongFile'
    BY <1>1, <2>1, <2>3 DEF Noted, Answers
  <2>5. CASE Leaving
    BY <2>1, <2>4, <2>5 DEF Exits, ThreadEnds, Exited
  <2>6. CASE ~Leaving
    <3>1. cPc \notin Server!Gone
      BY <1>2, <2>2, <2>6 DEF Own, OwnEnd
    <3>2. cliPc' = "prompt" /\ tPc' = "none"
      BY <2>1, <2>2, <2>6 DEF Prompts, threadVars
    <3>3. Own'
      BY <1>0, <1>2, <2>1, <2>4, <3>1, <3>2, LastRead DEF Reading, Transferring
    <3> QED BY <2>4, <3>2, <3>3 DEF Exited
  <2> QED BY <2>5, <2>6
<1>11. CASE T_Read227
  <2>1. PICK reply \in InTransit :
            /\ Receives(reply) /\ UNCHANGED cliVars /\ Noted(Answers(reply, tNumber))
            /\ tPc = "wait227" /\ tPc' \in {"prepare", "end"}
    BY <1>11 DEF T_Read227, ThreadReads
  <2>2. cliPc \in {"prompt", "alive", "dispatch"} /\ cliPc' = cliPc
    BY <1>3, <2>1 DEF cliVars
  <2>3. reply.to = tNumber
    BY <1>9, <2>1, <2>2 DEF Awaits, AwaitsAnswer, Transferring
  <2>4. ~misread' /\ ~wrongFile'
    BY <1>1, <2>1, <2>3 DEF Noted, Answers
  <2>5. Own'
    BY <1>0, <1>2, <1>3, <2>1, <2>2, <2>4, LastRead DEF Reading, Transferring
  <2> QED BY <2>2, <2>4, <2>5 DEF Exited
<1>12. CASE T_Read150
  <2>1. PICK reply \in InTransit :
            /\ Receives(reply) /\ UNCHANGED <<cliVars, tNumber>>
            /\ Noted(Answers(reply, tNumber)) /\ tPc = "wait150"
            /\ tPc' = IF reply.code = "150" THEN "open" ELSE "end"
            /\ tTransfer' = IF reply.code = "150" THEN reply.about ELSE tTransfer
            /\ abandoned' = abandoned + Abandons(reply)
    BY <1>12 DEF T_Read150, ThreadReads
  <2>2. cliPc \in {"prompt", "alive", "dispatch"} /\ cliPc' = cliPc
    BY <1>3, <2>1 DEF cliVars
  <2>3. reply.to = tNumber
    BY <1>9, <2>1, <2>2 DEF Awaits, AwaitsAnswer, Transferring
  <2>4. ~misread' /\ ~wrongFile'
    BY <1>1, <2>1, <2>3 DEF Noted, Answers
  <2>0. reply.code # "unhashed150"
    <3>1. abandoned = 0 /\ abandoned' = 0
      BY <1>1 DEF NoSurplus
    <3>2. Abandons(reply) = 0
      <4>1. Abandons(reply) \in {0, 1}
        BY DEF Abandons
      <4>2. abandoned' = abandoned + Abandons(reply)
        BY <2>1, Zenon
      <4> QED BY <3>1, <4>1, <4>2
    <3>3. reply.code = "unhashed150" => Abandons(reply) = 1
      BY Zenon DEF Abandons
    <3> QED BY <3>2, <3>3
  <2>5. CASE reply.code \in Preliminary
    <3>0. tPc' = "open" /\ tTransfer' = reply.about
      BY <2>0, <2>1, <2>5 DEF Preliminary
    <3>1. Own'
      BY <1>0, <1>2, <2>1, <2>5, <3>0, Read150
    <3> QED BY <2>2, <2>4, <3>1 DEF Exited
  <2>6. CASE reply.code \notin Preliminary
    <3>0. tPc' = "end"
      BY <2>1, <2>6 DEF Preliminary
    <3>1. Own'
      BY <1>0, <1>2, <1>3, <2>1, <2>2, <2>4, <2>6, <3>0, LastRead DEF Reading, Transferring
    <3> QED BY <2>2, <2>4, <3>1 DEF Exited
  <2> QED BY <2>5, <2>6
<1>13. CASE T_ReadFinal
  <2>1. PICK reply \in InTransit :
            /\ Receives(reply) /\ UNCHANGED cliVars /\ Noted(Final(reply))
            /\ tPc = "waitfinal" /\ tPc' = "end"
    BY <1>13 DEF T_ReadFinal, ThreadReads
  <2>2. cliPc \in {"prompt", "alive", "dispatch"} /\ cliPc' = cliPc
    BY <1>3, <2>1 DEF cliVars
  <2>3. Final(reply)
    BY <1>9, <2>1, <2>2 DEF Awaits, AwaitsAnswer, AboutTransfer, Final
  <2>4. ~misread' /\ ~wrongFile'
    BY <1>1, <2>1, <2>3 DEF Noted
  <2>5. Own'
    BY <1>0, <1>2, <1>3, <2>1, <2>2, <2>4, LastRead DEF Reading, Transferring
  <2> QED BY <2>2, <2>4, <2>5 DEF Exited
<1>14. CASE D_EndOfFile /\ T_EndOfFile
  BY <1>3, <1>14 DEF D_EndOfFile, T_EndOfFile, Closed, Reading
<1> QED
  BY <1>1, <1>4, <1>5, <1>6, <1>7, <1>8, <1>10, <1>11, <1>12, <1>13, <1>14
  DEF Client, CommandLine, Thread, DataPort, D_Open, D_Receives, D_EndOfFile

\* A step of the server leaves who waits for what as it is.
LEMMA SameWaiters ==
    ASSUME ClientStays
    PROVE  /\ UNCHANGED <<cliPc, line, cliNumber, tPc, tNumber, tTransfer, aborts,
                         abandoned, misread, wrongFile>>
           /\ \A n : AwaitsAnswer(n)' <=> AwaitsAnswer(n)
           /\ \A reply : Awaits(reply)' <=> Awaits(reply)
           /\ \A reply : AboutTransfer(reply)' <=> AboutTransfer(reply)
           /\ Leaving' <=> Leaving
           /\ OneWaits => OneWaits'
           /\ OwnTransfer => OwnTransfer'
<1>1. UNCHANGED <<cliPc, line, cliNumber, tPc, tNumber, tTransfer, aborts,
                  abandoned, misread, wrongFile>>
  BY DEF ClientStays, cliVars, threadVars, history
<1> QED
  BY <1>1
  DEF AwaitsAnswer, Awaits, AboutTransfer, Leaving, OneWaits, OwnTransfer

\* The server sends the one reply that is waited for.
LEMMA SendsOwnReply ==
    ASSUME TypeInv, Own, ClientStays, NEW reply, toClient' = Append(toClient, reply),
           toServer' = <<>>, Awaits(reply),
           \/ toClient = <<>>
           \/ AboutTransfer(reply) /\ reply.code \notin Preliminary
    PROVE  OwnReplies'
<1>1. toClient \in Seq(Replies) /\ Range(toClient') = Range(toClient) \cup {reply}
  BY AppendRange DEF TypeInv, ChannelOK
<1>2. \A r \in Range(toClient') : Awaits(r)'
  BY <1>1, SameWaiters DEF Own, OwnReplies
<1>3. CASE toClient = <<>>
  <2>1. DOMAIN toClient' = {1}
    BY <1>3
  <2>2. \A i \in DOMAIN toClient' : i = 1 /\ ~(i > 1)
    BY <2>1
  <2> QED BY <1>2, <2>2 DEF OwnReplies
<1>4. CASE AboutTransfer(reply) /\ reply.code \notin Preliminary
  <2>1. \A i \in DOMAIN toClient' :
            \/ i \in DOMAIN toClient /\ toClient'[i] = toClient[i]
            \/ toClient'[i] = reply
    BY <1>1
  <2>2. \A i \in DOMAIN toClient' : toClient'[i].code \in Preliminary => i = 1
    BY <1>4, <2>1 DEF Own, OwnReplies
  <2>3. tPc = "wait150" => \A i \in DOMAIN toClient' : i > 1 => AboutTransfer(toClient'[i])
    BY <1>4, <2>1 DEF Own, OwnReplies
  <2>4. tPc' = "wait150" => \A i \in DOMAIN toClient' : i > 1 => AboutTransfer(toClient[i])'
    BY <2>3, SameWaiters DEF AboutTransfer
  <2> QED BY <1>2, <2>2, <2>4 DEF OwnReplies
<1> QED BY <1>3, <1>4

LEMMA LoopInStep ==
    ASSUME ServerInv, TypeInv, Even, Alone, Numbering, InStep, LoopEffect
    PROVE  InStep'
<1> SUFFICES ASSUME NoSurplus'
             PROVE  /\ ~misread' /\ ~wrongFile'
                    /\ IF cliPc' \in Exited THEN tPc' = "none" ELSE Own'
  BY DEF InStep
<1>0. ClientStays /\ ChannelOK
  BY DEF LoopEffect, TypeInv
<1>1. /\ UNCHANGED <<cliPc, line, cliNumber, tPc, tNumber>>
      /\ ~misread /\ ~misread' /\ ~wrongFile' /\ NoSurplus
      /\ cliPc \in Exited => tPc' = "none"
  BY <1>0, SameWaiters DEF InStep, NoSurplus
<1> SUFFICES ASSUME cliPc \notin Exited PROVE Own'
  BY <1>1
<1>2. Own /\ OneWaits' /\ OwnTransfer'
  BY <1>0, <1>1, SameWaiters DEF InStep, Own
<1>3. cPc \notin Server!Gone /\ Live
  BY DEF LoopEffect, L_Answers, L_Starts, L_Stops, L_Handles, L_Leaves, Server!Gone,
         Handling, Live
<1>4. Supply <= 1
  BY <1>1, <1>2, <1>3, AtMostOne DEF Own
\* A command that the server takes is alone, and its sender waits for it.
<1>5. ASSUME NEW commands, Takes(commands)
      PROVE  /\ Request \in Range(toServer) /\ Request \in Messages
             /\ Request.command \in commands /\ AwaitsAnswer(Request.number)
             /\ Request.command \in Stops => cliPc = "wait" /\ Request.number = cliNumber
             /\ Request.command = "QUIT" => Leaving
             /\ toServer' = <<>> /\ toClient = <<>> /\ cPc = "idle" /\ ~Owes
  <2>1. /\ Request \in Range(toServer) /\ Request \in Messages
        /\ Request.command \in commands
        /\ toServer # <<>> /\ toServer' = Tail(toServer)
    BY <1>0, <1>5, TakesRange DEF Takes
  <2>2. /\ AwaitsAnswer(Request.number)
        /\ Request.command \in Stops => cliPc = "wait"
        /\ Request.command = "QUIT" => Leaving
        /\ toClient = <<>>
    BY <1>2, <2>1 DEF Own, OwnCommands, OwnReplies
  <2>3. cliPc = "wait" => Request.number = cliNumber
    BY <1>2, <2>2 DEF Own, OneWaits, AwaitsAnswer
  <2> QED BY <1>4, <2>1, <2>2, <2>3 DEF Alone
<1>6. CASE L_Answers
  <2>1. PICK code \in Codes \ Preliminary : Answered(code)
    BY <1>6 DEF L_Answers
  <2> DEFINE reply == [to |-> Request.number, code |-> code, about |-> Request.number]
  <2>2. /\ AwaitsAnswer(Request.number) /\ toServer' = <<>> /\ toClient = <<>> /\ ~Owes
        /\ Request.command = "QUIT" => Leaving /\ cliPc = "wait"
    BY <1>5, <1>6 DEF L_Answers, Stops
  <2>3. Awaits(reply) /\ toClient' = Append(toClient, reply)
    BY <2>1, <2>2 DEF Awaits, Answered
  <2> HIDE DEF reply
  <2>4. OwnReplies'
    BY <1>0, <1>2, <2>2, <2>3, SendsOwnReply
  <2>5. OwnCommands'
    BY <2>2 DEF OwnCommands, Range
  <2>6. OwnJob' /\ OwnAbort'
    BY <1>6, <2>2 DEF L_Answers, OwnJob, OwnAbort, Owes, Handling
  <2>7. OwnEnd'
    BY <1>0, <1>1, <1>6, <2>2, SameWaiters DEF L_Answers, OwnEnd, Server!Gone
  <2> QED BY <1>2, <2>4, <2>5, <2>6, <2>7 DEF Own
<1>7. CASE L_Starts
  <2>0. PICK code \in Preliminary : Answered(code)
    BY <1>7 DEF L_Starts
  <2> DEFINE reply == [to |-> Request.number, code |-> code, about |-> Request.number]
  <2>1. /\ AwaitsAnswer(Request.number) /\ toServer' = <<>> /\ toClient = <<>> /\ ~Owes
        /\ Request \in Range(toServer) /\ Request.command \in DataCommands
    BY <1>5, <1>7 DEF L_Starts
  <2>2. tPc = "wait150" /\ Request.number = tNumber
    BY <2>1 DEF AwaitsAnswer, Numbering, NotData
  <2>3. Awaits(reply) /\ toClient' = Append(toClient, reply)
    BY <2>0, <2>2 DEF Awaits, Answered
  <2> HIDE DEF reply
  <2>4. OwnReplies'
    BY <1>0, <1>2, <2>1, <2>3, SendsOwnReply
  <2>5. OwnCommands'
    BY <2>1 DEF OwnCommands, Range
  <2>6. OwnJob'
    <3>1. \A j \in Server!Jobs :
              wPc'[j] \in Owing => j = started' \/ wPc[j] \in Owing
      BY <1>7 DEF L_Starts, ServerInv, Server!TypeOK
    <3>2. \A j \in Server!Jobs : j = started' => request'[j] = Request.number
      BY <1>7 DEF L_Starts, TypeInv, LoopOK
    <3> QED BY <1>1, <2>1, <2>2, <3>1, <3>2 DEF OwnJob, Owes
  <2>7. OwnAbort' /\ OwnEnd'
    BY <1>7 DEF L_Starts, OwnAbort, OwnEnd, Handling, Server!Gone
  <2> QED BY <1>2, <2>4, <2>5, <2>6, <2>7 DEF Own
<1>8. CASE L_Stops
  <2>1. /\ toServer' = <<>> /\ toClient = <<>> /\ ~Owes
        /\ cliPc = "wait" /\ Request.number = cliNumber
        /\ Request.command = "QUIT" => Leaving
    BY <1>5, <1>8 DEF L_Stops
  <2>2. toClient' = <<>> /\ Range(toClient') = {} /\ DOMAIN toClient' = {}
        /\ Range(toServer') = {}
    BY <1>8, <2>1 DEF L_Stops, Range
  <2>3. OwnReplies' /\ OwnCommands'
    BY <2>1, <2>2 DEF OwnReplies, OwnCommands
  <2>4. OwnJob' /\ OwnEnd'
    BY <1>8, <2>1 DEF L_Stops, OwnJob, OwnEnd, Owes, Server!Gone
  <2>5. OwnAbort'
    BY <1>0, <1>1, <1>8, <2>1, SameWaiters DEF L_Stops, OwnAbort
  <2> QED BY <1>2, <2>3, <2>4, <2>5 DEF Own
<1>9. CASE L_Handles
  <2>1. /\ cPc \in Handling /\ cPc # "idle"
        /\ cliPc = "wait" /\ tPc = "none" /\ serving = cliNumber
        /\ command = "QUIT" => Leaving
    BY <1>2, <1>9 DEF L_Handles, Handling, Own, OwnAbort, OneWaits
  <2>2. toServer = <<>> /\ Quiet /\ toServer' = <<>>
    BY <1>4, <1>9, <2>1 DEF Alone, L_Handles
  <2>3. toClient = <<>>
    BY <1>2, <2>1, <2>2, NothingElse DEF Own
  <2>4. OwnCommands'
    BY <2>2 DEF OwnCommands, Range
  <2>5. OwnJob'
    BY <1>1, <1>2, <1>9 DEF L_Handles, loopVars, Own, OwnJob
  <2>6. CASE cPc = "reply"
    <3>1. /\ toClient' = Append(toClient, HandlerReply)
          /\ cPc' = IF command = "ABOR" THEN "idle" ELSE "closed"
      BY <1>9, <2>6 DEF L_Handles
    <3>2. Awaits(HandlerReply)
      BY <2>1 DEF Awaits, AwaitsAnswer, HandlerReply, Preliminary
    <3>3. OwnReplies'
      BY <1>0, <1>2, <2>2, <2>3, <3>1, <3>2, SendsOwnReply
    <3>4. command \in {"ABOR", "QUIT"}
      BY DEF ServerInv, Server!TypeOK
    <3>5. OwnAbort' /\ OwnEnd'
      BY <1>0, <1>1, <2>1, <3>1, <3>4, SameWaiters
      DEF OwnAbort, OwnEnd, Handling, Server!Gone
    <3> QED BY <1>2, <2>4, <2>5, <3>3, <3>5 DEF Own
  <2>7. CASE cPc # "reply"
    <3>1. /\ toClient' = <<>> /\ cPc' \in Handling \cup {"crashed"}
          /\ UNCHANGED <<serving, command>>
      BY <1>9, <2>3, <2>7 DEF L_Handles, loopVars
    <3>2. OwnReplies'
      BY <2>2, <3>1 DEF OwnReplies, Range
    <3>3. OwnAbort' /\ OwnEnd'
      BY <1>0, <1>1, <2>1, <3>1, SameWaiters DEF OwnAbort, OwnEnd
    <3> QED BY <1>2, <2>4, <2>5, <3>2, <3>3 DEF Own
  <2> QED BY <2>6, <2>7
<1>10. CASE L_Leaves
  BY <1>10 DEF L_Leaves
<1> QED BY <1>6, <1>7, <1>8, <1>9, <1>10 DEF LoopEffect

LEMMA WorkerInStep ==
    ASSUME ServerInv, TypeInv, Even, Alone, InStep, NEW j \in Server!Jobs, S_Worker(j)
    PROVE  InStep'
<1> SUFFICES ASSUME NoSurplus'
             PROVE  /\ ~misread' /\ ~wrongFile'
                    /\ IF cliPc' \in Exited THEN tPc' = "none" ELSE Own'
  BY DEF InStep
<1>0. /\ ClientStays /\ UNCHANGED <<toServer, sent, loopVars, cPc, command>>
      /\ wPc' = [wPc EXCEPT ![j] = wPc'[j]]
      /\ WorkerEffect(j)
  BY WorkerStep DEF ServerInv
<1>1. /\ UNCHANGED <<cliPc, line, cliNumber, tPc, tNumber>>
      /\ ~misread /\ ~misread' /\ ~wrongFile' /\ NoSurplus
      /\ cliPc \in Exited => tPc' = "none"
  BY <1>0, SameWaiters DEF InStep, NoSurplus
<1> SUFFICES ASSUME cliPc \notin Exited PROVE Own'
  BY <1>1
<1>2. Own /\ OneWaits' /\ OwnTransfer'
  BY <1>0, <1>1, SameWaiters DEF InStep, Own
<1>3. OwnCommands' /\ OwnAbort'
  BY <1>0, <1>1, <1>2, SameWaiters DEF Own, OwnCommands, OwnAbort, loopVars
<1>4. OwnJob'
  <2>1. \A k \in Server!Jobs : wPc'[k] \in Owing => wPc[k] \in Owing
    <3>1. wPc'[j] \in Owing => wPc[j] \in Owing
      BY <1>0
      DEF WorkerEffect, Owing, Undecided, Server!Running, Server!Beginning
    <3>2. \A k \in Server!Jobs : k # j => wPc'[k] = wPc[k]
      BY <1>0 DEF ServerInv, Server!TypeOK
    <3> QED BY <3>1, <3>2
  <2> QED BY <1>0, <1>1, <1>2, <2>1 DEF Own, OwnJob, loopVars
<1>5. CASE toClient' = toClient
  <2>1. OwnReplies'
    BY <1>0, <1>1, <1>2, <1>5, SameWaiters DEF Own, OwnReplies
  <2>2. OwnEnd'
    BY <1>0, <1>1, <1>2, <1>5, SameWaiters DEF Own, OwnEnd
  <2> QED BY <1>2, <1>3, <1>4, <2>1, <2>2 DEF Own
<1>6. CASE /\ wPc[j] = "reply" /\ cPc \notin Server!Gone
           /\ toClient' = Append(toClient, FinalReply(j))
  <2>1. Live /\ Owes
    BY <1>6 DEF Live, Owes, Owing
  <2>2. toServer' = <<>>
    BY <1>0, <1>1, <1>2, <2>1, AtMostOne DEF Alone, Own
  <2>3. request[j] = tNumber /\ tPc \in {"wait150", "waitfinal"} \cup Transferring
    BY <1>2, <1>6 DEF Own, OwnJob, Owing
  <2>4. AboutTransfer(FinalReply(j)) /\ FinalReply(j).code \notin Preliminary
        /\ Awaits(FinalReply(j))
    BY <2>3 DEF AboutTransfer, Awaits, AwaitsAnswer, FinalReply, Preliminary
  <2>5. OwnReplies'
    BY <1>0, <1>2, <1>6, <2>2, <2>4, SendsOwnReply
  <2>6. OwnEnd'
    BY <1>0, <1>6 DEF OwnEnd
  <2> QED BY <1>2, <1>3, <1>4, <2>5, <2>6 DEF Own
<1> QED BY <1>0, <1>5, <1>6 DEF WorkerEffect

LEMMA InStepInvariance ==
    SystemSpec => [](ServerInv /\ TypeInv /\ ClientInv /\ Numbering /\ InStep)
<1> DEFINE Known == ServerInv /\ TypeInv /\ ClientInv /\ Numbering /\ Alone /\ Even
<1>1. ServerInv /\ TypeInv /\ ClientInv /\ Sums /\ Numbering /\ Balance => Known
  BY AloneHolds, EvenHolds
<1>2. SystemSpec => []Known
  BY BalanceInvariance, <1>1, PTL
<1>3. Known /\ Known' /\ InStep /\ [SystemNext]_systemVars => InStep'
  <2> SUFFICES ASSUME Known, Known', InStep, [SystemNext]_systemVars PROVE InStep'
    OBVIOUS
  <2>1. CASE Client \/ DataPort
    BY <2>1, ClientInStep
  <2>2. CASE CommandLoop
    BY <2>2, CommandLoopEffect, LoopInStep DEF TypeInv
  <2>3. CASE \E j \in Server!Jobs : S_Worker(j)
    BY <2>3, WorkerInStep
  <2>4. CASE Resting \/ UNCHANGED systemVars
    BY <2>4
    DEF Resting, systemVars, clientVars, vars, channel, cliVars, threadVars, history,
        sessionVars, loopVars, InStep, Own, OneWaits, OwnCommands, OwnReplies, OwnJob,
        OwnAbort, OwnEnd, OwnTransfer, Awaits, AwaitsAnswer, AboutTransfer, Leaving,
        NoSurplus
  <2> QED BY <2>1, <2>2, <2>3, <2>4 DEF SystemNext
<1> QED BY <1>2, <1>3, InStepInit, PTL DEF SystemSpec

(* As long as no ABOR is sent into a transfer, and no thread ends between  *)
(* its 150 and the final reply, command line and transfer thread read the  *)
(* replies to their own commands, though nothing but the order of the      *)
(* replies tells them apart, and a download saves the file that its        *)
(* command named.                                                          *)
THEOREM InStepTillSurplus == SystemSpec => []InStepWithoutSurplus
<1>1. InStep => InStepWithoutSurplus
  BY DEF InStep, InStepWithoutSurplus, NoSurplus
<1> QED BY InStepInvariance, <1>1, PTL

-------------------------------------------------------------------------------
(* The order of commands and answers.  Commands are taken in the order of  *)
(* their numbers, so what is still to be taken comes after all that has    *)
(* been answered, and a command whose answer is 227 has no other.          *)

Increasing(queue) ==
    \A i, k \in DOMAIN queue : i < k => queue[i].number < queue[k].number

Single(queue) ==
    \A i, k \in DOMAIN queue :
        queue[i].code = "227" /\ queue[k].to = queue[i].to => k = i

Later ==
    \A m \in Range(toServer) :
        /\ \A reply \in Range(toClient) : reply.to < m.number
        /\ \A j \in Server!Jobs : request[j] < m.number
        /\ serving < m.number

OnlyAnswer ==
    \A reply \in Range(toClient) :
        reply.code = "227" =>
            /\ \A j \in Server!Jobs : request[j] # reply.to
            /\ cPc \in Handling => serving # reply.to

Sequencing == Increasing(toServer) /\ Later /\ Single(toClient) /\ OnlyAnswer

LEMMA IncreasingAppend ==
    ASSUME NEW S, NEW queue \in Seq(S), NEW m, Increasing(queue),
           \A e \in Range(queue) : e.number < m.number
    PROVE  Increasing(Append(queue, m))
<1> SUFFICES ASSUME NEW i \in DOMAIN Append(queue, m),
                    NEW k \in DOMAIN Append(queue, m), i < k
             PROVE  Append(queue, m)[i].number < Append(queue, m)[k].number
  BY DEF Increasing
<1>1. i \in DOMAIN queue /\ Append(queue, m)[i] = queue[i] /\ queue[i] \in Range(queue)
  BY DEF Range
<1>2. \/ k \in DOMAIN queue /\ Append(queue, m)[k] = queue[k]
      \/ Append(queue, m)[k] = m
  OBVIOUS
<1> QED BY <1>1, <1>2 DEF Increasing

LEMMA IncreasingTail ==
    ASSUME NEW S, NEW queue \in Seq(S), queue # <<>>, Increasing(queue)
    PROVE  /\ Increasing(Tail(queue))
           /\ \A e \in Range(Tail(queue)) : Head(queue).number < e.number
           /\ Range(Tail(queue)) \subseteq Range(queue)
<1>1. \A i \in DOMAIN Tail(queue) :
          i \in Nat /\ i + 1 \in DOMAIN queue /\ 1 < i + 1 /\ Tail(queue)[i] = queue[i + 1]
  OBVIOUS
<1>2. 1 \in DOMAIN queue /\ Head(queue) = queue[1]
  OBVIOUS
<1>3. \A i, k \in DOMAIN Tail(queue) : i < k => i + 1 < k + 1
  BY <1>1
<1> QED BY <1>1, <1>2, <1>3 DEF Increasing, Range

LEMMA SingleAppend ==
    ASSUME NEW S, NEW queue \in Seq(S), NEW r, Single(queue),
           \A e \in Range(queue) : e.code = "227" \/ r.code = "227" => e.to # r.to
    PROVE  Single(Append(queue, r))
<1> SUFFICES ASSUME NEW i \in DOMAIN Append(queue, r),
                    NEW k \in DOMAIN Append(queue, r),
                    Append(queue, r)[i].code = "227",
                    Append(queue, r)[k].to = Append(queue, r)[i].to
             PROVE  k = i
  BY DEF Single
<1>1. \A n \in DOMAIN Append(queue, r) :
          \/ n \in DOMAIN queue /\ Append(queue, r)[n] = queue[n]
             /\ queue[n] \in Range(queue)
          \/ n = Len(queue) + 1 /\ Append(queue, r)[n] = r
  BY DEF Range
<1> QED BY <1>1 DEF Single

LEMMA SingleTail ==
    ASSUME NEW S, NEW queue \in Seq(S), queue # <<>>, Single(queue)
    PROVE  /\ Single(Tail(queue))
           /\ \A e \in Range(Tail(queue)) : e.code = "227" => e.to # Head(queue).to
<1>1. \A i \in DOMAIN Tail(queue) :
          i \in Nat /\ i + 1 \in DOMAIN queue /\ i + 1 # 1 /\ Tail(queue)[i] = queue[i + 1]
  OBVIOUS
<1>2. 1 \in DOMAIN queue /\ Head(queue) = queue[1]
  OBVIOUS
<1>3. \A i, k \in DOMAIN Tail(queue) : i + 1 = k + 1 => i = k
  BY <1>1
<1> QED BY <1>1, <1>2, <1>3 DEF Single, Range

LEMMA SequencingInit == SystemInit => Sequencing
<1> SUFFICES ASSUME SystemInit PROVE Sequencing
  OBVIOUS
<1>1. /\ DOMAIN toServer = {} /\ DOMAIN toClient = {}
      /\ Range(toServer) = {} /\ Range(toClient) = {}
  BY DEF SystemInit, Init, Range
<1> QED BY <1>1 DEF Sequencing, Increasing, Later, Single, OnlyAnswer

LEMMA ClientSequencing ==
    ASSUME TypeInv, Numbering, Sequencing, UNCHANGED <<serving, request, cPc>>,
           ClientEffect
    PROVE  Sequencing'
<1>0. ChannelOK /\ Issued
  BY DEF TypeInv, Numbering
<1>1. CASE \E c : Sends(c)
  <2>1. PICK c : Sends(c)
    BY <1>1
  <2> DEFINE m == [command |-> c, number |-> sent']
  <2>2. /\ Range(toServer') = Range(toServer) \cup {m} /\ toClient' = toClient
        /\ toServer' = Append(toServer, m) /\ toServer \in Seq(Messages)
        /\ m.number = sent + 1
    BY <1>0, <2>1, SendsRange DEF ChannelOK, Sends
  <2> HIDE DEF m
  <2>3. /\ \A e \in Range(toServer) : e.number < m.number
        /\ \A reply \in Range(toClient) : reply.to < m.number
        /\ \A j \in Server!Jobs : request[j] < m.number
        /\ serving < m.number
    BY <1>0, <2>2, NaturalNumbers DEF Issued
  <2>4. Increasing(toServer')
    BY <2>2, <2>3, IncreasingAppend DEF Sequencing
  <2> QED BY <2>2, <2>3, <2>4 DEF Sequencing, Later, OnlyAnswer
<1>2. CASE \E reply : Receives(reply)
  <2>1. /\ toClient \in Seq(Replies) /\ toClient # <<>> /\ toClient' = Tail(toClient)
        /\ toServer' = toServer /\ Range(toClient') \subseteq Range(toClient)
    BY <1>0, <1>2, ReceivesRange DEF ChannelOK, Receives
  <2>2. Single(toClient')
    BY <2>1, SingleTail DEF Sequencing
  <2> QED BY <2>1, <2>2 DEF Sequencing, Later, OnlyAnswer
<1>3. CASE UNCHANGED channel
  BY <1>3 DEF channel, Sequencing, Later, OnlyAnswer
<1> QED BY <1>1, <1>2, <1>3 DEF ClientEffect

\* The next command is answered, or becomes the one to be carried out.
LEMMA TakesSequencing ==
    ASSUME TypeInv, Sequencing, NEW commands, Takes(commands),
           \/ toClient' = toClient
           \/ \E r : r.to = Request.number /\ toClient' = Append(toClient, r),
           \A j \in Server!Jobs : request'[j] \in {request[j], Request.number},
           serving' \in {serving, Request.number},
           cPc' \in Handling => serving' = Request.number /\ toClient' = toClient,
           request' # request => \A reply \in Range(toClient') :
                reply.code = "227" => reply \in Range(toClient)
    PROVE  Sequencing'
<1>1. /\ toServer \in Seq(Messages) /\ toServer # <<>> /\ toServer' = Tail(toServer)
      /\ toClient \in Seq(Replies)
      /\ Request \in Range(toServer) /\ Request = Head(toServer)
  BY TakesRange DEF TypeInv, ChannelOK, Takes, Request
<1>2. /\ Increasing(toServer') /\ Range(toServer') \subseteq Range(toServer)
      /\ \A m \in Range(toServer') : Request.number < m.number
  BY <1>1, IncreasingTail DEF Sequencing
<1>3. \A reply \in Range(toClient) : reply.to < Request.number /\ reply.to # Request.number
  <2>1. \A reply \in Range(toClient) : reply.to < Request.number
    BY <1>1 DEF Sequencing, Later
  <2>2. Request.number \in Nat /\ \A reply \in Range(toClient) : reply.to \in Nat
    BY <1>1, NaturalNumbers
  <2> QED BY <2>1, <2>2
<1>4. /\ \A j \in Server!Jobs : request[j] < Request.number /\ request[j] # Request.number
  <2>1. \A j \in Server!Jobs : request[j] < Request.number
    BY <1>1 DEF Sequencing, Later
  <2>2. Request.number \in Nat /\ \A j \in Server!Jobs : request[j] \in Nat
    BY <1>1, NaturalNumbers
  <2> QED BY <2>1, <2>2
<1>5. Single(toClient') /\ \A reply \in Range(toClient') :
          reply \in Range(toClient) \/ reply.to = Request.number
  <2>1. CASE toClient' = toClient
    BY <2>1 DEF Sequencing
  <2>2. CASE \E r : r.to = Request.number /\ toClient' = Append(toClient, r)
    <3>1. PICK r : r.to = Request.number /\ toClient' = Append(toClient, r)
      BY <2>2
    <3>2. Range(toClient') = Range(toClient) \cup {r}
      BY <1>1, <3>1, AppendRange
    <3>3. Single(toClient')
      BY <1>1, <1>3, <3>1, SingleAppend DEF Sequencing
    <3> QED BY <3>1, <3>2, <3>3
  <2> QED BY <2>1, <2>2
<1>6. Later'
  <2> SUFFICES ASSUME NEW m \in Range(toServer')
               PROVE  /\ \A reply \in Range(toClient') : reply.to < m.number
                      /\ \A j \in Server!Jobs : request'[j] < m.number
                      /\ serving' < m.number
    BY DEF Later
  <2>1. m \in Range(toServer) /\ Request.number < m.number
    BY <1>2
  <2> QED BY <1>5, <2>1 DEF Sequencing, Later
<1>7. OnlyAnswer'
  <2> SUFFICES ASSUME NEW reply \in Range(toClient'), reply.code = "227"
               PROVE  /\ \A j \in Server!Jobs : request'[j] # reply.to
                      /\ cPc' \in Handling => serving' # reply.to
    BY DEF OnlyAnswer
  <2>1. CASE reply \in Range(toClient)
    BY <1>3, <2>1 DEF Sequencing, OnlyAnswer
  <2>2. CASE reply \notin Range(toClient)
    <3>1. reply.to = Request.number /\ request' = request
      BY <1>5, <2>2
    <3> QED BY <1>4, <2>2, <3>1
  <2> QED BY <2>1, <2>2
<1> QED BY <1>2, <1>5, <1>6, <1>7 DEF Sequencing

\* A handler or a worker replies to what was taken before.
LEMMA RepliesSequencing ==
    ASSUME TypeInv, Sequencing, UNCHANGED <<toServer, serving, request>>,
           cPc' \in Handling => cPc \in Handling,
           \/ toClient' = toClient
           \/ \E r : /\ toClient' = Append(toClient, r) /\ r.code # "227"
                     /\ \/ cPc \in Handling /\ r.to = serving
                        \/ \E j \in Server!Jobs : r.to = request[j]
    PROVE  Sequencing'
<1>1. CASE toClient' = toClient
  BY <1>1 DEF Sequencing, Later, OnlyAnswer
<1>2. CASE toClient' # toClient
  <2>1. PICK r :
            /\ toClient' = Append(toClient, r) /\ r.code # "227"
            /\ \/ cPc \in Handling /\ r.to = serving
               \/ \E j \in Server!Jobs : r.to = request[j]
    BY <1>2
  <2>2. /\ toClient \in Seq(Replies)
        /\ Range(toClient') = Range(toClient) \cup {r}
    BY <2>1, AppendRange DEF TypeInv, ChannelOK
  <2>3. Single(toClient')
    BY <2>1, <2>2, SingleAppend DEF Sequencing, OnlyAnswer
  <2>4. Later' /\ OnlyAnswer'
    BY <2>1, <2>2 DEF Sequencing, Later, OnlyAnswer
  <2> QED BY <2>1, <2>3, <2>4 DEF Sequencing
<1> QED BY <1>1, <1>2

LEMMA LoopSequencing ==
    ASSUME ServerInv, TypeInv, Sequencing, LoopEffect
    PROVE  Sequencing'
<1>1. CASE L_Answers
  <2>1. PICK code \in Codes \ Preliminary : Answered(code)
    BY <1>1 DEF L_Answers
  <2> DEFINE r == [to |-> Request.number, code |-> code, about |-> Request.number]
  <2>2. r.to = Request.number /\ toClient' = Append(toClient, r)
    BY <2>1 DEF Answered
  <2> HIDE DEF r
  <2>3. /\ Takes(Lines) /\ UNCHANGED <<serving, request>> /\ cPc' \notin Handling
    BY <1>1 DEF L_Answers, Handling
  <2> QED BY <2>2, <2>3, TakesSequencing
<1>2. CASE L_Starts
  <2>0. PICK code \in Preliminary : Answered(code)
    BY <1>2 DEF L_Starts
  <2> DEFINE r == [to |-> Request.number, code |-> code, about |-> Request.number]
  <2>1. /\ r.to = Request.number /\ toClient' = Append(toClient, r)
        /\ r.code # "227"
    BY <2>0 DEF Answered, Preliminary
  <2> HIDE DEF r
  <2>2. Range(toClient') = Range(toClient) \cup {r}
    BY <2>1, AppendRange DEF TypeInv, ChannelOK
  <2>3. /\ Takes(DataCommands) /\ UNCHANGED serving /\ cPc' \notin Handling
        /\ \A j \in Server!Jobs : request'[j] \in {request[j], Request.number}
    BY <1>2 DEF L_Starts, Handling, TypeInv, LoopOK
  <2> QED BY <2>1, <2>2, <2>3, TakesSequencing
<1>3. CASE L_Stops
  <2>1. /\ Takes(Stops) /\ UNCHANGED <<toClient, request>> /\ serving' = Request.number
    BY <1>3 DEF L_Stops
  <2> QED BY <2>1, TakesSequencing
<1>4. CASE L_Handles
  <2>1. /\ UNCHANGED <<toServer, serving, request>> /\ cPc \in Handling
        /\ toClient' = toClient \/ toClient' = Append(toClient, HandlerReply)
    BY <1>4 DEF L_Handles, loopVars
  <2>2. HandlerReply.code # "227" /\ HandlerReply.to = serving
    BY DEF HandlerReply
  <2> QED BY <2>1, <2>2, RepliesSequencing
<1>5. CASE L_Leaves
  BY <1>5, RepliesSequencing DEF L_Leaves, channel, loopVars, Handling
<1> QED BY <1>1, <1>2, <1>3, <1>4, <1>5 DEF LoopEffect

LEMMA WorkerSequencing ==
    ASSUME ServerInv, TypeInv, Sequencing, NEW j \in Server!Jobs, S_Worker(j)
    PROVE  Sequencing'
<1>1. /\ UNCHANGED <<toServer, serving, request, cPc>>
      /\ toClient' = toClient \/ toClient' = Append(toClient, FinalReply(j))
  BY WorkerStep DEF ServerInv, loopVars, WorkerEffect
<1>2. FinalReply(j).to = request[j] /\ FinalReply(j).code # "227"
  BY DEF FinalReply
<1> QED BY <1>1, <1>2, RepliesSequencing

LEMMA SequencingInvariance == SystemSpec => [](ServerInv /\ TypeInv /\ Sequencing)
<1> DEFINE Known == ServerInv /\ TypeInv /\ Numbering
<1>1. SystemSpec => []Known
  BY TypeInvariance, NumberingInvariance, PTL
<1>2. Known /\ Sequencing /\ [SystemNext]_systemVars => Sequencing'
  <2> SUFFICES ASSUME Known, Sequencing, [SystemNext]_systemVars PROVE Sequencing'
    OBVIOUS
  <2>1. CASE Client \/ DataPort
    <3>1. ClientEffect /\ UNCHANGED <<serving, request, cPc>>
      BY <2>1, CommandLineEffect, ThreadEffect
      DEF Client, DataPort, D_Open, D_Receives, D_EndOfFile, ServerStays, loopVars,
          sessionVars
    <3> QED BY <3>1, ClientSequencing
  <2>2. CASE CommandLoop
    BY <2>2, CommandLoopEffect, LoopSequencing DEF TypeInv
  <2>3. CASE \E j \in Server!Jobs : S_Worker(j)
    BY <2>3, WorkerSequencing
  <2>4. CASE Resting \/ UNCHANGED systemVars
    BY <2>4, RepliesSequencing
    DEF Resting, systemVars, clientVars, vars, channel, sessionVars, loopVars
  <2> QED BY <2>1, <2>2, <2>3, <2>4 DEF SystemNext
<1> QED BY SequencingInit, <1>1, <1>2, PTL DEF SystemSpec

-------------------------------------------------------------------------------
(* The data port.  Whoever has sent a PASV or a PORT waits for its answer  *)
(* and nothing else may ask meanwhile, so an answer that is read is the    *)
(* last word of the server on the address.                                 *)

Ports == {"PASV", "PORT"}

Asks(asked, number) ==
    \/ cliPc = "wait" /\ line = asked /\ number = cliNumber
    \/ asked = "PASV" /\ tPc = "wait227" /\ number = tNumber

PortCommands ==
    cPc \notin Server!Gone =>
        \A m \in Range(toServer) :
            /\ m.command \in Ports => Asks(m.command, m.number)
            /\ Asks("PORT", m.number) => m.command = "PORT"

PortReplies ==
    \A reply \in Range(toClient) :
        /\ reply.code = "227" => Asks("PASV", reply.to) /\ address = reply.to
        /\ reply.code = "200" /\ Asks("PORT", reply.to) => address = reply.to

Rebinding == cliPc = "wait" /\ line = "PORT"

PortBound == Rebinding => socket = cliNumber

Unread227 == \E reply \in Range(toClient) : reply.code = "227"

PortAgreed ==
    socket \notin {NoSocket, Unbound} /\ ~portRefused /\ ~Rebinding /\ ~Unread227 =>
        socket = address

PortKept == PortCommands /\ PortReplies /\ PortBound /\ PortAgreed

PortInv == IF cliPc \in Exited THEN tPc = "none" ELSE ~misread => PortKept

LEMMA PortInvInit == SystemInit => PortInv
<1> SUFFICES ASSUME SystemInit PROVE PortKept /\ cliPc \notin Exited
  BY DEF PortInv
<1>1. Range(toServer) = {} /\ Range(toClient) = {} /\ cliPc = "prompt"
      /\ socket = NoSocket
  BY DEF SystemInit, Init, Range
<1> QED
  BY <1>1
  DEF PortKept, PortCommands, PortReplies, PortBound, PortAgreed, Rebinding, Exited

LEMMA AsksOnce ==
    ASSUME ClientInv, NEW c \in Ports, NEW d \in Ports, NEW n, NEW m,
           Asks(c, n), Asks(d, m)
    PROVE  c = d /\ n = m
  BY DEF ClientInv, NoThreadMeanwhile, Asks, Ports

\* Steps of the client that have nothing to do with PASV and PORT.
SamePorts ==
    /\ \A c \in Ports : \A n : Asks(c, n)' <=> Asks(c, n)
    /\ Rebinding' <=> Rebinding
    /\ Rebinding => UNCHANGED <<socket, cliNumber>>
    /\ socket' \in {socket, NoSocket, Unbound} /\ portRefused' = portRefused
    /\ UNCHANGED <<address, cPc>>
    /\ \/ UNCHANGED channel
       \/ \E c \in Lines \ Ports : Sends(c)
       \/ \E reply : Receives(reply) /\ reply.code # "227"

LEMMA SamePortsKept ==
    ASSUME TypeInv, Numbering, PortKept, SamePorts
    PROVE  PortKept'
<1>0. /\ ChannelOK /\ Issued /\ "PASV" \in Ports /\ "PORT" \in Ports
      /\ PortCommands /\ PortReplies /\ PortBound /\ PortAgreed
  BY DEF TypeInv, Numbering, Ports, PortKept
<1>1. /\ Range(toClient') \subseteq Range(toClient)
      /\ Unread227 => Unread227'
      /\ sent' = sent \/ sent' = sent + 1
      /\ \A m \in Range(toServer') :
            \/ m \in Range(toServer)
            \/ m.number = sent + 1 /\ m.command \notin Ports
  <2>1. CASE UNCHANGED channel
    BY <2>1 DEF channel, Unread227
  <2>2. CASE \E c \in Lines \ Ports : Sends(c)
    <3>1. PICK c \in Lines \ Ports : Sends(c)
      BY <2>2
    <3>2. /\ Range(toServer') =
                 Range(toServer) \cup {[command |-> c, number |-> sent']}
          /\ toClient' = toClient /\ sent' = sent + 1
      BY <1>0, <3>1, SendsRange
    <3> QED BY <3>2 DEF Unread227
  <2>3. CASE \E reply : Receives(reply) /\ reply.code # "227"
    <3>1. PICK reply : Receives(reply) /\ reply.code # "227"
      BY <2>3
    <3>2. /\ Range(toClient') \subseteq Range(toClient)
          /\ toServer' = toServer /\ sent' = sent
          /\ toClient \in Seq(Replies) /\ toClient # <<>> /\ reply = Head(toClient)
          /\ toClient' = Tail(toClient)
      BY <1>0, <3>1, ReceivesRange DEF Receives, ChannelOK
    <3>3. Range(toClient) \subseteq Range(toClient') \cup {reply}
      <4>1. \A i \in DOMAIN toClient :
                \/ toClient[i] = reply
                \/ i - 1 \in DOMAIN Tail(toClient) /\ Tail(toClient)[i - 1] = toClient[i]
        BY <3>2
      <4> QED BY <3>2, <4>1 DEF Range
    <3> QED BY <3>1, <3>2, <3>3 DEF Unread227
  <2> QED BY <2>1, <2>2, <2>3 DEF SamePorts
<1>2. PortCommands'
  <2> SUFFICES ASSUME cPc' \notin Server!Gone, NEW m \in Range(toServer')
               PROVE  /\ m.command \in Ports => Asks(m.command, m.number)'
                      /\ Asks("PORT", m.number)' => m.command = "PORT"
    BY DEF PortCommands
  <2>1. CASE m \in Range(toServer)
    BY <1>0, <2>1 DEF PortCommands, SamePorts
  <2>2. CASE m.number = sent + 1 /\ m.command \notin Ports
    <3>1. ~Asks("PORT", m.number)
      BY <1>0, <2>2, NaturalNumbers DEF Issued, Asks
    <3> QED BY <1>0, <2>2, <3>1 DEF SamePorts
  <2> QED BY <1>1, <2>1, <2>2
<1>3. PortReplies'
  BY <1>0, <1>1 DEF PortReplies, SamePorts
<1>4. PortBound'
  BY <1>0 DEF PortBound, SamePorts
<1>5. PortAgreed'
  BY <1>0, <1>1 DEF PortAgreed, SamePorts
<1> QED BY <1>2, <1>3, <1>4, <1>5 DEF PortKept

\* While nobody asks, there is neither a question nor an answer.
LEMMA NobodyAsks ==
    ASSUME PortKept, \A c \in Ports : \A n : ~Asks(c, n)
    PROVE  /\ cPc \notin Server!Gone => \A m \in Range(toServer) : m.command \notin Ports
           /\ ~Unread227 /\ ~Rebinding
  BY DEF PortKept, PortCommands, PortReplies, Ports, Unread227, Rebinding, Asks

LEMMA AsksKept ==
    ASSUME TypeInv, Numbering, PortKept, UNCHANGED <<address, cPc, portRefused>>,
           \A c \in Ports : \A n : ~Asks(c, n),
           NEW c \in Ports, Sends(c),
           \A d \in Ports : \A n : Asks(d, n)' <=> d = c /\ n = sent',
           IF c = "PORT" THEN socket' = sent' /\ cliNumber' = sent' ELSE socket' = socket,
           Rebinding' <=> c = "PORT"
    PROVE  PortKept'
<1>1. /\ Range(toServer') = Range(toServer) \cup {[command |-> c, number |-> sent']}
      /\ toClient' = toClient /\ sent' = sent + 1
  BY SendsRange DEF TypeInv
<1>2. /\ \A m \in Range(toServer) : m.number # sent'
      /\ \A reply \in Range(toClient) : reply.to # sent'
      /\ "PORT" \in Ports
  BY <1>1, NaturalNumbers DEF Numbering, Issued, Ports
<1>3. /\ cPc \notin Server!Gone => \A m \in Range(toServer) : m.command \notin Ports
      /\ ~Unread227 /\ ~Rebinding
  BY NobodyAsks
<1>4. PortCommands'
  BY <1>1, <1>2, <1>3 DEF PortCommands
<1>5. PortReplies'
  BY <1>1, <1>2, <1>3 DEF PortReplies, Unread227
<1>6. PortBound'
  BY DEF PortBound
<1>7. PortAgreed'
  BY <1>1, <1>3 DEF PortKept, PortAgreed, Unread227, Ports
<1> QED BY <1>4, <1>5, <1>6, <1>7 DEF PortKept

\* The one that asks reads the answer.
LEMMA AnswerKept ==
    ASSUME ClientInv, TypeInv, Sequencing, PortKept, UNCHANGED <<address, cPc>>,
           NEW c \in Ports, NEW reply, Asks(c, reply.to), Receives(reply),
           \A d \in Ports : \A n : ~Asks(d, n)', ~Rebinding',
           \/ c = "PASV" /\ reply.code = "227" /\ socket' = reply.to
           \/ c = "PASV" /\ reply.code # "227" /\ UNCHANGED <<socket, portRefused>>
           \/ c = "PORT" /\ socket' = socket
              /\ portRefused' = (portRefused \/ reply.code # "200")
    PROVE  PortKept'
<1>1. /\ toClient \in Seq(Replies) /\ toClient # <<>> /\ reply = Head(toClient)
      /\ toClient' = Tail(toClient) /\ toServer' = toServer
      /\ reply \in Range(toClient) /\ Range(toClient') \subseteq Range(toClient)
  BY ReceivesRange DEF TypeInv, ChannelOK, Receives
<1>2. \A e \in Range(toClient') : e.code # "227"
  <2> SUFFICES ASSUME NEW e \in Range(toClient'), e.code = "227" PROVE FALSE
    OBVIOUS
  <2>1. Asks("PASV", e.to) /\ "PASV" \in Ports
    BY <1>1 DEF PortKept, PortReplies, Ports
  <2>2. e.to = reply.to
    BY <2>1, AsksOnce
  <2> QED BY <1>1, <2>2, SingleTail DEF Sequencing
<1>3. cPc \notin Server!Gone => \A m \in Range(toServer) : m.command \notin Ports
  <2> SUFFICES ASSUME cPc \notin Server!Gone, NEW m \in Range(toServer),
                      m.command \in Ports
               PROVE  FALSE
    OBVIOUS
  <2>1. m.number = reply.to
    BY AsksOnce DEF PortKept, PortCommands
  <2>2. reply.to < m.number
    BY <1>1 DEF Sequencing, Later
  <2> QED BY <1>1, <2>1, <2>2, NaturalNumbers
<1>4. PortCommands'
  BY <1>1, <1>3 DEF PortCommands, Ports
<1>5. PortReplies'
  BY <1>2 DEF PortReplies, Ports
<1>6. PortBound'
  BY DEF PortBound
<1>7. PortAgreed'
  <2>1. CASE c = "PASV" /\ reply.code = "227" /\ socket' = reply.to
    BY <1>1, <2>1 DEF PortKept, PortReplies, PortAgreed
  <2>2. CASE c = "PASV" /\ reply.code # "227" /\ UNCHANGED <<socket, portRefused>>
    <3>1. ~Rebinding
      BY <2>2, AsksOnce DEF Rebinding, Asks, Ports
    <3>2. Unread227 => FALSE
      <4> SUFFICES ASSUME NEW e \in Range(toClient), e.code = "227" PROVE FALSE
        BY DEF Unread227
      <4>1. Asks("PASV", e.to)
        BY DEF PortKept, PortReplies
      <4>2. e.to = reply.to
        BY <2>2, <4>1, AsksOnce
      <4>3. e \in Range(toClient')
        <5>1. \A k \in DOMAIN toClient :
                  \/ toClient[k] = reply
                  \/ k - 1 \in DOMAIN Tail(toClient) /\ Tail(toClient)[k - 1] = toClient[k]
          BY <1>1
        <5> QED BY <1>1, <2>2, <5>1 DEF Range
      <4> QED BY <1>2, <4>3
    <3> QED BY <2>2, <3>1, <3>2 DEF PortKept, PortAgreed
  <2>3. CASE c = "PORT" /\ socket' = socket
             /\ portRefused' = (portRefused \/ reply.code # "200")
    <3>1. Rebinding /\ reply.to = cliNumber
      BY <2>3 DEF Asks, Rebinding
    <3>2. reply.code = "200" => socket = address
      BY <1>1, <2>3, <3>1 DEF PortKept, PortReplies, PortBound
    <3> QED BY <2>3, <3>2 DEF PortAgreed
  <2> QED BY <2>1, <2>2, <2>3
<1> QED BY <1>4, <1>5, <1>6, <1>7 DEF PortKept

LEMMA SamePortsSteps ==
    ASSUME ClientInv, UNCHANGED <<address, cPc>>, tCommand \in DataCommands,
           cliPc' \notin Exited,
           \/ U_Enter \/ U_Alive \/ U_SetFlag \/ U_CheckContext \/ U_Cancel \/ U_Join
           \/ U_Quit \/ (U_Command /\ line # "PASV") \/ U_PortFails \/ U_StartsThread
           \/ (T_Start /\ dataMode # "none") \/ T_SendCommand \/ T_NoLocalFile
           \/ T_OpenFails \/ T_SetContext \/ T_CheckFlag \/ T_Saves \/ T_Ends \/ T_Close
           \/ T_ClearFlag \/ T_BufferRaises \/ T_End \/ T_Open \/ T_Receives
    PROVE  SamePorts
<1>0. /\ tPc # "none" /\ cliPc = "wait" => line = "interrupt"
      /\ "ABOR" \in Lines \ Ports /\ "QUIT" \in Lines \ Ports
      /\ "OTHER" \in Lines \ Ports /\ DataCommands \subseteq Lines \ Ports
      /\ cliPc = "dispatch" => tPc = "none"
  BY DEF ClientInv, NoThreadMeanwhile, Lines, DataCommands, Ports
<1> USE <1>0 DEF SamePorts, Asks, Rebinding, Ports, Prompts, AbortEnds, ThreadEnds,
                 ThreadGoes, CliSends, Exits, Exited, channel, cliVars, threadVars,
                 dataVars, history
<1>1. CASE U_Enter BY <1>1 DEF U_Enter
<1>2. CASE U_Alive BY <1>2 DEF U_Alive
<1>3. CASE U_SetFlag BY <1>3 DEF U_SetFlag
<1>4. CASE U_CheckContext BY <1>4 DEF U_CheckContext
<1>5. CASE U_Cancel BY <1>5 DEF U_Cancel
<1>6. CASE U_Join BY <1>6 DEF U_Join
<1>7. CASE U_Quit
  <2>1. line # "PORT" /\ line # "PASV" /\ Sends("QUIT") /\ cliPc # "wait"
        /\ line' = line /\ UNCHANGED <<tPc, tNumber, socket, portRefused>>
    BY <1>7 DEF U_Quit, ClientInv, NoThreadMeanwhile
  <2> QED BY <2>1
<1>8. CASE U_Command /\ line # "PASV"
  <2>1. line \in {"OTHER", "ABOR"} /\ Sends(line) /\ cliPc # "wait"
        /\ line' = line /\ UNCHANGED <<tPc, tNumber, socket, portRefused>>
    BY <1>8 DEF U_Command
  <2> QED BY <2>1
<1>9. CASE U_PortFails BY <1>9 DEF U_PortFails
<1>10. CASE U_StartsThread BY <1>10 DEF U_StartsThread
<1>11. CASE T_Start /\ dataMode # "none" BY <1>11 DEF T_Start
<1>12. CASE T_SendCommand BY <1>12 DEF T_SendCommand
<1>13. CASE T_NoLocalFile BY <1>13 DEF T_NoLocalFile
<1>14. CASE T_OpenFails BY <1>14 DEF T_OpenFails
<1>15. CASE T_SetContext BY <1>15 DEF T_SetContext
<1>16. CASE T_CheckFlag BY <1>16 DEF T_CheckFlag
<1>17. CASE T_Saves BY <1>17 DEF T_Saves
<1>18. CASE T_Ends BY <1>18 DEF T_Ends
<1>19. CASE T_Close BY <1>19 DEF T_Close
<1>20. CASE T_ClearFlag BY <1>20 DEF T_ClearFlag
<1>21. CASE T_End BY <1>21 DEF T_End
<1>22. CASE T_Open BY <1>22 DEF T_Open
<1>23. CASE T_Receives BY <1>23 DEF T_Receives
<1>24. CASE T_BufferRaises BY <1>24 DEF T_BufferRaises
<1> QED
  BY <1>1, <1>2, <1>3, <1>4, <1>5, <1>6, <1>7, <1>8, <1>9, <1>10, <1>11, <1>12,
     <1>13, <1>14, <1>15, <1>16, <1>17, <1>18, <1>19, <1>20, <1>21, <1>22, <1>23, <1>24

LEMMA MisreadGrows ==
    ASSUME Client \/ DataPort, cliPc' \notin Exited
    PROVE  misread => misread'
<1> USE DEF history, Noted, ThreadGoes, ThreadReads
<1>1. CASE U_Enter \/ CommandLine
  BY <1>1
  DEF CommandLine, U_Enter, U_Alive, U_Raises, U_SetFlag, U_CheckContext, U_Cancel,
      U_Join, U_Quit, U_Command, U_Port, U_PortFails, U_StartsThread, U_Reads,
      U_LoopEnds
<1>2. CASE Thread
  BY <1>2
  DEF Thread, T_Start, T_Read227, T_SendCommand, T_NoLocalFile, T_Read150,
      T_OpenFails, T_SetContext, T_CheckFlag, T_Saves, T_Ends, T_Close,
      T_ClearFlag, T_ReadFinal, T_BufferRaises, T_End
<1>3. CASE DataPort
  BY <1>3
  DEF DataPort, D_Open, D_Receives, D_EndOfFile, T_Open, T_Receives, U_EndOfFile,
      T_EndOfFile
<1> QED BY <1>1, <1>2, <1>3 DEF Client

\* The client goes on, and has not misread yet.
LEMMA ClientPortKept ==
    ASSUME ClientInv, TypeInv, Numbering, Sequencing, PortKept,
           cliPc \notin Exited, cliPc' \notin Exited, ~misread', Client \/ DataPort
    PROVE  PortKept'
<1>0. /\ UNCHANGED <<sessionVars, loopVars>> /\ UNCHANGED <<address, cPc>>
      /\ tCommand \in DataCommands
  BY DEF Client, DataPort, D_Open, D_Receives, D_EndOfFile, ServerStays, TypeInv,
         LocalsOK, sessionVars, loopVars
<1>1. /\ tPc # "none" /\ cliPc = "wait" => line = "interrupt"
      /\ cliPc = "dispatch" => tPc = "none"
      /\ "PASV" \in Ports /\ "PORT" \in Ports
  BY DEF ClientInv, NoThreadMeanwhile, Ports
<1>2. CASE \/ U_Enter \/ U_Alive \/ U_SetFlag \/ U_CheckContext \/ U_Cancel \/ U_Join
           \/ U_Quit \/ (U_Command /\ line # "PASV") \/ U_PortFails \/ U_StartsThread
           \/ (T_Start /\ dataMode # "none") \/ T_SendCommand \/ T_NoLocalFile
           \/ T_OpenFails \/ T_SetContext \/ T_CheckFlag \/ T_Saves \/ T_Ends \/ T_Close
           \/ T_ClearFlag \/ T_BufferRaises \/ T_End \/ T_Open \/ T_Receives
  BY <1>0, <1>2, SamePortsSteps, SamePortsKept
<1>3. CASE U_Raises \/ U_LoopEnds \/ (D_EndOfFile /\ U_EndOfFile)
  BY <1>3 DEF U_Raises, U_LoopEnds, U_EndOfFile, Exits, Exited
<1>4. CASE (U_Command /\ line = "PASV") \/ U_Port \/ (T_Start /\ dataMode = "none")
  <2>1. PICK c \in Ports :
            /\ Sends(c) /\ portRefused' = portRefused
            /\ \/ /\ cliPc = "dispatch" /\ cliPc' = "wait" /\ cliNumber' = sent'
                  /\ line = c /\ UNCHANGED <<line, tPc, tNumber>>
                  /\ socket' = IF c = "PORT" THEN sent' ELSE socket
               \/ /\ tPc = "start" /\ tPc' = "wait227" /\ tNumber' = sent'
                  /\ c = "PASV" /\ UNCHANGED <<cliPc, line, cliNumber, socket>>
    BY <1>1, <1>4
    DEF U_Command, U_Port, T_Start, CliSends, threadVars, dataVars, cliVars, history
  <2>2. \A d \in Ports : \A n : ~Asks(d, n)
    BY <1>1, <2>1 DEF Asks, Ports
  <2>3. /\ \A d \in Ports : \A n : Asks(d, n)' <=> d = c /\ n = sent'
        /\ Rebinding' <=> c = "PORT"
    BY <1>1, <2>1 DEF Asks, Ports, Rebinding
  <2>4. IF c = "PORT" THEN socket' = sent' /\ cliNumber' = sent' ELSE socket' = socket
    BY <2>1
  <2> QED BY <1>0, <2>1, <2>2, <2>3, <2>4, AsksKept
<1>5. CASE U_Reads
  <2>1. PICK reply \in InTransit :
            /\ Receives(reply) /\ reply.to = cliNumber
            /\ portRefused' = (portRefused \/ (line = "PORT" /\ reply.code # "200"))
            /\ cliPc = "wait" /\ line \notin {"QUIT", "interrupt"} /\ cliPc' = "prompt"
            /\ UNCHANGED <<tPc, tNumber>>
            /\ IF line = "PASV" /\ reply.code = "227"
               THEN socket' = reply.to ELSE socket' = socket
    BY <1>5
    DEF U_Reads, Noted, Answers, Exits, Exited, Prompts, threadVars, OpensPassive
  <2>2. tPc = "none" /\ tPc' = "none"
    BY <1>1, <2>1
  <2>3. /\ \A d \in Ports : \A n : ~Asks(d, n)' /\ ~Rebinding'
    BY <2>1, <2>2 DEF Asks, Rebinding
  <2>4. CASE line \in Ports
    <3>1. /\ Asks(line, reply.to)
          /\ \/ line = "PASV" /\ reply.code = "227" /\ socket' = reply.to
             \/ line = "PASV" /\ reply.code # "227" /\ UNCHANGED <<socket, portRefused>>
             \/ line = "PORT" /\ socket' = socket
                /\ portRefused' = (portRefused \/ reply.code # "200")
      BY <2>1, <2>4 DEF Asks, Ports, TypeInv, LocalsOK
    <3> QED BY <1>0, <2>1, <2>3, <2>4, <3>1, AnswerKept
  <2>5. CASE line \notin Ports
    <3>1. \A d \in Ports : \A n : ~Asks(d, n)
      BY <2>2, <2>5 DEF Asks
    <3>2. reply.code # "227"
      <4>1. ~Unread227
        BY <3>1, NobodyAsks
      <4>2. reply \in Range(toClient)
        BY <2>1, ReceivesRange DEF TypeInv
      <4> QED BY <4>1, <4>2 DEF Unread227
    <3>3. SamePorts
      BY <1>0, <2>1, <2>3, <2>5, <3>1, <3>2 DEF SamePorts, Rebinding, Ports, TypeInv, LocalsOK
    <3> QED BY <3>3, SamePortsKept
  <2> QED BY <2>4, <2>5
<1>6. CASE T_Read227
  <2>1. PICK reply \in InTransit :
            /\ Receives(reply) /\ UNCHANGED <<cliVars, portRefused>> /\ reply.to = tNumber
            /\ tPc = "wait227" /\ tPc' \in {"prepare", "end"}
            /\ IF reply.code = "227" THEN socket' = reply.to ELSE socket' = socket
    BY <1>6 DEF T_Read227, ThreadReads, Noted, Answers, OpensPassive, dataVars
  <2>2. Asks("PASV", reply.to)
    BY <2>1 DEF Asks
  <2>3. /\ \A d \in Ports : \A n : ~Asks(d, n)' /\ ~Rebinding'
    BY <1>1, <2>1 DEF Asks, Rebinding, Ports, cliVars
  <2> QED BY <1>0, <1>1, <2>1, <2>2, <2>3, AnswerKept
<1>7. CASE T_Read150 \/ T_ReadFinal
  <2>1. PICK reply \in InTransit :
            /\ Receives(reply) /\ UNCHANGED <<cliVars, portRefused, socket>>
            /\ tPc \in {"wait150", "waitfinal"} /\ tPc' \in {"open", "end"}
            /\ reply.to = tNumber \/ reply.code \in {"226", "426"}
    BY <1>7 DEF T_Read150, T_ReadFinal, ThreadReads, Noted, Answers, Final, dataVars
  <2>2. \A d \in Ports : \A n : ~Asks(d, n) /\ ~Asks(d, n)'
    BY <1>1, <2>1 DEF Asks, Ports, cliVars
  <2>3. reply.code # "227"
    <3>1. ~Unread227
      BY <2>2, NobodyAsks
    <3>2. reply \in Range(toClient)
      BY <2>1, ReceivesRange DEF TypeInv
    <3> QED BY <3>1, <3>2 DEF Unread227
  <2>4. SamePorts
    BY <1>0, <2>1, <2>2, <2>3 DEF SamePorts, Rebinding, cliVars
  <2> QED BY <2>4, SamePortsKept
<1>8. CASE D_EndOfFile /\ T_EndOfFile
  <2>1. /\ cPc \in Server!Gone /\ toClient = <<>> /\ toClient' = <<>>
        /\ UNCHANGED <<cliVars, socket, portRefused>>
    BY <1>8 DEF D_EndOfFile, Closed, T_EndOfFile, channel, history
  <2>2. Range(toClient) = {} /\ Range(toClient') = {}
    BY <2>1 DEF Range
  <2> QED
    BY <1>0, <2>1, <2>2
    DEF PortKept, PortCommands, PortReplies, PortBound, PortAgreed, Unread227,
        Rebinding, cliVars
<1> QED
  BY <1>0, <1>2, <1>3, <1>4, <1>5, <1>6, <1>7, <1>8
  DEF Client, CommandLine, Thread, DataPort, D_Open, D_Receives, D_EndOfFile

\* What a step of the server does to the data port and to who asks for it.
P_Passive ==
    /\ cPc = "idle" /\ Takes({"PASV"}) /\ Answered("227")
    /\ address' = Request.number

P_Port ==
    /\ cPc = "idle" /\ Takes({"PORT"}) /\ Answered("200")
    /\ address' = Request.number

P_Other ==
    /\ cPc = "idle" /\ Takes({"OTHER"}) /\ Answered("200")
    /\ address' = address

P_Else ==
    /\ address' = address
    /\ toServer' = toServer \/ Takes(Lines)
    /\ cPc' \notin Server!Gone => cPc \notin Server!Gone
    /\ \/ toClient' = toClient
       \/ \E r : r.code \notin {"200", "227"} /\ toClient' = Append(toClient, r)

PortEffect == ClientStays /\ (P_Passive \/ P_Port \/ P_Other \/ P_Else)

LEMMA LoopPortEffect == ASSUME CommandLoop PROVE PortEffect
<1>0. /\ \A commands \in SUBSET Lines : Takes(commands) => Takes(Lines)
      /\ {"PASV"} \subseteq Lines /\ {"PORT"} \subseteq Lines /\ {"OTHER"} \subseteq Lines
      /\ {"ABOR", "QUIT"} \subseteq Lines /\ DataCommands \subseteq Lines
      /\ Lines \ {"ABOR", "QUIT"} \subseteq Lines
      /\ {"OTHER", "PORT"} \cup DataCommands \subseteq Lines
  BY DEF Takes, Lines
<1>1. \A code \in Preliminary \cup {"221", "225", "425", "450", "550"} :
          Answered(code) =>
              \E r : r.code \notin {"200", "227"} /\ toClient' = Append(toClient, r)
  BY DEF Answered, Preliminary
<1>2. cPc = "idle" => cPc \notin Server!Gone
  BY DEF Server!Gone
<1>3. CASE S_Refuse
  BY <1>0, <1>1, <1>2, <1>3 DEF S_Refuse, Takes, PortEffect, P_Else, loopVars
<1>4. CASE S_Passive
  <2>1. CASE pasvSock' = "open"
    BY <1>4, <2>1 DEF S_Passive, Takes, PortEffect, P_Passive
  <2>2. CASE pasvSock' # "open"
    BY <1>0, <1>1, <1>2, <1>4, <2>2 DEF S_Passive, Takes, PortEffect, P_Else
  <2> QED BY <2>1, <2>2
<1>5. CASE S_Port
  BY <1>5 DEF S_Port, Takes, PortEffect, P_Port
<1>6. CASE S_Transfer
  BY <1>0, <1>1, <1>2, <1>6 DEF S_Transfer, Takes, PortEffect, P_Else
<1>7. CASE S_Other
  <2>1. CASE Request.command = "OTHER"
    BY <1>7, <2>1 DEF S_Other, Takes, PortEffect, P_Other, loopVars
  <2>2. CASE Request.command # "OTHER"
    BY <1>0, <1>1, <1>2, <1>7, <2>2 DEF S_Other, Takes, PortEffect, P_Else, loopVars
  <2> QED BY <2>1, <2>2
<1>8. CASE S_Abort
  BY <1>0, <1>1, <1>2, <1>8 DEF S_Abort, Takes, PortEffect, P_Else
<1>9. CASE S_Handler
  <2>1. HandlerReply.code \notin {"200", "227"}
    BY DEF HandlerReply
  <2>2. cPc \notin Server!Gone
    BY <1>9
    DEF S_Handler, Server!Handler, Server!C_SetFlag, Server!C_CheckContext,
        Server!C_Cancel, Server!C_CheckSocket, Server!C_CloseSocket, Server!C_Reply,
        Server!Gone
  <2> QED BY <1>9, <2>1, <2>2 DEF S_Handler, HandlerReply, PortEffect, P_Else, loopVars
<1>10. CASE S_Disconnect
  BY <1>2, <1>10
  DEF S_Disconnect, Server!C_Disconnect, PortEffect, P_Else, channel, loopVars
<1> QED
  BY <1>3, <1>4, <1>5, <1>6, <1>7, <1>8, <1>9, <1>10 DEF CommandLoop

LEMMA WorkerPortEffect ==
    ASSUME ServerInv, NEW j \in Server!Jobs, S_Worker(j)
    PROVE  PortEffect
<1>1. /\ ClientStays /\ UNCHANGED <<toServer, address, cPc>>
      /\ toClient' = toClient \/ toClient' = Append(toClient, FinalReply(j))
  BY WorkerStep DEF ServerInv, loopVars, WorkerEffect
<1>2. FinalReply(j).code \notin {"200", "227"}
  BY DEF FinalReply
<1> QED BY <1>1, <1>2 DEF PortEffect, P_Else

LEMMA ServerPortKept ==
    ASSUME ClientInv, TypeInv, PortKept, PortEffect
    PROVE  PortKept'
<1>0. /\ ChannelOK /\ toClient \in Seq(Replies) /\ "PASV" \in Ports /\ "PORT" \in Ports
      /\ PortCommands /\ PortReplies /\ PortBound /\ PortAgreed
  BY DEF TypeInv, ChannelOK, Ports, PortKept
<1>1. /\ UNCHANGED <<cliPc, line, cliNumber, tPc, tNumber, socket, portRefused>>
      /\ \A c, n : Asks(c, n)' <=> Asks(c, n)
      /\ Rebinding' <=> Rebinding
  BY DEF PortEffect, ClientStays, cliVars, threadVars, dataVars, history, Asks, Rebinding
<1>2. PortBound'
  BY <1>0, <1>1 DEF PortBound
<1>3. CASE P_Passive
  <2> DEFINE r == [to |-> Request.number, code |-> "227", about |-> Request.number]
  <2>1. /\ r.to = Request.number /\ r.code = "227" /\ toClient' = Append(toClient, r)
        /\ address' = Request.number /\ cPc \notin Server!Gone
    BY <1>3 DEF P_Passive, Answered, Server!Gone
  <2> HIDE DEF r
  <2>2. /\ Range(toClient') = Range(toClient) \cup {r}
        /\ Range(toServer') \subseteq Range(toServer)
        /\ Request \in Range(toServer) /\ Request.command = "PASV"
    BY <1>0, <1>3, <2>1, AppendRange, TakesRange DEF P_Passive
  <2>3. Asks("PASV", Request.number)
    BY <1>0, <2>1, <2>2 DEF PortCommands
  <2>4. PortCommands'
    BY <1>0, <1>1, <2>1, <2>2 DEF PortCommands
  <2>5. PortReplies'
    <3> SUFFICES ASSUME NEW reply \in Range(toClient')
                 PROVE  /\ reply.code = "227" =>
                              Asks("PASV", reply.to) /\ address' = reply.to
                        /\ reply.code = "200" /\ Asks("PORT", reply.to) =>
                              address' = reply.to
      BY <1>1 DEF PortReplies
    <3>1. ASSUME reply.code = "227" PROVE Asks("PASV", reply.to) /\ address' = reply.to
      <4>1. Asks("PASV", reply.to)
        BY <1>0, <2>1, <2>2, <2>3, <3>1 DEF PortReplies
      <4>2. reply.to = Request.number
        BY <1>0, <2>3, <4>1, AsksOnce
      <4> QED BY <2>1, <4>1, <4>2
    <3>2. ~Asks("PORT", reply.to)
      BY <1>0, <2>3, AsksOnce
    <3> QED BY <3>1, <3>2
  <2>6. PortAgreed'
    BY <2>1, <2>2 DEF PortAgreed, Unread227
  <2> QED BY <1>2, <2>4, <2>5, <2>6 DEF PortKept
<1>4. CASE P_Port
  <2> DEFINE r == [to |-> Request.number, code |-> "200", about |-> Request.number]
  <2>1. /\ r.to = Request.number /\ r.code = "200" /\ toClient' = Append(toClient, r)
        /\ address' = Request.number /\ cPc \notin Server!Gone
    BY <1>4 DEF P_Port, Answered, Server!Gone
  <2> HIDE DEF r
  <2>2. /\ Range(toClient') = Range(toClient) \cup {r}
        /\ Range(toServer') \subseteq Range(toServer)
        /\ Request \in Range(toServer) /\ Request.command = "PORT"
    BY <1>0, <1>4, <2>1, AppendRange, TakesRange DEF P_Port
  <2>3. Asks("PORT", Request.number) /\ Rebinding
    <3>1. Asks("PORT", Request.number)
      BY <1>0, <2>1, <2>2 DEF PortCommands
    <3> QED BY <3>1 DEF Asks, Rebinding
  <2>4. PortCommands'
    BY <1>0, <1>1, <2>1, <2>2 DEF PortCommands
  <2>5. PortReplies'
    <3> SUFFICES ASSUME NEW reply \in Range(toClient')
                 PROVE  /\ reply.code # "227"
                        /\ Asks("PORT", reply.to) => address' = reply.to
      BY <1>1 DEF PortReplies
    <3>1. ASSUME Asks("PORT", reply.to) PROVE address' = reply.to
      BY <1>0, <2>1, <2>3, <3>1, AsksOnce
    <3>2. reply.code # "227"
      <4> SUFFICES ASSUME reply.code = "227" PROVE FALSE
        OBVIOUS
      <4>1. Asks("PASV", reply.to)
        BY <1>0, <2>1, <2>2 DEF PortReplies
      <4> QED BY <1>0, <2>3, <4>1, AsksOnce
    <3> QED BY <3>1, <3>2
  <2>6. PortAgreed'
    BY <1>1, <2>3 DEF PortAgreed
  <2> QED BY <1>2, <2>4, <2>5, <2>6 DEF PortKept
<1>5. CASE P_Other
  <2> DEFINE r == [to |-> Request.number, code |-> "200", about |-> Request.number]
  <2>1. /\ r.to = Request.number /\ r.code = "200" /\ toClient' = Append(toClient, r)
        /\ address' = address /\ cPc \notin Server!Gone
    BY <1>5 DEF P_Other, Answered, Server!Gone
  <2> HIDE DEF r
  <2>2. /\ Range(toClient') = Range(toClient) \cup {r}
        /\ Range(toServer') \subseteq Range(toServer)
        /\ Request \in Range(toServer) /\ Request.command = "OTHER"
    BY <1>0, <1>5, <2>1, AppendRange, TakesRange DEF P_Other
  <2>3. ~Asks("PORT", r.to)
    BY <1>0, <2>1, <2>2 DEF PortCommands
  <2>4. PortCommands'
    BY <1>0, <1>1, <2>1, <2>2 DEF PortCommands
  <2>5. PortReplies'
    BY <1>0, <1>1, <2>1, <2>2, <2>3 DEF PortReplies
  <2>6. PortAgreed'
    BY <1>0, <1>1, <2>1, <2>2 DEF PortAgreed, Unread227
  <2> QED BY <1>2, <2>4, <2>5, <2>6 DEF PortKept
<1>6. CASE P_Else
  <2>1. Range(toServer') \subseteq Range(toServer)
    BY <1>0, <1>6, TakesRange DEF P_Else
  <2>2. \A reply \in Range(toClient') :
            reply \in Range(toClient) \/ reply.code \notin {"200", "227"}
    <3>1. \A r : toClient' = Append(toClient, r) =>
              Range(toClient') = Range(toClient) \cup {r}
      BY <1>0, AppendRange
    <3> QED BY <1>6, <3>1 DEF P_Else
  <2>3. Range(toClient) \subseteq Range(toClient')
    <3>1. \A r : toClient' = Append(toClient, r) =>
              Range(toClient') = Range(toClient) \cup {r}
      BY <1>0, AppendRange
    <3> QED BY <1>6, <3>1 DEF P_Else
  <2>4. PortCommands'
    BY <1>0, <1>1, <1>6, <2>1 DEF P_Else, PortCommands
  <2>5. PortReplies'
    BY <1>0, <1>1, <1>6, <2>2 DEF P_Else, PortReplies
  <2>6. PortAgreed'
    BY <1>0, <1>1, <1>6, <2>3 DEF P_Else, PortAgreed, Unread227
  <2> QED BY <1>2, <2>4, <2>5, <2>6 DEF PortKept
<1> QED BY <1>3, <1>4, <1>5, <1>6 DEF PortEffect

\* The daemon thread of a process that exits is gone with it.
LEMMA ExitEndsThread ==
    ASSUME Client \/ DataPort, cliPc \notin Exited, cliPc' \in Exited
    PROVE  tPc' = "none"
<1> USE DEF Exits, ThreadEnds, Prompts, AbortEnds, CliSends, Exited, cliVars,
            ThreadGoes, ThreadReads
<1>1. CASE U_Enter \/ CommandLine
  BY <1>1
  DEF CommandLine, U_Enter, U_Alive, U_Raises, U_SetFlag, U_CheckContext, U_Cancel,
      U_Join, U_Quit, U_Command, U_Port, U_PortFails, U_StartsThread, U_Reads,
      U_LoopEnds
<1>2. CASE Thread
  BY <1>2
  DEF Thread, T_Start, T_Read227, T_SendCommand, T_NoLocalFile, T_Read150,
      T_OpenFails, T_SetContext, T_CheckFlag, T_Saves, T_Ends, T_Close,
      T_ClearFlag, T_ReadFinal, T_BufferRaises, T_End
<1>3. CASE DataPort
  BY <1>3
  DEF DataPort, D_Open, D_Receives, D_EndOfFile, T_Open, T_Receives, U_EndOfFile,
      T_EndOfFile
<1> QED BY <1>1, <1>2, <1>3 DEF Client

LEMMA PortInvariance == SystemSpec => [](ClientInv /\ PortInv)
<1> DEFINE Known == ServerInv /\ TypeInv /\ ClientInv /\ Numbering /\ Sequencing
<1>1. SystemSpec => []Known
  BY ClientInvariance, NumberingInvariance, SequencingInvariance, PTL
<1>2. Known /\ PortInv /\ [SystemNext]_systemVars => PortInv'
  <2> SUFFICES ASSUME Known, PortInv, [SystemNext]_systemVars PROVE PortInv'
    OBVIOUS
  <2>1. CASE Client \/ DataPort
    <3>0. cliPc \notin Exited
      BY <2>1, NothingAfterExit DEF PortInv
    <3>1. CASE cliPc' \in Exited
      BY <2>1, <3>0, <3>1, ExitEndsThread DEF PortInv
    <3>2. CASE cliPc' \notin Exited
      <4> SUFFICES ASSUME ~misread' PROVE PortKept'
        BY <3>2 DEF PortInv
      <4>1. ~misread
        BY <2>1, <3>2, MisreadGrows
      <4> QED BY <2>1, <3>0, <3>2, <4>1, ClientPortKept DEF PortInv
    <3> QED BY <3>1, <3>2
  <2>2. CASE CommandLoop \/ \E j \in Server!Jobs : S_Worker(j)
    <3>1. PortEffect
      BY <2>2, LoopPortEffect, WorkerPortEffect
    <3>2. UNCHANGED <<cliPc, tPc, misread>>
      BY <3>1 DEF PortEffect, ClientStays, cliVars, threadVars, history
    <3> QED BY <3>1, <3>2, ServerPortKept DEF PortInv
  <2>3. CASE Resting \/ UNCHANGED systemVars
    BY <2>3
    DEF Resting, systemVars, clientVars, vars, channel, cliVars, threadVars, dataVars,
        history, sessionVars, loopVars, PortInv, PortKept, PortCommands, PortReplies,
        PortBound, PortAgreed, Rebinding, Unread227, Asks
  <2> QED BY <2>1, <2>2, <2>3 DEF SystemNext
<1> QED BY PortInvInit, ClientInvariance, <1>1, <1>2, PTL DEF SystemSpec

(* A transfer opens the data port of the last PASV or PORT that the server *)
(* has accepted: as long as nobody has taken another's reply, client and   *)
(* server, each with an idea of its own, differ only where the server      *)
(* refused a PORT whose socket the client had bound already, or where the  *)
(* client could not bind the socket of its PORT.                           *)
THEOREM TransfersMeet == SystemSpec => []SamePort
<1>1. ClientInv /\ PortInv => SamePort
  <2> SUFFICES ASSUME ClientInv, PortInv, tPc \in Transferring,
                      socket \notin {NoSocket, Unbound}, ~misread, ~portRefused
               PROVE  socket = address
    BY DEF SamePort
  <2>1. cliPc \notin Exited /\ PortKept
    BY DEF PortInv, Transferring
  <2>2. \A c \in Ports : \A n : ~Asks(c, n)
    BY DEF ClientInv, NoThreadMeanwhile, Asks, Ports, Transferring
  <2>3. ~Unread227 /\ ~Rebinding
    BY <2>1, <2>2, NobodyAsks
  <2> QED BY <2>1, <2>3 DEF PortKept, PortAgreed
<1> QED BY PortInvariance, <1>1, PTL

===============================================================================
