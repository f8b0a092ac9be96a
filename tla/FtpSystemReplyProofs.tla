-------------------------- MODULE FtpSystemReplyProofs --------------------------
(***************************************************************************)
(* Proofs about the replies of FtpSystem, for any number of commands,      *)
(* ABORs and jobs.  Nothing but their order ties replies to commands, so   *)
(* the argument counts: what the server still owes against what the two    *)
(* readers of the client wait for.                                         *)
(***************************************************************************)
EXTENDS FtpSystemProofs, FiniteSetTheorems

-------------------------------------------------------------------------------
(* Counting in a queue.                                                    *)

Places(queue, kinds) == {i \in DOMAIN queue : queue[i] \in kinds}

LEMMA PlacesFinite ==
    ASSUME NEW S, NEW queue \in Seq(S), NEW kinds
    PROVE  /\ IsFiniteSet(Places(queue, kinds))
           /\ Count(queue, kinds) = Cardinality(Places(queue, kinds))
           /\ Count(queue, kinds) \in Nat
           /\ Count(queue, kinds) <= Len(queue)
<1>1. Len(queue) \in Nat /\ DOMAIN queue = 1 .. Len(queue)
  OBVIOUS
<1>2. /\ IsFiniteSet(1 .. Len(queue))
      /\ Cardinality(1 .. Len(queue)) = Len(queue)
  BY <1>1, FS_Interval
<1>3. Places(queue, kinds) \in SUBSET (1 .. Len(queue))
  BY <1>1 DEF Places
<1>4. /\ IsFiniteSet(Places(queue, kinds))
      /\ Cardinality(Places(queue, kinds)) <= Len(queue)
  BY <1>2, <1>3, FS_Subset
<1> QED BY <1>4, FS_CardinalityType DEF Count, Places

LEMMA CountEmpty == ASSUME NEW kinds PROVE Count(<<>>, kinds) = 0
<1>1. {i \in DOMAIN <<>> : <<>>[i] \in kinds} = {}
  OBVIOUS
<1> QED BY <1>1, FS_EmptySet DEF Count

LEMMA CountAppend ==
    ASSUME NEW S, NEW queue \in Seq(S), NEW e \in S, NEW kinds
    PROVE  Count(Append(queue, e), kinds) = Count(queue, kinds) + One(e \in kinds)
<1> DEFINE longer == Append(queue, e)
           end == Len(queue) + 1
<1>1. /\ longer \in Seq(S) /\ Len(queue) \in Nat
      /\ DOMAIN queue = 1 .. Len(queue) /\ DOMAIN longer = 1 .. end
      /\ longer[end] = e /\ \A i \in DOMAIN queue : longer[i] = queue[i]
  OBVIOUS
<1>2. end \notin Places(queue, kinds)
  BY <1>1 DEF Places
<1>3. Places(longer, kinds) =
          IF e \in kinds THEN Places(queue, kinds) \cup {end} ELSE Places(queue, kinds)
  BY <1>1 DEF Places
<1>f. /\ IsFiniteSet(Places(queue, kinds))
      /\ Count(queue, kinds) = Cardinality(Places(queue, kinds))
  BY PlacesFinite
<1>4. Cardinality(Places(queue, kinds) \cup {end}) = Count(queue, kinds) + 1
  BY <1>2, <1>f, FS_AddElement
<1> HIDE DEF longer, end
<1>5. Count(longer, kinds) = Cardinality(Places(longer, kinds))
  BY <1>1, PlacesFinite
<1>6. Count(queue, kinds) = Cardinality(Places(queue, kinds))
      /\ Count(queue, kinds) \in Nat
  BY PlacesFinite
<1>7. Count(longer, kinds) = Count(queue, kinds) + One(e \in kinds)
  BY <1>3, <1>4, <1>5, <1>6 DEF One
<1> QED BY <1>7 DEF longer

LEMMA CountTail ==
    ASSUME NEW S, NEW queue \in Seq(S), queue # <<>>, NEW kinds
    PROVE  Count(queue, kinds) = Count(Tail(queue), kinds) + One(Head(queue) \in kinds)
<1> DEFINE rest == Tail(queue)
           from == Places(rest, kinds)
           to == Places(queue, kinds) \ {1}
           shift == [i \in from |-> i + 1]
<1>1. /\ rest \in Seq(S) /\ Len(queue) \in Nat /\ Len(rest) = Len(queue) - 1
      /\ Len(queue) > 0
      /\ DOMAIN queue = 1 .. Len(queue) /\ DOMAIN rest = 1 .. Len(rest)
      /\ \A i \in DOMAIN rest : rest[i] = queue[i + 1]
      /\ Head(queue) = queue[1]
  OBVIOUS
<1>2. shift \in Bijection(from, to)
  <2>1. \A i \in from : i \in Nat /\ i + 1 \in to
    BY <1>1 DEF Places
  <2>2. \A k \in to : k - 1 \in from /\ k \in Nat /\ (k - 1) + 1 = k
    BY <1>1 DEF Places
  <2>3. shift \in [from -> to]
    BY <2>1
  <2>4. \A a, b \in from : shift[a] = shift[b] => a = b
    BY <2>1
  <2>5. \A k \in to : \E a \in from : shift[a] = k
    BY <2>2
  <2> HIDE DEF from, to, shift
  <2> QED
    BY <2>3, <2>4, <2>5 DEF Bijection, Injection, Surjection, IsInjective
<1>3. ExistsBijection(from, to)
  BY <1>2 DEF ExistsBijection
<1> HIDE DEF rest, from, to, shift
<1>4. /\ IsFiniteSet(from) /\ Cardinality(from) = Count(rest, kinds)
      /\ Count(rest, kinds) \in Nat
  BY <1>1, PlacesFinite DEF from
<1>5. Cardinality(to) = Count(rest, kinds)
  BY <1>3, <1>4, FS_Bijection
<1>6. /\ IsFiniteSet(Places(queue, kinds))
      /\ Count(queue, kinds) = Cardinality(Places(queue, kinds))
      /\ Count(queue, kinds) \in Nat
  BY PlacesFinite
<1>7. Cardinality(to) = IF 1 \in Places(queue, kinds) THEN Count(queue, kinds) - 1
                        ELSE Count(queue, kinds)
  BY <1>6, FS_RemoveElement DEF to
<1>8. 1 \in Places(queue, kinds) <=> Head(queue) \in kinds
  BY <1>1 DEF Places
<1>9. Count(queue, kinds) = Count(rest, kinds) + One(Head(queue) \in kinds)
  BY <1>4, <1>5, <1>6, <1>7, <1>8 DEF One
<1> QED BY <1>9 DEF rest

LEMMA CountDisjoint ==
    ASSUME NEW S, NEW queue \in Seq(S), NEW these, NEW those,
           these \cap those = {}
    PROVE  Count(queue, these) + Count(queue, those) <= Len(queue)
<1> DEFINE a == Places(queue, these)
           b == Places(queue, those)
<1>1. /\ IsFiniteSet(a) /\ Count(queue, these) = Cardinality(a)
      /\ IsFiniteSet(b) /\ Count(queue, those) = Cardinality(b)
      /\ Cardinality(a) \in Nat /\ Cardinality(b) \in Nat
  BY PlacesFinite
<1>2. a \cap b = {} /\ a \cup b = Places(queue, these \cup those)
  BY DEF Places
<1> HIDE DEF a, b
<1>3. Cardinality(a \cup b) = Cardinality(a) + Cardinality(b)
  <2>1. Cardinality(a \cup b) = Cardinality(a) + Cardinality(b) - Cardinality({})
    BY <1>1, <1>2, FS_Union
  <2> QED BY <1>1, <2>1, FS_EmptySet
<1>4. Cardinality(a \cup b) <= Len(queue)
  BY <1>2, PlacesFinite
<1> QED BY <1>1, <1>3, <1>4

\* Of the jobs that have the pc of one of pcs there is at most the last.
LEMMA OneJobOfKind ==
    ASSUME NEW pc, NEW pcs, NEW last,
           \A j \in Server!Jobs : pc[j] \in pcs => j = last
    PROVE  Cardinality({j \in Server!Jobs : pc[j] \in pcs})
               = One(\E j \in Server!Jobs : pc[j] \in pcs)
<1> DEFINE those == {j \in Server!Jobs : pc[j] \in pcs}
<1>1. CASE \E j \in Server!Jobs : pc[j] \in pcs
  <2>1. those = {last}
    BY <1>1
  <2> QED BY <1>1, <2>1, FS_Singleton DEF One
<1>2. CASE ~ \E j \in Server!Jobs : pc[j] \in pcs
  <2>1. those = {}
    BY <1>2
  <2> QED BY <1>2, <2>1, FS_EmptySet DEF One
<1> QED BY <1>1, <1>2

-------------------------------------------------------------------------------
(* The terms of the balance, and what each kind of step does to them.      *)

DataMessages == {m \in Messages : m.command \in DataCommands}
Stops == {"ABOR", "QUIT"}
StopMessages == {m \in Messages : m.command \in Stops}

Finals == Count(toClient, FinalReplies)
Pending == Len(toServer)
DataPending == Count(toServer, DataMessages)
StopsPending == Count(toServer, StopMessages)

\* A job owes a final reply; one may still leave it to an ABOR or a QUIT.
Owes == \E j \in Server!Jobs : wPc[j] \in Owing
Working == \E j \in Server!Jobs : wPc[j] \in Undecided

\* What the server owes, term by term; what exceeds the replies waited for.
Supply == Finals + Pending + One(cPc # "idle") + One(Owes)
Excess == Owed - Awaited

\* Data commands whose final reply an ABOR may still take over, the one that
\* the transfer thread is about to send included; and the ABORs and QUITs that
\* may take over one: those on their way, and the one that has set the flag.
Skippable == One(Working) + DataPending
Expected == Skippable + One(tPc \in {"start", "wait227", "prepare"})
Skipping == Working /\ (cPc = "flag" \/ sessionAbort)
Skips == StopsPending + One(Skipping)

Sums ==
    /\ Finals \in Nat /\ Pending \in Nat
    /\ DataPending \in Nat /\ StopsPending \in Nat
    /\ DataPending + StopsPending <= Pending
    /\ Excess = Finals + Pending + One(cPc # "idle") + One(Owes)
                - One(cliPc = "wait") - One(tPc \in Reading \cup Transferring)
    /\ Excess = Supply - One(cliPc = "wait") - One(tPc \in Reading \cup Transferring)
    /\ Supply \in Nat /\ Owed = Supply
    /\ Excess \in Int /\ Skippable \in Nat /\ Expected \in Nat /\ Skips \in Nat
    /\ Working => Owes
    /\ Owes => transferActive
    /\ \A j \in Server!Jobs : wPc[j] \in Owing => j = started

LEMMA SumsHold == ServerInv /\ ChannelOK => Sums
<1> SUFFICES ASSUME ServerInv, ChannelOK PROVE Sums
  OBVIOUS
<1>1. toServer \in Seq(Messages) /\ toClient \in Seq(Replies)
  BY DEF ChannelOK
<1>2. Finals \in Nat /\ DataPending \in Nat /\ StopsPending \in Nat
  BY <1>1, PlacesFinite DEF Finals, DataPending, StopsPending
<1>3. DataMessages \cap StopMessages = {}
  BY DEF DataMessages, StopMessages, DataCommands, Stops
<1>4. DataPending + StopsPending <= Pending
  BY <1>1, <1>3, CountDisjoint DEF DataPending, StopsPending, Pending
<1>5. Pending \in Nat
  BY <1>1 DEF Pending
<1>6. \A j \in Server!Jobs :
          wPc[j] \in Owing => wPc[j] \in Session!Unreset /\ j \in Session!Jobs
  BY DEF Owing, Server!Running, Server!Beginning, Session!Unreset,
         Session!Running, Session!Beginning, Server!Jobs, Session!Jobs
<1>7. \A j \in Server!Jobs : wPc[j] \in Owing => j = started /\ transferActive
  BY <1>6 DEF ServerInv, Session!ActiveIsLast
<1>8. JobsIn(Owing) = One(Owes)
  <2>1. \A j \in Server!Jobs : wPc[j] \in Owing => j = started
    BY <1>7
  <2>2. Cardinality({j \in Server!Jobs : wPc[j] \in Owing})
            = One(\E j \in Server!Jobs : wPc[j] \in Owing)
    BY <2>1, OneJobOfKind
  <2> QED BY <2>2 DEF JobsIn, Owes
<1>9. (Owes => transferActive) /\ (Working => Owes)
  BY <1>7 DEF Owes, Working, Owing, Undecided
<1>10. Owed = Finals + Pending + One(cPc # "idle") + One(Owes)
  BY <1>8 DEF Owed, Finals, Pending
<1>11. /\ Excess = Finals + Pending + One(cPc # "idle") + One(Owes)
                   - One(cliPc = "wait") - One(tPc \in Reading \cup Transferring)
       /\ Excess \in Int /\ Skippable \in Nat /\ Expected \in Nat /\ Skips \in Nat
  BY <1>2, <1>5, <1>10
  DEF Excess, Awaited, Skippable, Expected, Skips, Skipping, One
<1>12. Supply \in Nat /\ Owed = Supply
       /\ Excess = Supply - One(cliPc = "wait") - One(tPc \in Reading \cup Transferring)
  BY <1>2, <1>5, <1>10, <1>11 DEF Supply, One
<1> QED BY <1>2, <1>4, <1>5, <1>7, <1>9, <1>11, <1>12 DEF Sums

LEMMA SendsCounts ==
    ASSUME ChannelOK, ChannelOK', NEW c \in Lines, Sends(c)
    PROVE  /\ Finals' = Finals /\ Pending' = Pending + 1
           /\ DataPending' = DataPending + One(c \in DataCommands)
           /\ StopsPending' = StopsPending + One(c \in Stops)
<1> DEFINE m == [command |-> c, number |-> sent']
<1>1. m \in Messages /\ toServer \in Seq(Messages) /\ m.command = c
  BY DEF ChannelOK, Messages
<1>2. toServer' = Append(toServer, m) /\ toClient' = toClient
  BY DEF Sends
<1>3. /\ m \in DataMessages <=> c \in DataCommands
      /\ m \in StopMessages <=> c \in Stops
  BY <1>1 DEF DataMessages, StopMessages
<1> HIDE DEF m
<1>4. /\ DataPending' = DataPending + One(m \in DataMessages)
      /\ StopsPending' = StopsPending + One(m \in StopMessages)
  BY <1>1, <1>2, CountAppend
  DEF DataPending, StopsPending, DataMessages, StopMessages
<1>5. Pending' = Pending + 1 /\ Finals' = Finals
  BY <1>1, <1>2 DEF Pending, Finals, FinalReplies
<1> QED BY <1>3, <1>4, <1>5 DEF One

LEMMA TakesCounts ==
    ASSUME ChannelOK, NEW commands, Takes(commands)
    PROVE  /\ Pending = Pending' + 1
           /\ DataPending = DataPending' + One(Request.command \in DataCommands)
           /\ StopsPending = StopsPending' + One(Request.command \in Stops)
<1>1. /\ toServer \in Seq(Messages) /\ toServer # <<>>
      /\ Request = Head(toServer) /\ Request \in Messages
      /\ toServer' = Tail(toServer)
  BY DEF ChannelOK, Takes, Request
<1>2. /\ Request \in DataMessages <=> Request.command \in DataCommands
      /\ Request \in StopMessages <=> Request.command \in Stops
  BY <1>1 DEF DataMessages, StopMessages
<1>3. /\ DataPending = DataPending' + One(Request \in DataMessages)
      /\ StopsPending = StopsPending' + One(Request \in StopMessages)
  BY <1>1, CountTail
  DEF DataPending, StopsPending, DataMessages, StopMessages
<1>4. Pending = Pending' + 1
  BY <1>1 DEF Pending
<1> QED BY <1>2, <1>3, <1>4 DEF One

LEMMA ReceivesCounts ==
    ASSUME ChannelOK, NEW reply, Receives(reply)
    PROVE  /\ Finals = Finals' + One(reply.code \notin Preliminary)
           /\ UNCHANGED <<Pending, DataPending, StopsPending>>
<1>1. /\ toClient \in Seq(Replies) /\ toClient # <<>>
      /\ reply = Head(toClient) /\ reply \in Replies
      /\ toClient' = Tail(toClient) /\ toServer' = toServer
  BY DEF ChannelOK, Receives
<1>2. reply \in FinalReplies <=> reply.code \notin Preliminary
  BY <1>1 DEF FinalReplies
<1>3. Finals = Finals' + One(reply \in FinalReplies)
  BY <1>1, CountTail DEF Finals, FinalReplies
<1> QED
  BY <1>1, <1>2, <1>3
  DEF One, Pending, DataPending, StopsPending, DataMessages, StopMessages

LEMMA AnswersCounts ==
    ASSUME ChannelOK, NEW reply \in Replies, toClient' = Append(toClient, reply)
    PROVE  Finals' = Finals + One(reply.code \notin Preliminary)
<1>1. toClient \in Seq(Replies)
  BY DEF ChannelOK
<1>2. reply \in FinalReplies <=> reply.code \notin Preliminary
  BY DEF FinalReplies
<1>3. Finals' = Finals + One(reply \in FinalReplies)
  BY <1>1, CountAppend DEF Finals, FinalReplies
<1> QED BY <1>2, <1>3 DEF One

-------------------------------------------------------------------------------
(* Numbers.  What has been sent carries a number up to sent, so a command  *)
(* that is sent has one that nothing else has.                             *)

LEMMA SendsRange ==
    ASSUME ChannelOK, NEW c, Sends(c)
    PROVE  /\ Range(toServer') =
                 Range(toServer) \cup {[command |-> c, number |-> sent']}
           /\ toClient' = toClient /\ sent' = sent + 1
  BY DEF ChannelOK, Sends, Range

LEMMA ReceivesRange ==
    ASSUME ChannelOK, NEW reply, Receives(reply)
    PROVE  /\ reply \in Range(toClient) /\ reply \in Replies
           /\ Range(toClient') \subseteq Range(toClient)
           /\ toServer' = toServer /\ sent' = sent
  BY DEF ChannelOK, Receives, Range

LEMMA TakesRange ==
    ASSUME ChannelOK, NEW commands, Takes(commands)
    PROVE  /\ Request \in Range(toServer) /\ Request \in Messages
           /\ Request.command \in commands
           /\ Range(toServer') \subseteq Range(toServer)
           /\ sent' = sent
  BY DEF ChannelOK, Takes, Request, Range

LEMMA AppendRange ==
    ASSUME NEW S, NEW queue \in Seq(S), NEW e
    PROVE  Range(Append(queue, e)) = Range(queue) \cup {e}
  BY DEF Range

Issued ==
    /\ \A m \in Range(toServer) : m.number <= sent
    /\ \A reply \in Range(toClient) : reply.to <= sent
    /\ \A j \in Server!Jobs : request[j] <= sent
    /\ serving <= sent /\ cliNumber <= sent /\ tNumber <= sent

\* No command with this number is answered 150.
NotData(number) ==
    /\ \A m \in Range(toServer) : m.number = number => m.command \notin DataCommands
    /\ \A reply \in Range(toClient) : reply.to = number => reply.code \notin Preliminary

Numbering ==
    /\ Issued
    /\ cliPc = "wait" => NotData(cliNumber)
    /\ tPc = "wait227" => NotData(tNumber)

KeepsWaiting ==
    /\ cliNumber' \in {cliNumber, 0} /\ tNumber' \in {tNumber, 0}
    /\ cliPc' = "wait" => cliPc = "wait" /\ cliNumber' = cliNumber
    /\ tPc' = "wait227" => tPc = "wait227" /\ tNumber' = tNumber

Control == {"PASV", "PORT", "OTHER", "ABOR", "QUIT"}

\* How a step of the client changes what it waits for.
ClientEffect ==
    \/ /\ \E c \in Control : Sends(c)
       /\ cliPc' = "wait" /\ cliNumber' = sent' /\ UNCHANGED threadVars
    \/ Sends("ABOR") /\ cliPc' = "flag" /\ UNCHANGED <<cliNumber, threadVars>>
    \/ Sends("PASV") /\ tPc' = "wait227" /\ tNumber' = sent' /\ UNCHANGED cliVars
    \/ Sends(tCommand) /\ tPc' = "wait150" /\ tNumber' = sent' /\ UNCHANGED cliVars
    \/ KeepsWaiting /\ ((\E reply : Receives(reply)) \/ UNCHANGED channel)

LEMMA CommandLineEffect == ASSUME U_Enter \/ CommandLine PROVE ClientEffect
<1> USE DEF ClientEffect, KeepsWaiting, Control, Prompts, Exits, ThreadEnds,
            AbortEnds, threadVars, cliVars
<1>1. CASE U_Enter BY <1>1 DEF U_Enter
<1>2. CASE U_Alive BY <1>2 DEF U_Alive
<1>3. CASE U_Raises BY <1>3 DEF U_Raises
<1>4. CASE U_SetFlag BY <1>4 DEF U_SetFlag
<1>5. CASE U_CheckContext BY <1>5 DEF U_CheckContext
<1>6. CASE U_Cancel BY <1>6 DEF U_Cancel
<1>7. CASE U_Join BY <1>7 DEF U_Join
<1>8. CASE U_Quit BY <1>8 DEF U_Quit, CliSends
<1>9. CASE U_Command BY <1>9 DEF U_Command, CliSends
<1>10. CASE U_Port BY <1>10 DEF U_Port, CliSends
<1>11. CASE U_PortFails BY <1>11 DEF U_PortFails
<1>12. CASE U_StartsThread BY <1>12 DEF U_StartsThread
<1>13. CASE U_Reads
  <2>1. (\E reply : Receives(reply)) /\ (Prompts \/ Exits("gone"))
        /\ (UNCHANGED threadVars \/ ThreadEnds)
    BY <1>13 DEF U_Reads
  <2> QED BY <2>1
<1>14. CASE U_LoopEnds BY <1>14 DEF U_LoopEnds
<1> QED
  BY <1>1, <1>2, <1>3, <1>4, <1>5, <1>6, <1>7, <1>8, <1>9, <1>10, <1>11,
     <1>12, <1>13, <1>14 DEF CommandLine

LEMMA ThreadEffect == ASSUME Thread \/ DataPort PROVE ClientEffect
<1> USE DEF ClientEffect, KeepsWaiting, ThreadEnds, ThreadReads, ThreadGoes,
            cliVars
<1>1. CASE T_Start BY <1>1 DEF T_Start
<1>2. CASE T_Read227 BY <1>2 DEF T_Read227
<1>3. CASE T_SendCommand BY <1>3 DEF T_SendCommand
<1>4. CASE T_NoLocalFile BY <1>4 DEF T_NoLocalFile
<1>5. CASE T_Read150
  <2>1. (\E reply : ThreadReads(reply)) /\ tPc' \in {"open", "end"}
    BY <1>5 DEF T_Read150
  <2> QED BY <2>1
<1>6. CASE T_OpenFails BY <1>6 DEF T_OpenFails
<1>7. CASE T_SetContext BY <1>7 DEF T_SetContext
<1>8. CASE T_CheckFlag BY <1>8 DEF T_CheckFlag
<1>9. CASE T_Saves BY <1>9 DEF T_Saves
<1>10. CASE T_Ends BY <1>10 DEF T_Ends
<1>11. CASE T_Close BY <1>11 DEF T_Close
<1>12. CASE T_ClearFlag BY <1>12 DEF T_ClearFlag
<1>13. CASE T_ReadFinal BY <1>13 DEF T_ReadFinal
<1>14. CASE T_End BY <1>14 DEF T_End
<1>15. CASE D_Open BY <1>15 DEF D_Open, T_Open
<1>16. CASE D_Receives BY <1>16 DEF D_Receives, T_Receives
<1>17. CASE U_EndOfFile BY <1>17 DEF U_EndOfFile, Exits
<1>18. CASE T_EndOfFile BY <1>18 DEF T_EndOfFile
<1>19. CASE T_BufferRaises BY <1>19 DEF T_BufferRaises
<1> QED
  BY <1>1, <1>2, <1>3, <1>4, <1>5, <1>6, <1>7, <1>8, <1>9, <1>10, <1>11,
     <1>12, <1>13, <1>14, <1>15, <1>16, <1>17, <1>18, <1>19
  DEF Thread, DataPort, D_EndOfFile

LEMMA NumbersAreNat == Numbers \subseteq Nat
  BY BoundsAssumption DEF Numbers

LEMMA NaturalNumbers ==
    ASSUME TypeInv
    PROVE  /\ ChannelOK /\ sent \in Nat
           /\ \A m \in Range(toServer) : m \in Messages /\ m.number \in Nat
           /\ \A reply \in Range(toClient) : reply \in Replies /\ reply.to \in Nat
           /\ \A j \in Server!Jobs : request[j] \in Nat
           /\ serving \in Nat /\ cliNumber \in Nat /\ tNumber \in Nat
<1>1. ChannelOK /\ LocalsOK /\ LoopOK
  BY DEF TypeInv
<1>2. Range(toServer) \subseteq Messages /\ Range(toClient) \subseteq Replies
  BY <1>1 DEF ChannelOK, Range
<1>3. \A m \in Messages : m.number \in Nat
  BY NumbersAreNat DEF Messages
<1>4. \A reply \in Replies : reply.to \in Nat
  BY NumbersAreNat DEF Replies
<1>5. \A j \in Server!Jobs : request[j] \in Nat
  BY <1>1, NumbersAreNat DEF LoopOK
<1>6. sent \in Nat /\ serving \in Nat /\ cliNumber \in Nat /\ tNumber \in Nat
  BY <1>1, NumbersAreNat DEF ChannelOK, LocalsOK, LoopOK
<1> QED BY <1>1, <1>2, <1>3, <1>4, <1>5, <1>6

LEMMA NumberingInit == SystemInit => Numbering
<1> SUFFICES ASSUME SystemInit PROVE Numbering
  OBVIOUS
<1>1. Range(toServer) = {} /\ Range(toClient) = {}
  BY DEF SystemInit, Init, Range
<1>2. sent = 0 /\ serving = 0 /\ cliNumber = 0 /\ tNumber = 0
      /\ request = [j \in Server!Jobs |-> 0]
  BY DEF SystemInit, Init
<1>3. cliPc = "prompt" /\ tPc = "none"
  BY DEF SystemInit, Init
<1> QED BY <1>1, <1>2, <1>3 DEF Numbering, Issued

LEMMA ClientNumbering ==
    ASSUME TypeInv, TypeInv', Numbering, UNCHANGED <<serving, request>>, ClientEffect
    PROVE  Numbering'
<1>0. /\ ChannelOK /\ sent \in Nat /\ sent' \in Nat
      /\ \A m \in Range(toServer) : m.number \in Nat
      /\ \A reply \in Range(toClient) : reply.to \in Nat
      /\ \A j \in Server!Jobs : request[j] \in Nat
      /\ serving \in Nat /\ cliNumber \in Nat /\ tNumber \in Nat
  <2>1. sent' \in Nat
    BY NumbersAreNat DEF TypeInv, ChannelOK
  <2> QED BY <2>1, NaturalNumbers
<1> DEFINE WaitsFor(c) ==
      \/ /\ c \in Control /\ cliPc' = "wait" /\ cliNumber' = sent'
         /\ UNCHANGED threadVars
      \/ c = "ABOR" /\ cliPc' = "flag" /\ UNCHANGED <<cliNumber, threadVars>>
      \/ c = "PASV" /\ tPc' = "wait227" /\ tNumber' = sent' /\ UNCHANGED cliVars
      \/ tPc' = "wait150" /\ tNumber' = sent' /\ UNCHANGED cliVars
<1>1. CASE \E c \in Lines : Sends(c) /\ WaitsFor(c)
  <2>1. PICK c \in Lines : Sends(c) /\ WaitsFor(c)
    BY <1>1
  <2>2. /\ Range(toServer') =
               Range(toServer) \cup {[command |-> c, number |-> sent']}
        /\ toClient' = toClient /\ sent' = sent + 1
    BY <1>0, <2>1, SendsRange
  <2>3. Issued'
    BY <1>0, <2>1, <2>2 DEF Numbering, Issued, cliVars, threadVars
  <2>4. cliPc' = "wait" => NotData(cliNumber)'
    BY <1>0, <2>1, <2>2
    DEF Numbering, Issued, NotData, Control, DataCommands, cliVars, threadVars
  <2>5. tPc' = "wait227" => NotData(tNumber)'
    BY <1>0, <2>1, <2>2
    DEF Numbering, Issued, NotData, Control, DataCommands, cliVars, threadVars
  <2> QED BY <2>3, <2>4, <2>5 DEF Numbering
<1>2. CASE KeepsWaiting /\ ((\E reply : Receives(reply)) \/ UNCHANGED channel)
  <2>1. /\ Range(toClient') \subseteq Range(toClient)
        /\ toServer' = toServer /\ sent' = sent
    BY <1>0, <1>2, ReceivesRange DEF channel
  <2>2. Issued'
    BY <1>0, <1>2, <2>1 DEF Numbering, Issued, KeepsWaiting
  <2>3. cliPc' = "wait" => NotData(cliNumber)'
    BY <1>2, <2>1 DEF Numbering, NotData, KeepsWaiting
  <2>4. tPc' = "wait227" => NotData(tNumber)'
    BY <1>2, <2>1 DEF Numbering, NotData, KeepsWaiting
  <2> QED BY <2>2, <2>3, <2>4 DEF Numbering
<1>3. Control \subseteq Lines /\ tCommand \in Lines /\ "ABOR" \in Lines
      /\ "PASV" \in Lines
  BY DEF Control, Lines, TypeInv, LocalsOK
<1> QED BY <1>1, <1>2, <1>3 DEF ClientEffect

\* An answer to a command that has been taken, and whether it may be 150.
LEMMA AnswerNumbering ==
    ASSUME TypeInv, Numbering, ClientStays, sent' = sent,
           NEW reply, toClient' = Append(toClient, reply), reply.to <= sent,
           \/ reply.code \notin Preliminary
           \/ \E m \in Range(toServer) :
                 m.number = reply.to /\ m.command \in DataCommands,
           Range(toServer') \subseteq Range(toServer),
           \A j \in Server!Jobs : request'[j] <= sent, serving' <= sent
    PROVE  Numbering'
<1>1. Range(toClient') = Range(toClient) \cup {reply}
  BY AppendRange DEF TypeInv, ChannelOK
<1>2. UNCHANGED <<cliPc, cliNumber, tPc, tNumber>>
  BY DEF ClientStays, cliVars, threadVars
<1>3. Issued'
  BY <1>1, <1>2 DEF Numbering, Issued
<1>4. cliPc' = "wait" => NotData(cliNumber)'
  BY <1>1, <1>2 DEF Numbering, NotData
<1>5. tPc' = "wait227" => NotData(tNumber)'
  BY <1>1, <1>2 DEF Numbering, NotData
<1> QED BY <1>3, <1>4, <1>5 DEF Numbering

LEMMA SilentNumbering ==
    ASSUME Numbering, ClientStays, sent' = sent, toClient' = toClient,
           Range(toServer') \subseteq Range(toServer),
           \A j \in Server!Jobs : request'[j] <= sent, serving' <= sent
    PROVE  Numbering'
  BY DEF ClientStays, cliVars, threadVars, Numbering, Issued, NotData

\* What a step of the command loop does that the client can come to see.
L_Answers ==
    /\ cPc = "idle" /\ cPc' \in {"idle", "closed"} /\ Takes(Lines)
    /\ cPc' = "closed" => Request.command = "QUIT"
    /\ \E code \in Codes \ Preliminary : Answered(code)
    /\ UNCHANGED <<serving, request, wPc, sessionAbort, started>>

L_Starts ==
    /\ cPc = "idle" /\ cPc' = "idle" /\ Takes(DataCommands)
    /\ \E code \in Preliminary : Answered(code)
    /\ ~transferActive /\ ~sessionAbort'
    /\ started' = started + 1 /\ wPc' = [wPc EXCEPT ![started'] = "run"]
    /\ request' = [request EXCEPT ![started'] = Request.number]
    /\ UNCHANGED serving

L_Stops ==
    /\ cPc = "idle" /\ cPc' = "flag" /\ Takes(Stops)
    /\ serving' = Request.number /\ command' = Request.command
    /\ UNCHANGED <<toClient, request, wPc, sessionAbort, started>>

L_Handles ==
    /\ cPc \in Handling
    /\ IF cPc = "reply"
       THEN /\ toClient' = Append(toClient, HandlerReply)
            /\ cPc' = IF command = "ABOR" THEN "idle" ELSE "closed"
       ELSE toClient' = toClient /\ cPc' \in Handling \cup {"crashed"} /\ cPc' # "flag"
    /\ sessionAbort' = IF cPc = "flag" THEN TRUE ELSE sessionAbort
    /\ UNCHANGED <<toServer, sent, loopVars, wPc, started, command>>

L_Leaves ==
    /\ cPc = "idle" /\ cPc' = "closed" /\ cliPc \in Exited
    /\ UNCHANGED <<channel, loopVars, wPc, sessionAbort, started>>

LoopEffect ==
    /\ ClientStays
    /\ L_Answers \/ L_Starts \/ L_Stops \/ L_Handles \/ L_Leaves

LEMMA CommandLoopEffect == ASSUME ChannelOK, CommandLoop PROVE LoopEffect
<1> USE DEF LoopEffect, Server!sessionVars, Server!workerVars, Server!jobFacts,
            Server!dataPort, loopVars
<1>0. /\ {"200", "221", "225", "226", "227", "425", "426", "450", "550"}
            \subseteq Codes \ Preliminary
      /\ \A commands \in SUBSET Lines : Takes(commands) => Takes(Lines)
      /\ "PASV" \in Lines /\ "PORT" \in Lines /\ "OTHER" \in Lines
      /\ DataCommands \subseteq Lines /\ Stops \subseteq Lines
  BY DEF Codes, Preliminary, Takes, Lines, Stops
<1>1. CASE S_Refuse
  <2>1. Takes(Lines) /\ Answered("450")
    BY <1>0, <1>1 DEF S_Refuse
  <2> QED BY <1>0, <1>1, <2>1 DEF S_Refuse, Server!C_Refuse, L_Answers, Takes
<1>2. CASE S_Passive
  <2>1. Takes(Lines) /\ \E code \in {"227", "425"} : Answered(code)
    BY <1>0, <1>2 DEF S_Passive
  <2> QED BY <1>0, <1>2, <2>1 DEF S_Passive, Server!C_Passive, L_Answers, Takes
<1>3. CASE S_Port
  <2>1. Takes(Lines) /\ Answered("200")
    BY <1>0, <1>3 DEF S_Port
  <2> QED BY <1>0, <1>3, <2>1 DEF S_Port, Server!C_Port, L_Answers, Takes
<1>4. CASE S_Transfer
  BY <1>4 DEF S_Transfer, Server!C_Transfer, Server!Busy, L_Starts, Takes
<1>5. CASE S_Other
  <2>1. Takes(Lines) /\ \E code \in {"200", "550"} : Answered(code)
    BY <1>0, <1>5 DEF S_Other
  <2> QED BY <1>0, <1>5, <2>1 DEF S_Other, Server!C_Other, L_Answers, Takes
<1>6. CASE S_Abort /\ transferActive
  BY <1>6 DEF S_Abort, Server!C_Abort, L_Stops, Stops, Takes
<1>7. CASE S_Abort /\ ~transferActive
  <2>1. Takes(Lines) /\ \E code \in {"221", "225"} : Answered(code)
    BY <1>0, <1>7 DEF S_Abort, Stops
  <2> QED BY <1>0, <1>7, <2>1 DEF S_Abort, Server!C_Abort, L_Answers, Takes
<1>8. CASE S_Handler
  BY <1>8, HandlerStep DEF S_Handler, HandlerReply, L_Handles
<1>9. CASE S_Disconnect
  BY <1>9 DEF S_Disconnect, Server!C_Disconnect, L_Leaves
<1> QED
  BY <1>1, <1>2, <1>3, <1>4, <1>5, <1>6, <1>7, <1>8, <1>9 DEF CommandLoop

LEMMA LoopNumbering ==
    ASSUME ServerInv, TypeInv, TypeInv', Numbering, LoopEffect
    PROVE  Numbering'
<1>1. /\ ChannelOK /\ Issued /\ serving <= sent
      /\ \A j \in Server!Jobs : request[j] <= sent
      /\ \A m \in Range(toServer) : m.number <= sent
  BY NaturalNumbers DEF Numbering, Issued
<1>2. CASE L_Answers
  <2>1. PICK code \in Codes \ Preliminary : Answered(code)
    BY <1>2 DEF L_Answers
  <2> DEFINE reply == [to |-> Request.number, code |-> code, about |-> Request.number]
  <2>2. /\ Request \in Range(toServer) /\ sent' = sent
        /\ Range(toServer') \subseteq Range(toServer)
    BY <1>1, <1>2, TakesRange DEF L_Answers
  <2>3. /\ toClient' = Append(toClient, reply) /\ reply.to <= sent
        /\ reply.code \notin Preliminary
    BY <1>1, <2>1, <2>2 DEF Answered
  <2>4. ClientStays /\ UNCHANGED <<serving, request>>
    BY <1>2 DEF LoopEffect, L_Answers
  <2> HIDE DEF reply
  <2> QED BY <1>1, <2>2, <2>3, <2>4, AnswerNumbering
<1>3. CASE L_Starts
  <2>0. PICK code \in Preliminary : Answered(code)
    BY <1>3 DEF L_Starts
  <2> DEFINE reply == [to |-> Request.number, code |-> code, about |-> Request.number]
  <2>1. /\ Request \in Range(toServer) /\ sent' = sent
        /\ Request.command \in DataCommands
        /\ Range(toServer') \subseteq Range(toServer)
    BY <1>1, <1>3, TakesRange DEF L_Starts
  <2>2. toClient' = Append(toClient, reply) /\ reply.to = Request.number
        /\ reply.to <= sent
    BY <1>1, <2>0, <2>1 DEF Answered
  <2>3. ClientStays /\ serving' = serving
        /\ \A j \in Server!Jobs : request'[j] <= sent
    BY <1>1, <1>3, <2>1 DEF LoopEffect, L_Starts, TypeInv, LoopOK
  <2> HIDE DEF reply
  <2> QED BY <1>1, <2>1, <2>2, <2>3, AnswerNumbering
<1>4. CASE L_Stops
  <2>1. /\ Request \in Range(toServer) /\ sent' = sent
        /\ Range(toServer') \subseteq Range(toServer)
    BY <1>1, <1>4, TakesRange DEF L_Stops
  <2>2. ClientStays /\ toClient' = toClient /\ request' = request
        /\ serving' = Request.number
    BY <1>4 DEF LoopEffect, L_Stops
  <2> QED BY <1>1, <2>1, <2>2, SilentNumbering
<1>5. CASE L_Handles
  <2>1. ClientStays /\ UNCHANGED <<toServer, sent, serving, request>>
    BY <1>5 DEF LoopEffect, L_Handles, loopVars
  <2>2. CASE toClient' = toClient
    BY <1>1, <2>1, <2>2, SilentNumbering
  <2>3. CASE toClient' = Append(toClient, HandlerReply)
    <3>1. HandlerReply.to <= sent /\ HandlerReply.code \notin Preliminary
      BY <1>1 DEF HandlerReply, Preliminary
    <3> QED BY <1>1, <2>1, <2>3, <3>1, AnswerNumbering
  <2> QED BY <1>5, <2>2, <2>3 DEF L_Handles
<1>6. CASE L_Leaves
  BY <1>1, <1>6, SilentNumbering DEF LoopEffect, L_Leaves, channel, loopVars
<1> QED BY <1>2, <1>3, <1>4, <1>5, <1>6 DEF LoopEffect

LEMMA WorkerNumbering ==
    ASSUME ServerInv, TypeInv, Numbering, NEW j \in Server!Jobs, S_Worker(j)
    PROVE  Numbering'
<1>1. /\ ChannelOK /\ Issued /\ serving <= sent
      /\ \A k \in Server!Jobs : request[k] <= sent
  BY NaturalNumbers DEF Numbering, Issued
<1>2. /\ ClientStays /\ UNCHANGED <<toServer, sent, serving, request>>
      /\ toClient' = toClient \/ toClient' = Append(toClient, FinalReply(j))
  BY WorkerStep DEF ServerInv, loopVars, WorkerEffect
<1>3. FinalReply(j).to <= sent /\ FinalReply(j).code \notin Preliminary
  BY <1>1 DEF FinalReply, Preliminary
<1> QED BY <1>1, <1>2, <1>3, AnswerNumbering, SilentNumbering

LEMMA NumberingInvariance == SystemSpec => []Numbering
<1>1. /\ ServerInv /\ TypeInv /\ TypeInv' /\ Numbering
      /\ [SystemNext]_systemVars
      => Numbering'
  <2> SUFFICES ASSUME ServerInv, TypeInv, TypeInv', Numbering,
                      [SystemNext]_systemVars
               PROVE  Numbering'
    OBVIOUS
  <2>1. CASE Client \/ DataPort
    <3>1. ClientEffect /\ UNCHANGED <<serving, request>>
      BY <2>1, CommandLineEffect, ThreadEffect
      DEF Client, DataPort, D_Open, D_Receives, D_EndOfFile, ServerStays, loopVars
    <3> QED BY <3>1, ClientNumbering
  <2>2. CASE CommandLoop
    BY <2>2, CommandLoopEffect, LoopNumbering DEF TypeInv
  <2>3. CASE \E j \in Server!Jobs : S_Worker(j)
    BY <2>3, WorkerNumbering
  <2>4. CASE Resting \/ UNCHANGED systemVars
    BY <2>4 DEF Resting, systemVars, clientVars, vars, channel, cliVars, threadVars,
                loopVars, Numbering, Issued, NotData
  <2> QED BY <2>1, <2>2, <2>3, <2>4 DEF SystemNext
<1> QED BY NumberingInit, TypeInvariance, <1>1, PTL DEF SystemSpec

-------------------------------------------------------------------------------
(* The balance.  The server skips a final reply only for an ABOR or a QUIT *)
(* that came while its job was undecided, so what may be skipped is        *)
(* bounded by the stops on their way as well as by the jobs there are; an  *)
(* interrupt will send one stop more.                                      *)

Live == cPc \notin Server!Gone /\ cliPc \notin Exited
Interrupting ==
    line = "interrupt" /\ cliPc \in {"flag", "check", "cancel", "join", "joining"}

Enough == Excess >= Expected \/ Excess >= Skips
EnoughForQuit == Interrupting => Excess >= Expected \/ Excess > Skips
EnoughForPassive == tPc = "wait227" /\ cliPc # "wait" => Excess >= Skippable
\* What may be on its way for nobody: an ABOR's reply, and the final reply
\* of a transfer whose thread has ended before it.
Surplus == aborts + abandoned
NotTooMany == ~misread => Excess <= Surplus

LEMMA SurplusType == ASSUME LocalsOK PROVE Surplus \in Nat
  BY DEF LocalsOK, Surplus

LEMMA AbandonedOnce ==
    ASSUME LocalsOK, aborts' = aborts, abandoned' = abandoned + 1
    PROVE  Surplus' = Surplus + 1
  BY DEF LocalsOK, Surplus

Balance == Live => Enough /\ EnoughForQuit /\ EnoughForPassive /\ NotTooMany

LEMMA BalanceInit == Sums /\ SystemInit => Balance
<1> SUFFICES ASSUME Sums, SystemInit PROVE Balance
  OBVIOUS
<1>1. toServer = <<>> /\ cliPc = "prompt" /\ tPc = "none" /\ cPc = "idle"
      /\ toClient = <<>> /\ Surplus = 0 /\ misread = FALSE
      /\ wPc = [j \in Server!Jobs |-> "none"]
  BY DEF SystemInit, Init, Server!Init, Surplus
<1>2. Finals = 0 /\ DataPending = 0 /\ StopsPending = 0 /\ Pending = 0
  BY <1>1, CountEmpty DEF Finals, DataPending, StopsPending, Pending
<1>3. ~Working /\ ~Owes
  BY <1>1
  DEF Working, Owes, Owing, Undecided, Server!Running, Server!Beginning
<1>4. Excess = 0 /\ Skippable = 0 /\ Expected = 0 /\ Skips = 0
  BY <1>1, <1>2, <1>3
  DEF Sums, Skippable, Expected, Skips, Skipping, One, Reading, Transferring
<1> QED
  BY <1>1, <1>4
  DEF Balance, Enough, EnoughForQuit, EnoughForPassive, NotTooMany, Interrupting

\* Steps that change none of the sums for the worse.
Harmless ==
    /\ Live' => Live
    /\ Excess' = Excess /\ Skippable' <= Skippable
    /\ Expected' <= Expected /\ Skips' <= Skips
    /\ Interrupting' => Interrupting
    /\ tPc' = "wait227" /\ cliPc' # "wait" => tPc = "wait227" /\ cliPc # "wait"
    /\ Surplus' = Surplus /\ (misread => misread')

LEMMA HarmlessBalance ==
    ASSUME Sums, Sums', Balance, Surplus \in Nat, Harmless
    PROVE  Balance'
<1> SUFFICES ASSUME Live'
             PROVE  (Enough /\ EnoughForQuit /\ EnoughForPassive /\ NotTooMany)'
  BY DEF Balance
<1>1. Enough /\ EnoughForQuit /\ EnoughForPassive /\ NotTooMany
  BY DEF Harmless, Balance
<1>2. /\ Excess \in Int /\ Skippable \in Nat /\ Expected \in Nat /\ Skips \in Nat
      /\ Excess' \in Int /\ Skippable' \in Nat /\ Expected' \in Nat /\ Skips' \in Nat
  BY DEF Sums
<1>3. Enough'
  BY <1>1, <1>2 DEF Harmless, Enough
<1>4. EnoughForQuit'
  <2> SUFFICES ASSUME Interrupting'
               PROVE  Excess' >= Expected' \/ Excess' > Skips'
    BY DEF EnoughForQuit
  <2>1. Excess >= Expected \/ Excess > Skips
    BY <1>1 DEF Harmless, EnoughForQuit
  <2> QED BY <1>2, <2>1 DEF Harmless
<1>5. EnoughForPassive'
  BY <1>1, <1>2 DEF Harmless, EnoughForPassive
<1>6. NotTooMany'
  BY <1>1, <1>2 DEF Harmless, NotTooMany
<1> QED BY <1>3, <1>4, <1>5, <1>6

\* A step of the client leaves the server's part of the sums as it is.
LEMMA ClientKeepsServer ==
    ASSUME UNCHANGED sessionVars
    PROVE  /\ cPc' = cPc /\ sessionAbort' = sessionAbort
           /\ One(cPc # "idle")' = One(cPc # "idle")
           /\ One(Owes)' = One(Owes) /\ One(Working)' = One(Working)
           /\ (Owes)' = Owes /\ (Working)' = Working
  BY DEF sessionVars, Owes, Working, One

\* A step of the client that neither sends nor reads.
Local ==
    /\ UNCHANGED <<channel, sessionVars>>
    /\ \/ cliPc' \in Exited
       \/ /\ cliPc \in Exited => cliPc' \in Exited
          /\ cliPc' = "wait" <=> cliPc = "wait"
          /\ tPc' \in Reading \cup Transferring <=> tPc \in Reading \cup Transferring
          /\ tPc' \in {"start", "wait227", "prepare"} => tPc \in {"start", "wait227", "prepare"}
          /\ tPc' = "wait227" => tPc = "wait227"
          /\ Interrupting' => Interrupting
          /\ Surplus' = Surplus /\ (misread => misread')

LEMMA LocalBalance ==
    ASSUME Sums, Sums', Balance, Surplus \in Nat, Local
    PROVE  Balance'
<1>1. CASE cliPc' \in Exited
  BY <1>1 DEF Balance, Live
<1>2. CASE cliPc' \notin Exited
  <2>1. /\ cPc' = cPc /\ sessionAbort' = sessionAbort
        /\ Owes' = Owes /\ Working' = Working
    BY ClientKeepsServer DEF Local
  <2>2. UNCHANGED <<Finals, Pending, DataPending, StopsPending>>
    BY DEF Local, channel, Finals, Pending, DataPending, StopsPending,
           FinalReplies, DataMessages, StopMessages
  <2>3. Live' => Live
    BY <1>2, <2>1 DEF Local, Live
  <2>4. Excess' = Excess
    <3>1. /\ One(Owes') = One(Owes) /\ One(cPc' # "idle") = One(cPc # "idle")
          /\ One(cliPc' = "wait") = One(cliPc = "wait")
          /\ One(tPc' \in Reading \cup Transferring) = One(tPc \in Reading \cup Transferring)
      BY <1>2, <2>1 DEF Local, One
    <3> QED BY <2>2, <3>1 DEF Sums
  <2>5. Skippable' = Skippable /\ Skips' = Skips
    BY <2>1, <2>2 DEF Skippable, Skips, Skipping, One
  <2>6. Expected' <= Expected
    BY <1>2, <2>5 DEF Local, Expected, Sums, One
  <2>7. Skippable' <= Skippable /\ Skips' <= Skips
    BY <2>5 DEF Sums
  <2>8. /\ Interrupting' => Interrupting
        /\ tPc' = "wait227" /\ cliPc' # "wait" => tPc = "wait227" /\ cliPc # "wait"
        /\ Surplus' = Surplus /\ (misread => misread')
    BY <1>2 DEF Local
  <2>9. Harmless
    BY <2>3, <2>4, <2>6, <2>7, <2>8 DEF Harmless
  <2> QED BY <2>9, HarmlessBalance
<1> QED BY <1>1, <1>2

LEMMA LocalSteps ==
    ASSUME ClientInv, UNCHANGED sessionVars,
           \/ U_Enter \/ (U_Alive /\ ~AbortsTransfer) \/ U_Raises \/ U_SetFlag
           \/ U_CheckContext \/ U_Cancel \/ U_Join \/ U_PortFails \/ U_LoopEnds
           \/ (T_Start /\ dataMode # "none") \/ T_NoLocalFile \/ T_OpenFails
           \/ T_SetContext \/ T_CheckFlag \/ T_Saves \/ T_Ends \/ T_Close
           \/ T_ClearFlag \/ T_End \/ T_Open \/ T_Receives \/ U_EndOfFile
    PROVE  Local
<1> USE DEF Local, Exited, Interrupting, Reading, Transferring, Prompts, Exits,
            ThreadEnds, ThreadGoes, AbortEnds, cliVars, threadVars, history,
            Surplus
<1>1. CASE U_Enter BY <1>1 DEF U_Enter
<1>2. CASE U_Alive /\ ~AbortsTransfer BY <1>2 DEF U_Alive
<1>3. CASE U_Raises BY <1>3 DEF U_Raises
<1>4. CASE U_SetFlag BY <1>4 DEF U_SetFlag
<1>5. CASE U_CheckContext BY <1>5 DEF U_CheckContext
<1>6. CASE U_Cancel BY <1>6 DEF U_Cancel
<1>7. CASE U_Join BY <1>7 DEF U_Join
<1>8. CASE U_PortFails BY <1>8 DEF U_PortFails
<1>9. CASE U_LoopEnds BY <1>9 DEF U_LoopEnds
<1>10. CASE T_Start /\ dataMode # "none" BY <1>10 DEF T_Start
<1>11. CASE T_NoLocalFile BY <1>11 DEF T_NoLocalFile
<1>12. CASE T_OpenFails BY <1>12 DEF T_OpenFails
<1>13. CASE T_SetContext BY <1>13 DEF T_SetContext
<1>14. CASE T_CheckFlag BY <1>14 DEF T_CheckFlag
<1>15. CASE T_Saves BY <1>15 DEF T_Saves
<1>16. CASE T_Ends BY <1>16 DEF T_Ends
<1>17. CASE T_Close BY <1>17 DEF T_Close
<1>18. CASE T_ClearFlag BY <1>18 DEF T_ClearFlag
<1>19. CASE T_End BY <1>19 DEF T_End
<1>20. CASE T_Open BY <1>20 DEF T_Open
<1>21. CASE T_Receives BY <1>21 DEF T_Receives
<1>22. CASE U_EndOfFile BY <1>22 DEF U_EndOfFile
<1> QED
  BY <1>1, <1>2, <1>3, <1>4, <1>5, <1>6, <1>7, <1>8, <1>9, <1>10, <1>11,
     <1>12, <1>13, <1>14, <1>15, <1>16, <1>17, <1>18, <1>19, <1>20, <1>21, <1>22

\* While no thread runs, whatever may be skipped is owed.
LEMMA EnoughWithoutThread ==
    ASSUME Sums, tPc = "none", cliPc # "wait"
    PROVE  Excess >= Expected /\ Expected = Skippable /\ Excess >= DataPending + StopsPending
<1>1. /\ Finals \in Nat /\ Pending \in Nat /\ DataPending \in Nat
      /\ StopsPending \in Nat /\ DataPending + StopsPending <= Pending
      /\ Working => Owes
      /\ Excess = Finals + Pending + One(cPc # "idle") + One(Owes)
                  - One(cliPc = "wait") - One(tPc \in Reading \cup Transferring)
  BY DEF Sums
<1>2. One(cliPc = "wait") = 0 /\ One(tPc \in Reading \cup Transferring) = 0
  BY DEF One, Reading, Transferring
<1>3. One(cPc # "idle") \in {0, 1} /\ One(Owes) >= One(Working)
      /\ One(Owes) \in {0, 1} /\ One(Working) \in {0, 1}
  BY <1>1 DEF One
<1>4. Expected = One(Working) + DataPending /\ Skippable = One(Working) + DataPending
  BY <1>1, <1>3 DEF Expected, Skippable, One
<1> QED BY <1>1, <1>2, <1>3, <1>4

LEMMA CliSendsBalance ==
    ASSUME ClientInv, TypeInv, TypeInv', Sums, Sums', Balance,
           UNCHANGED <<sessionVars, threadVars, history, line>>,
           NEW c \in Control, CliSends(c),
           cliPc = "dispatch" \/ (cliPc = "joining" /\ c = "QUIT")
    PROVE  Balance'
<1> SUFFICES ASSUME Live' PROVE (Enough /\ EnoughForQuit /\ EnoughForPassive /\ NotTooMany)'
  BY DEF Balance
<1>0. /\ ChannelOK /\ ChannelOK' /\ c \in Lines /\ Sends(c) /\ cliPc' = "wait"
      /\ c \notin DataCommands /\ Surplus \in Nat
  BY SurplusType DEF TypeInv, Control, Lines, DataCommands, CliSends
<1>1. /\ Finals' = Finals /\ Pending' = Pending + 1
      /\ DataPending' = DataPending + One(c \in DataCommands)
      /\ StopsPending' = StopsPending + One(c \in Stops)
  BY <1>0, SendsCounts
<1>2. /\ cPc' = cPc /\ sessionAbort' = sessionAbort
      /\ Owes' = Owes /\ Working' = Working
      /\ One(cPc' # "idle") = One(cPc # "idle") /\ One(Owes') = One(Owes)
      /\ UNCHANGED <<tPc, Surplus, misread>>
  BY ClientKeepsServer DEF threadVars, history, One, Surplus
<1>3. Live
  BY <1>0, <1>2 DEF Live, Exited
<1>4. Excess' = Excess
  <2>1. One(cliPc' = "wait") = 1 /\ One(cliPc = "wait") = 0
        /\ One(tPc' \in Reading \cup Transferring) = One(tPc \in Reading \cup Transferring)
    BY <1>0, <1>2 DEF One
  <2>2. One(cPc # "idle") \in Nat /\ One(Owes) \in Nat
        /\ One(tPc \in Reading \cup Transferring) \in Nat
    BY DEF One
  <2> QED BY <1>1, <1>2, <2>1, <2>2 DEF Sums
<1>5. Expected' = Expected
  BY <1>0, <1>1, <1>2 DEF Expected, Skippable, One, Sums
<1>6. Skips' = Skips + One(c \in Stops)
  BY <1>1, <1>2 DEF Skips, Skipping, One, Sums
<1>7. Enough'
  <2>1. CASE cliPc = "dispatch"
    <3>1. tPc = "none"
      BY <2>1 DEF ClientInv, NoThreadMeanwhile
    <3> QED BY <2>1, <3>1, <1>4, <1>5, EnoughWithoutThread DEF Enough
  <2>2. CASE cliPc = "joining"
    <3>1. Interrupting
      BY <2>2 DEF ClientInv, NoThreadMeanwhile, Interrupting
    <3>2. Excess >= Expected \/ Excess > Skips
      BY <1>3, <3>1 DEF Balance, EnoughForQuit
    <3>3. Skips' <= Skips + 1
      BY <1>6 DEF One, Sums
    <3> QED BY <1>4, <1>5, <3>2, <3>3 DEF Enough, Sums
  <2> QED BY <2>1, <2>2
<1>8. EnoughForQuit' /\ EnoughForPassive'
  BY <1>0 DEF EnoughForQuit, EnoughForPassive, Interrupting
<1>9. NotTooMany'
  BY <1>2, <1>3, <1>4 DEF Balance, NotTooMany
<1> QED BY <1>7, <1>8, <1>9

LEMMA AbortBalance ==
    ASSUME TypeInv, TypeInv', Sums, Sums', Balance, UNCHANGED sessionVars,
           U_Alive, AbortsTransfer
    PROVE  Balance'
<1> SUFFICES ASSUME Live' PROVE (Enough /\ EnoughForQuit /\ EnoughForPassive /\ NotTooMany)'
  BY DEF Balance
<1>0. /\ ChannelOK /\ ChannelOK' /\ "ABOR" \in Lines /\ Sends("ABOR")
      /\ cliPc = "alive" /\ cliPc' = "flag" /\ Surplus' = Surplus + 1
      /\ Surplus \in Nat /\ UNCHANGED <<tPc, line, misread>>
  <2>1. aborts' = aborts + 1 /\ abandoned' = abandoned
        /\ aborts \in Nat /\ abandoned \in Nat
    BY DEF TypeInv, LocalsOK, U_Alive
  <2>2. Surplus' = Surplus + 1 /\ Surplus \in Nat
    BY <2>1 DEF Surplus
  <2> QED BY <2>2 DEF TypeInv, Lines, U_Alive, threadVars
<1>1. /\ Finals' = Finals /\ Pending' = Pending + 1
      /\ DataPending' = DataPending + One("ABOR" \in DataCommands)
      /\ StopsPending' = StopsPending + One("ABOR" \in Stops)
  BY <1>0, SendsCounts
<1>2. /\ cPc' = cPc /\ sessionAbort' = sessionAbort
      /\ Owes' = Owes /\ Working' = Working
      /\ One(cPc' # "idle") = One(cPc # "idle") /\ One(Owes') = One(Owes)
  BY ClientKeepsServer DEF One
<1>3. Live
  BY <1>0, <1>2 DEF Live, Exited
<1>4. Excess' = Excess + 1
  <2>1. One(cliPc' = "wait") = 0 /\ One(cliPc = "wait") = 0
        /\ One(tPc' \in Reading \cup Transferring) = One(tPc \in Reading \cup Transferring)
    BY <1>0 DEF One
  <2>2. One(cPc # "idle") \in Nat /\ One(Owes) \in Nat
        /\ One(tPc \in Reading \cup Transferring) \in Nat
    BY DEF One
  <2> QED BY <1>1, <1>2, <2>1, <2>2 DEF Sums
<1>5. Expected' = Expected /\ Skippable' = Skippable
  BY <1>0, <1>1, <1>2 DEF Expected, Skippable, One, Sums, DataCommands
<1>6. Skips' = Skips + 1
  BY <1>1, <1>2 DEF Skips, Skipping, One, Sums, Stops
\* Whatever the thread is at, one reply more is as many as may be skipped.
<1>7. Excess + 1 >= Expected
  <2>1. CASE tPc = "wait227"
    <3>1. Excess >= Skippable
      BY <1>0, <1>3, <2>1 DEF Balance, EnoughForPassive
    <3> QED BY <3>1 DEF Expected, One, Sums
  <2>2. CASE tPc # "wait227"
    <3>1. /\ Finals \in Nat /\ Pending \in Nat /\ DataPending \in Nat
          /\ StopsPending \in Nat /\ DataPending + StopsPending <= Pending
          /\ Working => Owes
          /\ Excess = Finals + Pending + One(cPc # "idle") + One(Owes)
                      - One(cliPc = "wait") - One(tPc \in Reading \cup Transferring)
      BY DEF Sums
    <3>2. /\ One(cliPc = "wait") = 0 /\ One(cPc # "idle") \in {0, 1}
          /\ One(Owes) \in {0, 1} /\ One(Working) \in {0, 1}
          /\ One(Owes) >= One(Working)
      BY <1>0, <3>1 DEF One
    <3>3. One(tPc \in Reading \cup Transferring) + One(tPc \in {"start", "wait227", "prepare"}) <= 1
          /\ One(tPc \in Reading \cup Transferring) \in {0, 1}
          /\ One(tPc \in {"start", "wait227", "prepare"}) \in {0, 1}
      BY <2>2 DEF One, Reading, Transferring
    <3> QED BY <3>1, <3>2, <3>3 DEF Expected, Skippable
  <2> QED BY <2>1, <2>2
<1>8. Enough' /\ EnoughForQuit' /\ EnoughForPassive'
  <2>1. Expected >= Skippable
    BY DEF Expected, One, Sums
  <2>2. Excess' >= Expected'
    BY <1>4, <1>5, <1>7
  <2>3. Excess' >= Skippable'
    BY <1>5, <2>1, <2>2 DEF Sums
  <2> QED BY <2>2, <2>3 DEF Enough, EnoughForQuit, EnoughForPassive
<1>9. NotTooMany'
  <2>1. ~misread' => Excess <= Surplus
    BY <1>0, <1>3 DEF Balance, NotTooMany
  <2> QED BY <1>0, <1>4, <2>1 DEF NotTooMany, Sums
<1> QED BY <1>8, <1>9

LEMMA StartsThreadBalance ==
    ASSUME ClientInv, TypeInv, Sums, Sums', Balance, UNCHANGED sessionVars,
           U_StartsThread
    PROVE  Balance'
<1> SUFFICES ASSUME Live' PROVE (Enough /\ EnoughForQuit /\ EnoughForPassive /\ NotTooMany)'
  BY DEF Balance
<1>0. /\ cliPc = "dispatch" /\ cliPc' = "prompt" /\ tPc = "none" /\ tPc' = "start"
      /\ UNCHANGED <<channel, Surplus, misread>>
  BY DEF U_StartsThread, Prompts, history, ClientInv, NoThreadMeanwhile, Surplus
<1>1. /\ UNCHANGED <<Finals, Pending, DataPending, StopsPending>>
  BY <1>0 DEF channel, Finals, Pending, DataPending, StopsPending, FinalReplies,
              DataMessages, StopMessages
<1>2. /\ cPc' = cPc /\ sessionAbort' = sessionAbort
      /\ Owes' = Owes /\ Working' = Working
      /\ One(cPc' # "idle") = One(cPc # "idle") /\ One(Owes') = One(Owes)
  BY ClientKeepsServer DEF One
<1>3. Live
  BY <1>0, <1>2 DEF Live, Exited
<1>4. Excess' = Excess
  <2>1. /\ One(cliPc' = "wait") = One(cliPc = "wait")
        /\ One(tPc' \in Reading \cup Transferring) = One(tPc \in Reading \cup Transferring)
    BY <1>0 DEF One, Reading, Transferring
  <2> QED BY <1>1, <1>2, <2>1 DEF Sums
<1>5. Skippable' = Skippable /\ Skips' = Skips /\ Expected' = Skippable + 1
  BY <1>0, <1>1, <1>2 DEF Expected, Skippable, Skips, Skipping, One, Sums
\* Either a stop is on its way, and it is owed a reply of its own, or the
\* flag is set for the job that is at work and no other.
<1>6. Enough'
  <2>1. /\ Finals \in Nat /\ Pending \in Nat /\ DataPending \in Nat
        /\ StopsPending \in Nat /\ DataPending + StopsPending <= Pending
        /\ Working => Owes
        /\ Excess = Finals + Pending + One(cPc # "idle") + One(Owes)
                    - One(cliPc = "wait") - One(tPc \in Reading \cup Transferring)
    BY DEF Sums
  <2>2. /\ One(cliPc = "wait") = 0 /\ One(cPc # "idle") \in {0, 1}
        /\ One(tPc \in Reading \cup Transferring) = 0
        /\ One(Owes) \in {0, 1} /\ One(Working) \in {0, 1}
        /\ One(Owes) >= One(Working)
        /\ One(Skipping) \in {0, 1}
        /\ One(Skipping) <= One(Working)
    BY <1>0, <2>1 DEF Skipping, One, Reading, Transferring
  <2>3. CASE StopsPending >= 1
    <3>1. Excess >= Skippable + 1
      BY <2>1, <2>2, <2>3 DEF Skippable
    <3> QED BY <1>4, <1>5, <3>1 DEF Enough
  <2>4. CASE StopsPending = 0
    <3>1. Excess >= Skips
      BY <2>1, <2>2, <2>4 DEF Skips
    <3> QED BY <1>4, <1>5, <3>1 DEF Enough
  <2> QED BY <2>1, <2>3, <2>4
<1>7. EnoughForQuit' /\ EnoughForPassive'
  BY <1>0 DEF EnoughForQuit, EnoughForPassive, Interrupting
<1>8. NotTooMany'
  BY <1>0, <1>3, <1>4 DEF Balance, NotTooMany
<1> QED BY <1>6, <1>7, <1>8

LEMMA ThreadSendsBalance ==
    ASSUME ClientInv, TypeInv, TypeInv', Sums, Sums', Balance,
           UNCHANGED sessionVars, NEW c \in Lines, Sends(c),
           UNCHANGED <<cliVars, history>>,
           \/ c = "PASV" /\ tPc = "start" /\ tPc' = "wait227"
           \/ c \in DataCommands /\ tPc = "prepare" /\ tPc' = "wait150"
    PROVE  Balance'
<1> SUFFICES ASSUME Live' PROVE (Enough /\ EnoughForQuit /\ EnoughForPassive /\ NotTooMany)'
  BY DEF Balance
<1>0. /\ ChannelOK /\ ChannelOK'
      /\ UNCHANGED <<cliPc, line, Surplus, misread>> /\ c \notin Stops
      /\ tPc \in {"start", "prepare"} /\ tPc' \in Reading
  BY DEF TypeInv, cliVars, history, Stops, DataCommands, Reading, Surplus
<1>1. /\ Finals' = Finals /\ Pending' = Pending + 1
      /\ DataPending' = DataPending + One(c \in DataCommands)
      /\ StopsPending' = StopsPending + One(c \in Stops)
  BY <1>0, SendsCounts
<1>2. /\ cPc' = cPc /\ sessionAbort' = sessionAbort
      /\ Owes' = Owes /\ Working' = Working
      /\ One(cPc' # "idle") = One(cPc # "idle") /\ One(Owes') = One(Owes)
  BY ClientKeepsServer DEF One
<1>3. Live
  BY <1>0, <1>2 DEF Live
<1>4. Excess' = Excess
  <2>1. /\ One(cliPc' = "wait") = One(cliPc = "wait")
        /\ One(tPc' \in Reading \cup Transferring) = 1
        /\ One(tPc \in Reading \cup Transferring) = 0
    BY <1>0 DEF One, Reading, Transferring
  <2>2. One(cPc # "idle") \in Nat /\ One(Owes) \in Nat /\ One(cliPc = "wait") \in Nat
    BY DEF One
  <2> QED BY <1>1, <1>2, <2>1, <2>2 DEF Sums
<1>5. Expected' = Expected /\ Skips' = Skips
  BY <1>0, <1>1, <1>2 DEF Expected, Skippable, Skips, Skipping, One, Sums, DataCommands
<1>6. Enough' /\ EnoughForQuit' /\ NotTooMany'
  BY <1>0, <1>3, <1>4, <1>5
  DEF Balance, Enough, EnoughForQuit, NotTooMany, Interrupting
<1>7. EnoughForPassive'
  <2> SUFFICES ASSUME tPc' = "wait227", cliPc' # "wait"
               PROVE  Excess' >= Skippable'
    BY DEF EnoughForPassive
  <2>1. c = "PASV" /\ Skippable' = Skippable
    BY <1>1, <1>2 DEF Skippable, One, Sums, DataCommands
  <2>2. /\ Finals \in Nat /\ Pending \in Nat /\ DataPending \in Nat
        /\ StopsPending \in Nat /\ DataPending + StopsPending <= Pending
        /\ Working => Owes
        /\ Excess = Finals + Pending + One(cPc # "idle") + One(Owes)
                    - One(cliPc = "wait") - One(tPc \in Reading \cup Transferring)
    BY DEF Sums
  <2>3. /\ One(cliPc = "wait") = 0 /\ One(cPc # "idle") \in {0, 1}
        /\ One(tPc \in Reading \cup Transferring) = 0
        /\ One(Owes) \in {0, 1} /\ One(Working) \in {0, 1}
        /\ One(Owes) >= One(Working)
    BY <1>0, <2>2 DEF One, Reading, Transferring
  <2>4. Excess >= Skippable
    BY <2>2, <2>3 DEF Skippable
  <2> QED BY <1>4, <2>1, <2>4
<1> QED BY <1>6, <1>7

\* A reader takes a reply, its own or not, and waits for no more.  It takes a
\* 150 only if replies are mixed up already, or if it leaves its final reply.
LEMMA ReadsBalance ==
    ASSUME TypeInv, Sums, Sums', Balance, UNCHANGED sessionVars,
           NEW reply, Receives(reply), cliPc \notin Exited => cliPc' \notin Exited,
           \/ cliPc = "wait" /\ cliPc' = "prompt" /\ UNCHANGED tPc /\ tPc # "wait227"
           \/ tPc \in Reading /\ tPc' \in {"prepare", "end"} /\ UNCHANGED <<cliPc, line>>
             /\ (tPc' = "prepare" => tPc = "wait227"),
           misread => misread', Surplus \in Nat,
           \/ Surplus' = Surplus /\ (reply.code \in Preliminary => misread')
           \/ Surplus' = Surplus + 1
    PROVE  Balance'
<1> SUFFICES ASSUME Live' PROVE (Enough /\ EnoughForQuit /\ EnoughForPassive /\ NotTooMany)'
  BY DEF Balance
<1>1. /\ Finals = Finals' + One(reply.code \notin Preliminary)
      /\ UNCHANGED <<Pending, DataPending, StopsPending>>
  BY ReceivesCounts DEF TypeInv
<1>2. /\ cPc' = cPc /\ sessionAbort' = sessionAbort
      /\ Owes' = Owes /\ Working' = Working
      /\ One(cPc' # "idle") = One(cPc # "idle") /\ One(Owes') = One(Owes)
  BY ClientKeepsServer DEF One
<1>3. Live
  BY <1>2 DEF Live, Exited
<1>4. Excess' = Excess + One(reply.code \in Preliminary)
  <2>1. One(cliPc' = "wait") + One(tPc' \in Reading \cup Transferring) + 1
            = One(cliPc = "wait") + One(tPc \in Reading \cup Transferring)
    BY DEF One, Reading, Transferring
  <2>2. /\ One(cPc # "idle") \in Nat /\ One(Owes) \in Nat
        /\ One(cliPc' = "wait") \in Nat /\ One(tPc' \in Reading \cup Transferring) \in Nat
        /\ One(cliPc = "wait") \in Nat /\ One(tPc \in Reading \cup Transferring) \in Nat
        /\ One(reply.code \notin Preliminary) + One(reply.code \in Preliminary) = 1
        /\ One(reply.code \notin Preliminary) \in Nat /\ One(reply.code \in Preliminary) \in Nat
    BY DEF One
  <2> QED BY <1>1, <1>2, <2>1, <2>2 DEF Sums
<1>5. Skippable' = Skippable /\ Skips' = Skips /\ Expected' <= Expected
  BY <1>1, <1>2 DEF Expected, Skippable, Skips, Skipping, One, Sums, Reading
<1>6. One(reply.code \in Preliminary) \in {0, 1} /\ Excess' >= Excess
  <2>1. One(reply.code \in Preliminary) \in {0, 1}
    BY DEF One
  <2> QED BY <1>4, <2>1 DEF Sums
<1>7. Enough'
  BY <1>3, <1>5, <1>6 DEF Balance, Enough, Sums
<1>8. EnoughForQuit'
  <2> SUFFICES ASSUME Interrupting' PROVE Excess' >= Expected' \/ Excess' > Skips'
    BY DEF EnoughForQuit
  <2>1. Interrupting
    BY DEF Interrupting
  <2>2. Excess >= Expected \/ Excess > Skips
    BY <1>3, <2>1 DEF Balance, EnoughForQuit
  <2> QED BY <1>5, <1>6, <2>2 DEF Sums
<1>9. EnoughForPassive'
  BY DEF EnoughForPassive
<1>10. NotTooMany'
  <2> SUFFICES ASSUME ~misread' PROVE Excess' <= Surplus'
    BY DEF NotTooMany
  <2>1. Excess <= Surplus
    BY <1>3 DEF Balance, NotTooMany
  <2>2. CASE Surplus' = Surplus /\ (reply.code \in Preliminary => misread')
    <3>1. One(reply.code \in Preliminary) = 0
      BY <2>2 DEF One
    <3> QED BY <1>4, <2>1, <2>2, <3>1 DEF Sums
  <2>3. CASE Surplus' = Surplus + 1
    BY <1>4, <1>6, <2>1, <2>3 DEF Sums
  <2> QED BY <2>2, <2>3
<1> QED BY <1>7, <1>8, <1>9, <1>10

\* The thread takes a 150 and goes on; what it waits for is the final reply.
LEMMA Reads150Balance ==
    ASSUME TypeInv, Sums, Sums', Balance, UNCHANGED <<sessionVars, cliVars, Surplus>>,
           NEW reply, Receives(reply), reply.code \in Preliminary,
           tPc = "wait150", tPc' = "open", misread => misread'
    PROVE  Balance'
<1>1. /\ Finals = Finals' + One(reply.code \notin Preliminary)
      /\ UNCHANGED <<Pending, DataPending, StopsPending>>
  BY ReceivesCounts DEF TypeInv
<1>2. /\ cPc' = cPc /\ sessionAbort' = sessionAbort
      /\ Owes' = Owes /\ Working' = Working
      /\ One(cPc' # "idle") = One(cPc # "idle") /\ One(Owes') = One(Owes)
  BY ClientKeepsServer
<1>3. Excess' = Excess
  <2>1. /\ One(cliPc' = "wait") = One(cliPc = "wait")
        /\ One(tPc' \in Reading \cup Transferring) = One(tPc \in Reading \cup Transferring)
        /\ One(reply.code \notin Preliminary) = 0
    BY DEF One, Reading, Transferring, cliVars
  <2> QED BY <1>1, <1>2, <2>1 DEF Sums
<1>4. Skippable' = Skippable /\ Skips' = Skips /\ Expected' <= Expected
  BY <1>1, <1>2 DEF Expected, Skippable, Skips, Skipping, One, Sums
<1>5. Live' => Live
  BY <1>2 DEF Live, cliVars
<1>6. Skippable' <= Skippable /\ Skips' <= Skips
  BY <1>4 DEF Sums
<1>7. Harmless
  BY <1>3, <1>4, <1>5, <1>6 DEF Harmless, Interrupting, cliVars
<1>8. Surplus \in Nat
  BY SurplusType DEF TypeInv
<1> QED BY <1>7, <1>8, HarmlessBalance

\* The exception of a listing leaves the thread, whatever it was to read.
LEMMA RaisesBalance ==
    ASSUME TypeInv, Sums, Sums', Balance, UNCHANGED sessionVars, T_BufferRaises
    PROVE  Balance'
<1> SUFFICES ASSUME Live' PROVE (Enough /\ EnoughForQuit /\ EnoughForPassive /\ NotTooMany)'
  BY DEF Balance
<1>1. /\ UNCHANGED <<cliPc, line, misread>> /\ tPc' = "end"
      /\ tPc \in Reading \cup Transferring
      /\ tPc \notin {"start", "wait227", "prepare"}
  BY DEF T_BufferRaises, cliVars, Reading, Transferring
<1>2. UNCHANGED <<Finals, Pending, DataPending, StopsPending>>
  BY DEF T_BufferRaises, channel, Finals, Pending, DataPending, StopsPending,
         FinalReplies, DataMessages, StopMessages
<1>3. /\ cPc' = cPc /\ sessionAbort' = sessionAbort
      /\ Owes' = Owes /\ Working' = Working
      /\ One(cPc' # "idle") = One(cPc # "idle") /\ One(Owes') = One(Owes)
  BY ClientKeepsServer DEF One
<1>4. Live
  BY <1>1, <1>3 DEF Live
<1>5. Excess' = Excess + 1
  <2>1. /\ One(cliPc' = "wait") = One(cliPc = "wait")
        /\ One(tPc' \in Reading \cup Transferring) = 0
        /\ One(tPc \in Reading \cup Transferring) = 1
    BY <1>1 DEF One, Reading, Transferring
  <2>2. /\ One(cPc # "idle") \in Nat /\ One(Owes) \in Nat
        /\ One(cliPc = "wait") \in Nat
    BY DEF One
  <2> QED BY <1>2, <1>3, <2>1, <2>2 DEF Sums
<1>6. Skippable' = Skippable /\ Skips' = Skips /\ Expected' = Expected
  BY <1>1, <1>2, <1>3 DEF Expected, Skippable, Skips, Skipping, One, Sums
<1>7. Enough'
  BY <1>4, <1>5, <1>6 DEF Balance, Enough, Sums
<1>8. EnoughForQuit'
  BY <1>1, <1>4, <1>5, <1>6 DEF Balance, EnoughForQuit, Interrupting, Sums
<1>9. EnoughForPassive'
  BY <1>1 DEF EnoughForPassive
<1>10. NotTooMany'
  <2>1. Surplus' = Surplus + 1 /\ Surplus \in Nat
    BY AbandonedOnce, SurplusType DEF TypeInv, T_BufferRaises
  <2> QED BY <1>1, <1>4, <1>5, <2>1 DEF Balance, NotTooMany, Sums
<1> QED BY <1>7, <1>8, <1>9, <1>10

LEMMA ClientBalance ==
    ASSUME ClientInv, TypeInv, TypeInv', Sums, Sums', Numbering, Balance,
           Client \/ DataPort
    PROVE  Balance'
<1>0. UNCHANGED sessionVars /\ Surplus \in Nat /\ tCommand \in DataCommands
  BY ClientImplements, SurplusType DEF TypeInv, LocalsOK
<1>1. CASE \/ U_Enter \/ (U_Alive /\ ~AbortsTransfer) \/ U_Raises \/ U_SetFlag
           \/ U_CheckContext \/ U_Cancel \/ U_Join \/ U_PortFails \/ U_LoopEnds
           \/ (T_Start /\ dataMode # "none") \/ T_NoLocalFile \/ T_OpenFails
           \/ T_SetContext \/ T_CheckFlag \/ T_Saves \/ T_Ends \/ T_Close
           \/ T_ClearFlag \/ T_End \/ T_Open \/ T_Receives \/ U_EndOfFile
  BY <1>0, <1>1, LocalSteps, LocalBalance
<1>2. CASE U_Alive /\ AbortsTransfer
  BY <1>0, <1>2, AbortBalance
<1>3. CASE U_Quit \/ U_Command \/ U_Port
  <2>1. PICK c \in Control :
            /\ CliSends(c) /\ UNCHANGED <<threadVars, history, line>>
            /\ cliPc = "dispatch" \/ (cliPc = "joining" /\ c = "QUIT")
    BY <1>3 DEF U_Quit, U_Command, U_Port, Control
  <2> QED BY <1>0, <2>1, CliSendsBalance
<1>4. CASE U_StartsThread
  BY <1>0, <1>4, StartsThreadBalance
<1>5. CASE U_Reads
  <2>1. PICK reply \in InTransit :
            /\ Receives(reply) /\ Noted(Answers(reply, cliNumber))
            /\ \/ Exits("gone")
               \/ Prompts /\ line # "interrupt" /\ UNCHANGED <<threadVars, connected>>
    BY <1>5 DEF U_Reads
  <2>2. CASE Exits("gone")
    BY <2>2 DEF Exits, Balance, Live, Exited
  <2>3. CASE Prompts /\ line # "interrupt" /\ UNCHANGED <<threadVars, connected>>
    <3>1. /\ cliPc = "wait" /\ cliPc' = "prompt" /\ tPc' = tPc /\ tPc = "none"
          /\ misread' = (misread \/ reply.to # cliNumber) /\ Surplus' = Surplus
      BY <1>5, <2>1, <2>3
      DEF U_Reads, Prompts, threadVars, Noted, Answers, ClientInv, NoThreadMeanwhile,
          Surplus
    <3>2. reply.code \in Preliminary => reply.to # cliNumber
      BY <2>1, <3>1, ReceivesRange DEF Numbering, NotData, TypeInv
    <3>3. reply.code \in Preliminary => misread'
      BY <3>1, <3>2
    <3>4. misread => misread'
      BY <3>1
    <3> QED BY <1>0, <2>1, <3>1, <3>3, <3>4, ReadsBalance DEF Exited
  <2> QED BY <2>1, <2>2, <2>3
<1>6. CASE T_Start /\ dataMode = "none"
  <2>1. Sends("PASV") /\ "PASV" \in Lines /\ UNCHANGED <<cliVars, history>>
        /\ tPc = "start" /\ tPc' = "wait227"
    BY <1>6 DEF T_Start, Lines
  <2> QED BY <1>0, <2>1, ThreadSendsBalance
<1>7. CASE T_SendCommand
  <2>1. Sends(tCommand) /\ tCommand \in Lines /\ UNCHANGED <<cliVars, history>>
        /\ tPc = "prepare" /\ tPc' = "wait150"
    BY <1>0, <1>7 DEF T_SendCommand, Lines
  <2> QED BY <1>0, <2>1, ThreadSendsBalance
<1>8. CASE T_Read227
  <2>1. PICK reply \in InTransit :
            /\ Receives(reply) /\ UNCHANGED <<cliVars>>
            /\ Noted(Answers(reply, tNumber))
    BY <1>8 DEF T_Read227, ThreadReads
  <2>2. /\ tPc = "wait227" /\ tPc' \in {"prepare", "end"} /\ cliPc' = cliPc /\ line' = line
        /\ misread' = (misread \/ reply.to # tNumber) /\ Surplus' = Surplus
    BY <1>8, <2>1 DEF T_Read227, Noted, Answers, cliVars, Surplus
  <2>3. reply.code \in Preliminary => reply.to # tNumber
    BY <2>1, <2>2, ReceivesRange DEF Numbering, NotData, TypeInv
  <2>4. (reply.code \in Preliminary => misread') /\ (misread => misread')
    BY <2>2, <2>3
  <2> QED BY <1>0, <2>1, <2>2, <2>4, ReadsBalance DEF Reading
<1>9. CASE T_Read150
  <2>1. PICK reply \in InTransit :
            /\ Receives(reply) /\ UNCHANGED <<cliVars>>
            /\ Noted(Answers(reply, tNumber))
            /\ tPc' = IF reply.code = "150" THEN "open" ELSE "end"
            /\ abandoned' = abandoned + Abandons(reply)
    BY <1>9 DEF T_Read150, ThreadReads
  <2>2. /\ tPc = "wait150" /\ cliPc' = cliPc /\ line' = line
        /\ misread' = (misread \/ reply.to # tNumber) /\ aborts' = aborts
    BY <1>9, <2>1 DEF T_Read150, Noted, Answers, cliVars
  <2>3. misread => misread'
    BY <2>2
  <2>4. CASE reply.code = "150"
    <3>1. reply.code \in Preliminary /\ tPc' = "open" /\ abandoned' = abandoned + 0
      BY <2>1, <2>4 DEF Preliminary, Abandons
    <3>2. Surplus' = Surplus
      BY <2>2, <3>1 DEF Surplus, TypeInv, LocalsOK
    <3> QED BY <1>0, <2>1, <2>2, <2>3, <3>1, <3>2, Reads150Balance
  <2>5. CASE reply.code = "unhashed150"
    <3>1. tPc' = "end" /\ abandoned' = abandoned + 1
      BY <2>1, <2>5 DEF Abandons
    <3>2. Surplus' = Surplus + 1
      BY <2>2, <3>1, AbandonedOnce DEF TypeInv
    <3> QED BY <1>0, <2>1, <2>2, <2>3, <3>1, <3>2, ReadsBalance DEF Reading
  <2>6. CASE reply.code \notin Preliminary
    <3>1. tPc' = "end" /\ abandoned' = abandoned + 0
      BY <2>1, <2>6 DEF Preliminary, Abandons
    <3>2. Surplus' = Surplus
      BY <2>2, <3>1 DEF Surplus, TypeInv, LocalsOK
    <3> QED BY <1>0, <2>1, <2>2, <2>3, <2>6, <3>1, <3>2, ReadsBalance DEF Reading
  <2> QED BY <2>4, <2>5, <2>6 DEF Preliminary
<1>10. CASE T_ReadFinal
  <2>1. PICK reply \in InTransit :
            Receives(reply) /\ UNCHANGED cliVars /\ Noted(Final(reply))
    BY <1>10 DEF T_ReadFinal, ThreadReads
  <2>2. /\ tPc = "waitfinal" /\ tPc' = "end" /\ cliPc' = cliPc /\ line' = line
        /\ misread' = (misread \/ ~Final(reply)) /\ Surplus' = Surplus
    BY <1>10, <2>1 DEF T_ReadFinal, Noted, cliVars, Surplus
  <2>3. (reply.code \in Preliminary => misread') /\ (misread => misread')
    BY <2>2 DEF Final, Preliminary
  <2> QED BY <1>0, <2>1, <2>2, <2>3, ReadsBalance DEF Reading
<1>11. CASE D_EndOfFile /\ T_EndOfFile
  BY <1>11 DEF D_EndOfFile, Closed, ServerStays, sessionVars, Balance, Live
<1>12. CASE T_BufferRaises
  BY <1>0, <1>12, RaisesBalance
<1> QED
  BY <1>1, <1>2, <1>3, <1>4, <1>5, <1>6, <1>7, <1>8, <1>9, <1>10, <1>11, <1>12
  DEF Client, CommandLine, Thread, DataPort, D_Open, D_Receives, D_EndOfFile

\* A step of the server leaves the client as it is.
LEMMA ServerHarmless ==
    ASSUME Sums, Balance, ClientStays, Live' => Live, Surplus \in Nat,
           Sums', Supply' = Supply, Skippable' <= Skippable, Skips' <= Skips
    PROVE  Balance'
<1>1. UNCHANGED <<cliPc, line, tPc, Surplus, misread>>
  BY DEF ClientStays, cliVars, threadVars, history, Surplus
<1>2. Excess' = Excess
  <2>1. /\ One(cliPc' = "wait") = One(cliPc = "wait")
        /\ One(tPc' \in Reading \cup Transferring) = One(tPc \in Reading \cup Transferring)
    BY <1>1 DEF One
  <2> QED BY <2>1 DEF Sums
<1>3. Expected' <= Expected
  <2>1. One(tPc' \in {"start", "wait227", "prepare"}) = One(tPc \in {"start", "wait227", "prepare"})
        /\ One(tPc \in {"start", "wait227", "prepare"}) \in Nat
    BY <1>1 DEF One
  <2> QED BY <2>1 DEF Expected, Sums
<1>4. Harmless
  BY <1>1, <1>2, <1>3 DEF Harmless, Interrupting
<1> QED BY <1>4, HarmlessBalance

LEMMA LoopBalance ==
    ASSUME ServerInv, ServerInv', TypeInv, TypeInv', Sums, Sums', Balance, LoopEffect
    PROVE  Balance'
<1> SUFFICES ASSUME Live' PROVE Balance'
  BY DEF Balance
<1>0. /\ ChannelOK /\ ClientStays /\ Surplus \in Nat /\ cPc' \notin Server!Gone
      /\ UNCHANGED <<cliPc>> /\ One(Working) \in {0, 1}
      /\ Finals \in Nat /\ Pending \in Nat /\ DataPending \in Nat /\ StopsPending \in Nat
      /\ Finals' \in Nat /\ Pending' \in Nat /\ DataPending' \in Nat /\ StopsPending' \in Nat
  BY SurplusType DEF TypeInv, LoopEffect, Live, ClientStays, cliVars, One, Sums
<1>1. CASE L_Answers
  <2>1. cPc = "idle" /\ cPc' = "idle"
    BY <1>0, <1>1 DEF L_Answers, Server!Gone
  <2>2. PICK code \in Codes \ Preliminary : Answered(code)
    BY <1>1 DEF L_Answers
  <2> DEFINE reply == [to |-> Request.number, code |-> code, about |-> Request.number]
  <2>3. /\ Request \in Messages
        /\ Pending = Pending' + 1
        /\ DataPending = DataPending' + One(Request.command \in DataCommands)
        /\ StopsPending = StopsPending' + One(Request.command \in Stops)
    BY <1>0, <1>1, TakesCounts, TakesRange DEF L_Answers
  <2>4. reply \in Replies /\ reply.code \notin Preliminary /\ toClient' = Append(toClient, reply)
    BY <2>2, <2>3 DEF Answered, Messages, Replies
  <2> HIDE DEF reply
  <2>5. Finals' = Finals + 1
    BY <1>0, <2>4, AnswersCounts DEF One
  <2>6. Owes' = Owes /\ Working' = Working /\ sessionAbort' = sessionAbort
    BY <1>1 DEF L_Answers, Owes, Working
  <2>7. DataPending' <= DataPending /\ StopsPending' <= StopsPending
    <3>1. One(Request.command \in DataCommands) \in Nat
          /\ One(Request.command \in Stops) \in Nat
      BY DEF One
    <3> QED BY <1>0, <2>3, <3>1
  <2>8. Skippable' <= Skippable /\ Skips' <= Skips
    <3>1. /\ One(Working') = One(Working)
          /\ One(Skipping') = One(Skipping)
          /\ One(Skipping) \in Nat
      BY <2>1, <2>6 DEF Skipping, One
    <3> QED BY <1>0, <2>7, <3>1 DEF Skippable, Skips
  <2>9. Supply' = Supply
    BY <1>0, <2>1, <2>3, <2>5, <2>6 DEF Supply, One
  <2>10. Live' => Live
    BY <1>0, <2>1 DEF Live
  <2> QED BY <1>0, <2>8, <2>9, <2>10, ServerHarmless
<1>2. CASE L_Starts
  <2>1. cPc = "idle" /\ cPc' = "idle" /\ ~Owes /\ ~Working /\ ~sessionAbort'
    BY <1>2 DEF L_Starts, Sums
  <2>0. PICK code \in Preliminary : Answered(code)
    BY <1>2 DEF L_Starts
  <2> DEFINE reply == [to |-> Request.number, code |-> code, about |-> Request.number]
  <2>2. /\ Request \in Messages /\ Request.command \in DataCommands
        /\ Pending = Pending' + 1
        /\ DataPending = DataPending' + One(Request.command \in DataCommands)
        /\ StopsPending = StopsPending' + One(Request.command \in Stops)
    BY <1>0, <1>2, TakesCounts, TakesRange DEF L_Starts
  <2>3. DataPending = DataPending' + 1 /\ StopsPending = StopsPending'
    <3>1. One(Request.command \in DataCommands) = 1
          /\ One(Request.command \in Stops) = 0
      BY <2>2 DEF One, DataCommands, Stops
    <3> QED BY <1>0, <2>2, <3>1
  <2>4. reply \in Replies /\ reply.code \in Preliminary /\ toClient' = Append(toClient, reply)
    BY <2>0, <2>2 DEF Answered, Messages, Replies, Codes
  <2> HIDE DEF reply
  <2>5. Finals' = Finals
    BY <1>0, <2>4, AnswersCounts DEF One
  <2>6. Owes' /\ Working'
    <3>1. started' \in Server!Jobs
      <4>1. started \in 0 .. MaxJobs /\ started' \in 0 .. MaxJobs
            /\ started' = started + 1
        BY <1>2 DEF ServerInv, Server!TypeOK, L_Starts
      <4> QED BY <4>1, MaxJobsAssumption DEF Server!Jobs
    <3>2. wPc'[started'] = "run"
      BY <1>2, <3>1 DEF L_Starts, ServerInv, Server!TypeOK
    <3> QED
      BY <3>1, <3>2
      DEF Owes, Working, Owing, Undecided, Server!Running, Server!Beginning
  <2>7. Skippable' <= Skippable /\ Skips' <= Skips
    <3>1. One(Working') <= One(Working) + 1 /\ One(Skipping') <= One(Skipping)
      BY <2>1, <2>6 DEF Skipping, One
    <3>2. /\ One(Working') \in {0, 1} /\ One(Working) \in {0, 1}
          /\ One(Skipping') \in {0, 1} /\ One(Skipping) \in {0, 1}
      BY DEF One
    <3>3. Skippable' <= Skippable
      BY <1>0, <2>3, <3>1, <3>2 DEF Skippable
    <3>4. Skips' <= Skips
      BY <1>0, <2>3, <3>1, <3>2 DEF Skips
    <3> QED BY <3>3, <3>4
  <2>8. Supply' = Supply
    BY <1>0, <2>1, <2>2, <2>5, <2>6 DEF Supply, One
  <2>9. Live' => Live
    BY <1>0, <2>1 DEF Live
  <2> QED BY <1>0, <2>7, <2>8, <2>9, ServerHarmless
<1>3. CASE L_Stops
  <2>1. /\ cPc = "idle" /\ cPc' = "flag"
        /\ Owes' = Owes /\ Working' = Working /\ sessionAbort' = sessionAbort
    BY <1>3 DEF L_Stops, Owes, Working
  <2>2. /\ Request.command \in Stops
        /\ Pending = Pending' + 1
        /\ DataPending = DataPending' + One(Request.command \in DataCommands)
        /\ StopsPending = StopsPending' + One(Request.command \in Stops)
    BY <1>0, <1>3, TakesCounts, TakesRange DEF L_Stops
  <2>3. DataPending' <= DataPending /\ StopsPending = StopsPending' + 1
    <3>1. One(Request.command \in DataCommands) \in Nat
          /\ One(Request.command \in Stops) = 1
      BY <2>2 DEF One
    <3> QED BY <1>0, <2>2, <3>1
  <2>4. Finals' = Finals
    BY <1>3 DEF L_Stops, Finals, FinalReplies
  <2>5. Skippable' <= Skippable /\ Skips' <= Skips
    <3>1. /\ One(Working') = One(Working)
          /\ One(Skipping') \in {0, 1}
          /\ One(Skipping) \in {0, 1}
      BY <2>1 DEF Skipping, One
    <3>2. Skippable' <= Skippable
      BY <1>0, <2>3, <3>1 DEF Skippable
    <3>3. Skips' <= Skips
      BY <1>0, <2>3, <3>1 DEF Skips
    <3> QED BY <3>2, <3>3
  <2>6. Supply' = Supply
    BY <1>0, <2>1, <2>2, <2>4 DEF Supply, One
  <2>7. Live' => Live
    BY <1>0, <2>1 DEF Live, Server!Gone
  <2> QED BY <1>0, <2>5, <2>6, <2>7, ServerHarmless
<1>4. CASE L_Handles
  <2>1. /\ cPc \in Handling /\ cPc # "idle"
        /\ Owes' = Owes /\ Working' = Working
        /\ UNCHANGED <<Pending, DataPending, StopsPending>>
    BY <1>4
    DEF L_Handles, Handling, Owes, Working, Pending, DataPending, StopsPending,
        DataMessages, StopMessages
  <2>2. Live' => Live
    BY <1>0, <2>1 DEF Live, Handling, Server!Gone
  <2>3. cPc' # "flag" /\ sessionAbort' = IF cPc = "flag" THEN TRUE ELSE sessionAbort
    BY <1>4 DEF L_Handles
  <2>4. Skippable' <= Skippable /\ Skips' <= Skips
    <3>1. /\ One(Working') = One(Working)
          /\ One(Skipping') = One(Skipping)
          /\ One(Skipping) \in Nat
      BY <2>1, <2>3 DEF Skipping, One
    <3> QED BY <1>0, <2>1, <3>1 DEF Skippable, Skips
  <2>5. Supply' = Supply
    <3>1. CASE cPc = "reply"
      <4>1. cPc' = "idle" /\ toClient' = Append(toClient, HandlerReply)
        BY <1>0, <1>4, <3>1 DEF L_Handles, Server!Gone
      <4>2. HandlerReply \in Replies /\ HandlerReply.code \notin Preliminary
        BY <2>1 DEF HandlerReply, Replies, Codes, Preliminary, ServerInv, Begun, TypeInv, LoopOK
      <4>3. Finals' = Finals + 1
        BY <1>0, <4>1, <4>2, AnswersCounts DEF One
      <4> QED BY <1>0, <2>1, <4>1, <4>3 DEF Supply, One
    <3>2. CASE cPc # "reply"
      <4>1. toClient' = toClient /\ cPc' # "idle"
        BY <1>4, <3>2 DEF L_Handles, Handling
      <4>2. Finals' = Finals
        BY <4>1 DEF Finals, FinalReplies
      <4> QED BY <1>0, <2>1, <4>1, <4>2 DEF Supply, One
    <3> QED BY <3>1, <3>2
  <2> QED BY <1>0, <2>2, <2>4, <2>5, ServerHarmless
<1>5. CASE L_Leaves
  BY <1>0, <1>5 DEF L_Leaves, Server!Gone
<1> QED BY <1>1, <1>2, <1>3, <1>4, <1>5 DEF LoopEffect

\* A job has decided to leave its final reply to the ABOR or QUIT that has set
\* the flag: one reply less, and one less that may be skipped.
LEMMA SkippedBalance ==
    ASSUME Sums, Sums', Balance, ClientStays, Live' => Live, Surplus \in Nat,
           Supply' = Supply - 1, Skippable' = Skippable - 1, Skips' = Skips - 1
    PROVE  Balance'
<1> SUFFICES ASSUME Live' PROVE (Enough /\ EnoughForQuit /\ EnoughForPassive /\ NotTooMany)'
  BY DEF Balance
<1>1. UNCHANGED <<cliPc, line, tPc, Surplus, misread>>
  BY DEF ClientStays, cliVars, threadVars, history, Surplus
<1>2. /\ Enough /\ EnoughForQuit /\ EnoughForPassive /\ NotTooMany
      /\ Excess \in Int /\ Skippable \in Nat /\ Expected \in Nat /\ Skips \in Nat
      /\ Excess' \in Int /\ Skippable' \in Nat /\ Expected' \in Nat /\ Skips' \in Nat
  BY DEF Balance, Sums
<1>3. Excess' = Excess - 1
  <2>1. /\ One(cliPc' = "wait") = One(cliPc = "wait")
        /\ One(tPc' \in Reading \cup Transferring) = One(tPc \in Reading \cup Transferring)
        /\ One(cliPc = "wait") \in {0, 1}
        /\ One(tPc \in Reading \cup Transferring) \in {0, 1}
    BY <1>1 DEF One
  <2> QED BY <2>1 DEF Sums
<1>4. Expected' = Expected - 1
  <2>1. One(tPc' \in {"start", "wait227", "prepare"}) = One(tPc \in {"start", "wait227", "prepare"})
        /\ One(tPc \in {"start", "wait227", "prepare"}) \in {0, 1}
    BY <1>1 DEF One
  <2> QED BY <1>2, <2>1 DEF Expected
<1>5. Enough'
  BY <1>2, <1>3, <1>4 DEF Enough
<1>6. EnoughForQuit'
  BY <1>1, <1>2, <1>3, <1>4 DEF EnoughForQuit, Interrupting
<1>7. EnoughForPassive'
  BY <1>1, <1>2, <1>3 DEF EnoughForPassive
<1>8. NotTooMany'
  BY <1>1, <1>2, <1>3 DEF NotTooMany
<1> QED BY <1>5, <1>6, <1>7, <1>8

LEMMA WorkerBalance ==
    ASSUME ServerInv, TypeInv, TypeInv', Sums, Sums', Balance,
           NEW j \in Server!Jobs, S_Worker(j)
    PROVE  Balance'
<1> SUFFICES ASSUME Live' PROVE Balance'
  BY DEF Balance
<1>1. /\ ClientStays /\ UNCHANGED <<toServer, sent, cPc>>
      /\ wPc' = [wPc EXCEPT ![j] = wPc'[j]]
      /\ sessionAbort' => sessionAbort
      /\ WorkerEffect(j)
  BY WorkerStep DEF ServerInv
<1>2. \A k \in Server!Jobs : k # j => wPc'[k] = wPc[k]
  BY <1>1 DEF ServerInv, Server!TypeOK
<1>3. UNCHANGED <<Pending, DataPending, StopsPending>>
  BY <1>1 DEF Pending, DataPending, StopsPending, DataMessages, StopMessages
<1>4. cPc \notin Server!Gone /\ (Live' => Live)
  BY <1>1 DEF Live, ClientStays, cliVars
<1>5. /\ Surplus \in Nat /\ ChannelOK
      /\ Finals \in Nat /\ Pending \in Nat /\ DataPending \in Nat /\ StopsPending \in Nat
      /\ One(cPc' # "idle") = One(cPc # "idle") /\ One(cPc # "idle") \in {0, 1}
      /\ One(Owes) \in {0, 1} /\ One(Owes') \in {0, 1}
      /\ One(Working) \in {0, 1} /\ One(Working') \in {0, 1}
      /\ One(Skipping) \in {0, 1} /\ One(Skipping') \in {0, 1}
  BY <1>1, SurplusType DEF TypeInv, One, Sums
<1>6. \A k \in Server!Jobs : wPc[j] \in Owing /\ wPc[k] \in Owing => k = j
  BY DEF Sums
<1>7. Undecided \subseteq Owing /\ "decide" \in Undecided /\ "reply" \in Owing
      /\ "inactive" \notin Owing /\ "reply" \notin Undecided
      /\ "unabort" \notin Owing /\ "done" \notin Owing
  BY DEF Undecided, Owing, Server!Running, Server!Beginning
\* As long as the job does not leave, it owes its reply as before.
<1>8. ASSUME toClient' = toClient, Owes' = Owes, Working' => Working
      PROVE  Balance'
  <2>1. Finals' = Finals
    BY <1>8 DEF Finals, FinalReplies
  <2>2. Supply' = Supply
    <3>1. One(Owes') = One(Owes)
      BY <1>8
    <3> QED BY <1>3, <1>5, <2>1, <3>1 DEF Supply
  <2>3. One(Working') <= One(Working) /\ One(Skipping') <= One(Skipping)
    BY <1>1, <1>8 DEF One, Skipping
  <2>4. Skippable' <= Skippable
    BY <1>3, <1>5, <2>3 DEF Skippable
  <2>5. Skips' <= Skips
    BY <1>3, <1>5, <2>3 DEF Skips
  <2> QED BY <1>1, <1>4, <1>5, <2>2, <2>4, <2>5, ServerHarmless
<1>9. CASE wPc[j] \in Undecided /\ wPc'[j] \in Owing /\ toClient' = toClient
  BY <1>7, <1>8, <1>9 DEF Owes, Working
<1>10. CASE wPc[j] = "decide" /\ wPc'[j] = "inactive" /\ sessionAbort /\ toClient' = toClient
  <2>1. Owes /\ Working /\ Skipping
    BY <1>7, <1>10 DEF Owes, Working, Skipping
  <2>2. ~Owes' /\ ~Working' /\ ~Skipping'
    BY <1>2, <1>6, <1>7, <1>10 DEF Owes, Working, Skipping
  <2>3. /\ One(Owes) = 1 /\ One(Working) = 1 /\ One(Skipping) = 1
        /\ One(Owes') = 0 /\ One(Working') = 0 /\ One(Skipping') = 0
    BY <2>1, <2>2 DEF One
  <2>4. Finals' = Finals
    BY <1>10 DEF Finals, FinalReplies
  <2>5. Supply' = Supply - 1
    BY <1>3, <1>5, <2>3, <2>4 DEF Supply
  <2>6. Skippable' = Skippable - 1
    BY <1>3, <1>5, <2>3 DEF Skippable
  <2>7. Skips' = Skips - 1
    BY <1>3, <1>5, <2>3 DEF Skips
  <2> QED BY <1>1, <1>4, <1>5, <2>5, <2>6, <2>7, SkippedBalance
<1>11. CASE /\ wPc[j] = "reply" /\ wPc'[j] = "inactive"
            /\ toClient' = Append(toClient, FinalReply(j))
  <2>1. FinalReply(j) \in Replies /\ FinalReply(j).code \notin Preliminary
    BY DEF FinalReply, Replies, Codes, Preliminary, TypeInv, LoopOK
  <2>2. Finals' = Finals + One(FinalReply(j).code \notin Preliminary)
    BY <1>5, <1>11, <2>1, AnswersCounts
  <2>3. Owes /\ ~Owes' /\ (Working' => Working)
    BY <1>2, <1>6, <1>7, <1>11 DEF Owes, Working
  <2>4. /\ One(FinalReply(j).code \notin Preliminary) = 1 /\ One(Owes) = 1 /\ One(Owes') = 0
        /\ One(Working') <= One(Working) /\ One(Skipping') <= One(Skipping)
    BY <1>1, <2>1, <2>3 DEF One, Skipping
  <2>5. Supply' = Supply
    BY <1>3, <1>5, <2>2, <2>4 DEF Supply
  <2>6. Skippable' <= Skippable
    BY <1>3, <1>5, <2>4 DEF Skippable
  <2>7. Skips' <= Skips
    BY <1>3, <1>5, <2>4 DEF Skips
  <2> QED BY <1>1, <1>4, <1>5, <2>5, <2>6, <2>7, ServerHarmless
<1>12. CASE /\ wPc[j] \in {"inactive", "unabort"} /\ wPc'[j] \in {"unabort", "done"}
            /\ toClient' = toClient
  <2>1. \A k \in Server!Jobs :
            /\ wPc'[k] \in Owing <=> wPc[k] \in Owing
            /\ wPc'[k] \in Undecided <=> wPc[k] \in Undecided
    BY <1>2, <1>7, <1>12
  <2>2. Owes' = Owes /\ (Working' => Working)
    BY <2>1 DEF Owes, Working
  <2> QED BY <1>8, <1>12, <2>2
<1> QED
  BY <1>1, <1>4, <1>7, <1>9, <1>10, <1>11, <1>12 DEF WorkerEffect

LEMMA BalanceInvariance ==
    SystemSpec => [](ServerInv /\ TypeInv /\ ClientInv /\ Sums /\ Numbering /\ Balance)
<1>1. ServerInv /\ TypeInv => Sums
  BY SumsHold DEF TypeInv
<1>2. SystemSpec => [](ServerInv /\ TypeInv /\ ClientInv /\ Sums /\ Numbering)
  BY TypeInvariance, ClientInvariance, NumberingInvariance, <1>1, PTL
<1>3. /\ (ServerInv /\ TypeInv /\ ClientInv /\ Sums /\ Numbering)
      /\ (ServerInv /\ TypeInv /\ ClientInv /\ Sums /\ Numbering)'
      /\ Balance /\ [SystemNext]_systemVars
      => Balance'
  <2> SUFFICES ASSUME ServerInv, ServerInv', TypeInv, TypeInv', ClientInv, Sums, Sums',
                      Numbering, Balance, [SystemNext]_systemVars
               PROVE  Balance'
    OBVIOUS
  <2>1. CASE Client \/ DataPort
    BY <2>1, ClientBalance
  <2>2. CASE CommandLoop
    BY <2>2, CommandLoopEffect, LoopBalance DEF TypeInv
  <2>3. CASE \E j \in Server!Jobs : S_Worker(j)
    BY <2>3, WorkerBalance
  <2>4. CASE Resting \/ UNCHANGED systemVars
    <3>1. Local
      BY <2>4 DEF Resting, systemVars, clientVars, vars, channel, cliVars, threadVars,
                  history, Local, Interrupting, Surplus
    <3> QED BY <3>1, LocalBalance, SurplusType DEF TypeInv
  <2> QED BY <2>1, <2>2, <2>3, <2>4 DEF SystemNext
<1>4. Sums /\ SystemInit => Balance
  BY BalanceInit
<1> QED BY <1>2, <1>3, <1>4, PTL DEF SystemSpec

(* Whoever reads whose reply, and whatever ABOR and the workers make of    *)
(* each other: nobody is left waiting for a reply that the server neither  *)
(* has sent nor will send.                                                 *)
THEOREM NobodyWaitsInVain == SystemSpec => []NoWaitInVain
<1>1. Sums /\ Balance => NoWaitInVain
  <2> SUFFICES ASSUME Sums, Balance, Live PROVE Owed >= Awaited
    BY DEF NoWaitInVain, Live
  <2>1. Excess >= 0
    BY DEF Balance, Enough, Sums
  <2>2. Owed \in Int /\ Awaited \in Int
    BY DEF Sums, Excess, Awaited, One
  <2> QED BY <2>1, <2>2 DEF Excess
<1> QED BY BalanceInvariance, <1>1, PTL

(* As long as everybody has read replies to its own commands, the replies  *)
(* on the way are those somebody waits for, and at most one more for each  *)
(* ABOR and for each transfer whose thread ended before its final reply.   *)
THEOREM RepliesAreBalanced == SystemSpec => []RepliesBalance
<1>1. TypeInv /\ Sums /\ Balance => RepliesBalance
  <2> SUFFICES ASSUME TypeInv, Sums, Balance, Live, ~misread
               PROVE  Excess \in 0 .. Surplus
    BY DEF RepliesBalance, Live, Excess, Surplus
  <2>1. Excess >= 0 /\ Excess <= Surplus
    BY DEF Balance, Enough, NotTooMany, Sums
  <2>2. Excess \in Int /\ Surplus \in Nat
    BY SurplusType DEF Sums, TypeInv
  <2> QED BY <2>1, <2>2
<1> QED BY BalanceInvariance, <1>1, PTL

===============================================================================
