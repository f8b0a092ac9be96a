-------------------------- MODULE StopAndWaitProofs --------------------------
(***************************************************************************)
(* Proofs about StopAndWait: its safety properties for every set of files, *)
(* every number of retries and every range of sequence numbers, and that   *)
(* it implements ReliableDelivery.                                         *)
(***************************************************************************)
EXTENDS StopAndWait, TLAPS

USE ParameterAssumption

-------------------------------------------------------------------------------
(* Types.                                                                  *)

LEMMA BuiltPackets ==
    ASSUME NEW flag \in Flags, NEW n \in Nat, NEW payload \in Payloads,
           flag = "DATA" => payload \in Chunk
    PROVE  /\ FromSender(flag, n, payload) \in Packet
           /\ FromReceiver(flag, n, payload) \in Packet
  BY DEF FromSender, FromReceiver, Packet, Addresses

LEMMA BuiltAck ==
    ASSUME NEW n \in Nat
    PROVE  Ack(n) \in Packet
  BY BuiltPackets DEF Ack, Flags, Payloads

LEMMA BuiltFinAck ==
    ASSUME NEW n \in Nat, NEW f \in Files
    PROVE  FinAck(n, f) \in Packet
<1>1. Digest(f) \in Payloads
  BY DEF Payloads
<1> QED BY <1>1, BuiltPackets DEF FinAck, Flags

LEMMA TypeInit == Init => TypeOK
<1> SUFFICES ASSUME Init PROVE TypeOK
  OBVIOUS
<1>1. toReceiver \subseteq Packet /\ toSender \subseteq Packet
  BY StrayAssumption DEF Init
<1>2. attempt \in 0 .. MaxRetries /\ sequence \in Nat /\ expectedSeq \in Nat
  BY DEF Init
<1> QED
  BY <1>1, <1>2 DEF Init, TypeOK, SenderPcs, ReceiverPcs, TransferStates, Writing

LEMMA SenderType ==
    ASSUME TypeOK, SenderStep
    PROVE  TypeOK'
<1> USE DEF TypeOK, SenderPcs, TransferStates, notSender, fileVars,
            receiverVars, channels, senderBooks, SenderRaises
<1>1. CASE S_Start BY <1>1 DEF S_Start
<1>2. CASE S_FileMissing BY <1>2 DEF S_FileMissing
<1>3. CASE S_EncodeError BY <1>3 DEF S_EncodeError
<1>4. CASE S_Send
  <2>1. (IF Streaming THEN Data(sequence) ELSE Fin(sequence)) \in Packet
    <3>1. CASE Streaming
      <4>1. sent[sequence + 1] \in Chunk
        BY <3>1 DEF Streaming
      <4> QED BY <3>1, <4>1, BuiltPackets DEF Data, Flags, Payloads
    <3>2. CASE ~Streaming
      BY <3>2, BuiltPackets DEF Fin, Flags, Payloads
    <3> QED BY <3>1, <3>2
  <2> QED BY <1>4, <2>1 DEF S_Send, SendToReceiver
<1>5. CASE S_CheckCancelled
  <2>1. FromSender("CANCEL", 0, NoPayload) \in Packet
    BY BuiltPackets DEF Flags, Payloads
  <2> QED BY <1>5, <2>1 DEF S_CheckCancelled, SendToReceiver
<1>6. CASE S_Poll BY <1>6 DEF S_Poll
<1>7. CASE S_Timeout BY <1>7 DEF S_Timeout, RetriesLeft, NextAttempt
<1>8. CASE S_Ignore BY <1>8 DEF S_Ignore
<1>9. CASE S_IoError BY <1>9 DEF S_IoError
<1>10. CASE S_Abort BY <1>10 DEF S_Abort
<1>11. ASSUME NEW p \in toSender, S_RecvAck(p) PROVE TypeOK'
  BY <1>11 DEF S_RecvAck
<1>12. ASSUME NEW p \in toSender, S_RecvFinAck(p) PROVE TypeOK'
  BY <1>12 DEF S_RecvFinAck
<1>13. ASSUME NEW p \in toSender, S_RecvCancel(p) PROVE TypeOK'
  BY <1>13 DEF S_RecvCancel
<1> QED
  BY <1>1, <1>2, <1>3, <1>4, <1>5, <1>6, <1>7, <1>8, <1>9, <1>10, <1>11,
     <1>12, <1>13 DEF SenderStep

LEMMA ReceiverType ==
    ASSUME TypeOK, ReceiverStep
    PROVE  TypeOK'
<1> USE DEF TypeOK, ReceiverPcs, Writing, TransferStates, notReceiver, fileVars,
            senderVars, channels, receiverBooks, ReceiverRaises
<1>1. CASE R_Start BY <1>1 DEF R_Start
<1>2. CASE R_CheckCancelled
  <2>1. FromReceiver("CANCEL", 0, NoPayload) \in Packet
    BY BuiltPackets DEF Flags, Payloads
  <2> QED BY <1>2, <2>1 DEF R_CheckCancelled, SendToSender
<1>3. CASE R_Poll BY <1>3 DEF R_Poll
<1>4. CASE R_Quiet BY <1>4 DEF R_Quiet
<1>5. CASE R_IdleTimeout BY <1>5 DEF R_IdleTimeout
<1>6. CASE R_Verify
  <2>1. CASE Verified
    <3>1. temp = announced
      BY <2>1 DEF Verified, Digest
    <3> QED BY <1>6, <2>1, <3>1 DEF R_Verify
  <2>2. CASE ~Verified BY <1>6, <2>2 DEF R_Verify
  <2> QED BY <2>1, <2>2
<1>7. CASE R_FinAck
  BY <1>7, BuiltFinAck DEF R_FinAck, SendToSender
<1>8. CASE R_LingerEnd BY <1>8 DEF R_LingerEnd
<1>9. CASE R_IoError BY <1>9 DEF R_IoError
<1>10. CASE R_Abort BY <1>10 DEF R_Abort
<1>11. ASSUME NEW p \in toReceiver, R_Receives(p) PROVE peer' \in Addresses
  BY <1>11 DEF R_Receives, Packet
<1>12. ASSUME NEW p \in toReceiver, R_Ignore(p) PROVE TypeOK'
  BY <1>12 DEF R_Ignore, LatchedPeer, Packet
<1>13. ASSUME NEW p \in toReceiver, R_RecvCancel(p) PROVE TypeOK'
  BY <1>11, <1>13 DEF R_RecvCancel
<1>14. ASSUME NEW p \in toReceiver, R_AcceptData(p) PROVE TypeOK'
  <2>1. Append(temp, p.payload) \in Seq(Chunk)
    BY <1>14 DEF R_AcceptData, R_Receives, Packet
  <2> QED BY <1>11, <1>14, <2>1, BuiltAck DEF R_AcceptData, SendToSender
<1>15. ASSUME NEW p \in toReceiver, R_TooMuchData(p) PROVE TypeOK'
  BY <1>11, <1>15 DEF R_TooMuchData
<1>16. ASSUME NEW p \in toReceiver, R_UnexpectedData(p) PROVE TypeOK'
  <2>1. p.seq \in Nat
    BY DEF Packet
  <2>2. AcksFor(p.seq) \subseteq Packet
    <3>1. p.seq < expectedSeq => AcksFor(p.seq) = {Ack(p.seq)}
      BY DEF AcksFor
    <3>2. ~(p.seq < expectedSeq) /\ expectedSeq > 0 =>
              AcksFor(p.seq) = {Ack(expectedSeq - 1)}
      BY DEF AcksFor
    <3>3. ~(p.seq < expectedSeq) /\ ~(expectedSeq > 0) => AcksFor(p.seq) = {}
      BY DEF AcksFor
    <3>4. expectedSeq > 0 => expectedSeq - 1 \in Nat
      OBVIOUS
    <3> QED BY <2>1, <3>1, <3>2, <3>3, <3>4, BuiltAck
  <2> QED
    BY <1>11, <1>16, <2>2
    DEF R_UnexpectedData, R_Receives, SendToSender
<1>17. ASSUME NEW p \in toReceiver, R_RecvFin(p) PROVE TypeOK'
  BY <1>11, <1>17 DEF R_RecvFin, R_Receives
<1>18. ASSUME NEW p \in toReceiver, R_LingerFin(p) PROVE TypeOK'
  <2>1. FinAck(expectedSeq, destination) \in Packet
    BY <1>18, BuiltFinAck DEF R_LingerFin
  <2> QED BY <1>18, <2>1 DEF R_LingerFin, SendToSender, receiverVars
<1> QED
  BY <1>1, <1>2, <1>3, <1>4, <1>5, <1>6, <1>7, <1>8, <1>9, <1>10, <1>12,
     <1>13, <1>14, <1>15, <1>16, <1>17, <1>18 DEF ReceiverStep

LEMMA TypeNext == TypeOK /\ [Next]_vars => TypeOK'
<1> SUFFICES ASSUME TypeOK, [Next]_vars PROVE TypeOK'
  OBVIOUS
<1>1. CASE SenderStep BY <1>1, SenderType
<1>2. CASE ReceiverStep BY <1>2, ReceiverType
<1>3. CASE UNCHANGED vars
  BY <1>3 DEF vars, fileVars, senderVars, receiverVars, channels, TypeOK
<1> QED BY <1>1, <1>2, <1>3 DEF Next, Done

(* Every variable keeps its type, and the temporary file exists          *)
(* while the receiver can write to it.                                     *)
THEOREM Typing == Spec => []TypeOK
  BY TypeInit, TypeNext, PTL DEF Spec

-------------------------------------------------------------------------------
(* The inductive invariant.  What a packet of this transfer in the channel  *)
(* tells its reader stays true however late it is read; the reader's own    *)
(* state then gives the safety properties.                                  *)

ToReceiverOK ==
    \A p \in toReceiver : p.tid = Tid =>
        /\ p.src = "sender"
        /\ p.flag = "DATA" => /\ p.seq < Len(sent) /\ p.seq <= sequence
                              /\ p.payload = sent[p.seq + 1]
        /\ p.flag = "FIN" => p.seq = Len(sent)

ToSenderOK ==
    \A p \in toSender : p.tid = Tid =>
        /\ p.flag = "ACK" => p.ack < expectedSeq
        /\ p.flag = "FIN_ACK" =>
              /\ p.payload = Digest(announced)
              /\ sent = announced /\ destination = announced
              /\ rPc \in {"linger", "returned", "raised"}

SequenceOK == sequence <= Len(sent) /\ WindowOfOne

TempOK ==
    /\ rPc = "start" => expectedSeq = 0
    /\ rPc \in Writing =>
          /\ expectedSeq <= Len(sent) /\ Len(temp) = expectedSeq
          /\ \A i \in 1 .. expectedSeq : temp[i] = sent[i]
    /\ rPc = "verify" => expectedSeq = Len(sent)
    /\ rPc \notin Writing => temp = NoFile

DestinationOK ==
    /\ rPc \in {"start"} \cup Writing => destination = original
    /\ rPc \in {"finack", "linger", "returned"} =>
          destination = announced /\ sent = announced /\ expectedSeq = Len(sent)
    /\ ~IoErrors /\ rPc = "raised" => destination = original
    /\ sPc = "returned" =>
          /\ hashed = announced /\ sent = announced /\ destination = announced
          /\ rPc \in {"linger", "returned", "raised"}

Inv == /\ ToReceiverOK /\ ToSenderOK /\ SequenceOK /\ TempOK /\ DestinationOK
       /\ PeerIsTheSender

LEMMA InvInit == Init => Inv
<1> SUFFICES ASSUME Init PROVE Inv
  OBVIOUS
<1>1. ToReceiverOK /\ ToSenderOK
  BY StrayAssumption DEF Init, ToReceiverOK, ToSenderOK
<1>2. SequenceOK
  BY DEF Init, SequenceOK, WindowOfOne
<1>3. TempOK /\ DestinationOK /\ PeerIsTheSender
  BY DEF Init, TempOK, DestinationOK, PeerIsTheSender, Writing
<1> QED BY <1>1, <1>2, <1>3 DEF Inv

\* A step of the sender that neither sends nor moves on to the next packet.
LEMMA SenderStandsStill ==
    ASSUME Inv, UNCHANGED <<sequence, notSender, channels>>, sPc' # "returned"
    PROVE  Inv'
  BY DEF Inv, ToReceiverOK, ToSenderOK, SequenceOK, WindowOfOne, TempOK,
         DestinationOK, PeerIsTheSender, notSender, fileVars, receiverVars,
         channels, Ack, FinAck, FromReceiver

\* A step of the sender that puts one more packet into the channel.
LEMMA SenderSends ==
    ASSUME Inv, UNCHANGED <<sequence, notSender, toSender>>, sPc' # "returned",
           NEW p, SendToReceiver(p),
           p.src = "sender",
           p.flag = "DATA" => /\ p.seq < Len(sent) /\ p.seq <= sequence
                              /\ p.payload = sent[p.seq + 1],
           p.flag = "FIN" => p.seq = Len(sent)
    PROVE  Inv'
<1> USE DEF notSender, fileVars, receiverVars
<1>1. ToReceiverOK'
  BY DEF Inv, ToReceiverOK, SendToReceiver
<1>2. ToSenderOK'
  BY DEF Inv, ToSenderOK
<1>3. SequenceOK' /\ TempOK' /\ DestinationOK' /\ PeerIsTheSender'
  BY DEF Inv, SequenceOK, WindowOfOne, TempOK, DestinationOK, PeerIsTheSender
<1> QED BY <1>1, <1>2, <1>3 DEF Inv

LEMMA SenderInv ==
    ASSUME TypeOK, Inv, SenderStep
    PROVE  Inv'
<1> USE DEF senderBooks, SenderRaises
<1>1. CASE S_Start BY <1>1, SenderStandsStill DEF S_Start
<1>2. CASE S_FileMissing BY <1>2, SenderStandsStill DEF S_FileMissing
<1>3. CASE S_EncodeError BY <1>3, SenderStandsStill DEF S_EncodeError
<1>4. CASE S_Send
  <2>1. sequence \in Nat /\ Len(sent) \in Nat
    BY DEF TypeOK
  <2>2. CASE Streaming
    <3>1. SendToReceiver(Data(sequence)) /\ Data(sequence).flag # "FIN"
      BY <1>4, <2>2 DEF S_Send, Data, FromSender
    <3>2. /\ Data(sequence).src = "sender" /\ Data(sequence).seq = sequence
          /\ Data(sequence).payload = sent[sequence + 1]
      BY DEF Data, FromSender
    <3> QED
      BY <1>4, <2>1, <2>2, <3>1, <3>2, SenderSends DEF S_Send, Streaming
  <2>3. CASE ~Streaming
    <3>1. SendToReceiver(Fin(sequence)) /\ Fin(sequence).flag # "DATA"
      BY <1>4, <2>3 DEF S_Send, Fin, FromSender
    <3>2. Fin(sequence).src = "sender" /\ Fin(sequence).seq = Len(sent)
      BY <2>1, <2>3 DEF Fin, FromSender, Streaming, Inv, SequenceOK
    <3> QED BY <1>4, <3>1, <3>2, SenderSends DEF S_Send
  <2> QED BY <2>2, <2>3
<1>5. CASE S_CheckCancelled
  <2> DEFINE cancel == FromSender("CANCEL", 0, NoPayload)
  <2>1. cancel.src = "sender" /\ cancel.flag # "DATA" /\ cancel.flag # "FIN"
    BY DEF FromSender
  <2>2. SendToReceiver(cancel)
    BY <1>5 DEF S_CheckCancelled
  <2> HIDE DEF cancel
  <2> QED BY <1>5, <2>1, <2>2, SenderSends DEF S_CheckCancelled
<1>6. CASE S_Poll BY <1>6, SenderStandsStill DEF S_Poll
<1>7. CASE S_Timeout BY <1>7, SenderStandsStill DEF S_Timeout
<1>8. CASE S_Ignore BY <1>8, SenderStandsStill DEF S_Ignore
<1>9. CASE S_IoError BY <1>9, SenderStandsStill DEF S_IoError
<1>10. CASE S_Abort BY <1>10, SenderStandsStill DEF S_Abort, Ended
<1>11. ASSUME NEW p \in toSender, S_RecvAck(p) PROVE Inv'
  <2> USE DEF notSender, fileVars, receiverVars, channels
  <2>1. sequence < expectedSeq
    BY <1>11 DEF S_RecvAck, IsReply, ForSender, Inv, ToSenderOK
  <2>2. SequenceOK'
    BY <1>11, <2>1 DEF S_RecvAck, Streaming, Inv, SequenceOK, WindowOfOne, TypeOK
  <2>3. ToReceiverOK'
    BY <1>11 DEF S_RecvAck, Inv, ToReceiverOK, TypeOK, Packet
  <2>4. ToSenderOK' /\ TempOK' /\ DestinationOK' /\ PeerIsTheSender'
    BY <1>11
    DEF S_RecvAck, Inv, ToSenderOK, TempOK, DestinationOK, PeerIsTheSender
  <2> QED BY <2>2, <2>3, <2>4 DEF Inv
<1>12. ASSUME NEW p \in toSender, S_RecvFinAck(p) PROVE Inv'
  <2>1. CASE ~SameHash(p)
    BY <1>12, <2>1, SenderStandsStill DEF S_RecvFinAck
  <2>2. CASE SameHash(p)
    <3> USE DEF notSender, fileVars, receiverVars, channels
    <3>1. /\ Digest(announced) = Digest(hashed)
          /\ sent = announced /\ destination = announced
          /\ rPc \in {"linger", "returned", "raised"}
      BY <1>12, <2>2
      DEF S_RecvFinAck, IsReply, ForSender, SameHash, Inv, ToSenderOK
    <3>2. DestinationOK'
      BY <1>12, <3>1 DEF S_RecvFinAck, Inv, DestinationOK, Digest
    <3>3. /\ ToReceiverOK' /\ ToSenderOK' /\ SequenceOK' /\ TempOK'
          /\ PeerIsTheSender'
      BY <1>12, <2>2
      DEF S_RecvFinAck, Inv, ToReceiverOK, ToSenderOK, SequenceOK, WindowOfOne,
          TempOK, PeerIsTheSender
    <3> QED BY <3>2, <3>3 DEF Inv
  <2> QED BY <2>1, <2>2
<1>13. ASSUME NEW p \in toSender, S_RecvCancel(p) PROVE Inv'
  BY <1>13, SenderStandsStill DEF S_RecvCancel
<1> QED
  BY <1>1, <1>2, <1>3, <1>4, <1>5, <1>6, <1>7, <1>8, <1>9, <1>10, <1>11,
     <1>12, <1>13 DEF SenderStep

\* A step between polling and receiving that stores nothing; it may repeat
\* acknowledgments of what is stored.
LEMMA ReceiverStandsStill ==
    ASSUME Inv, rPc \in {"poll", "recv"}, rPc' \in {"poll", "recv"},
           UNCHANGED <<expectedSeq, temp, destination, notReceiver, toReceiver>>,
           PeerIsTheSender',
           NEW acks, SendToSender(acks),
           \A p \in acks : p.flag = "ACK" /\ p.ack < expectedSeq
    PROVE  Inv'
<1> USE DEF notReceiver, fileVars, senderVars
<1>1. ToSenderOK'
  BY DEF Inv, ToSenderOK, SendToSender
<1>2. ToReceiverOK' /\ SequenceOK'
  BY DEF Inv, ToReceiverOK, SequenceOK, WindowOfOne
<1>3. TempOK' /\ DestinationOK'
  BY DEF Inv, TempOK, DestinationOK, Writing
<1> QED BY <1>1, <1>2, <1>3 DEF Inv

\* The receiver fails; it may tell the sender that it was cancelled.
LEMMA ReceiverFails ==
    ASSUME Inv, rPc \in {"start"} \cup Writing \/ IoErrors,
           rPc' = "raised", temp' = NoFile,
           UNCHANGED <<expectedSeq, destination, notReceiver, toReceiver>>,
           PeerIsTheSender',
           NEW ps, SendToSender(ps), \A p \in ps : p.flag = "CANCEL"
    PROVE  Inv'
<1> USE DEF notReceiver, fileVars, senderVars
<1>1. ToSenderOK'
  BY DEF Inv, ToSenderOK, SendToSender
<1>2. ToReceiverOK' /\ SequenceOK'
  BY DEF Inv, ToReceiverOK, SequenceOK, WindowOfOne
<1>3. TempOK' /\ DestinationOK'
  BY DEF Inv, TempOK, DestinationOK, Writing
<1> QED BY <1>1, <1>2, <1>3 DEF Inv

\* What the receiver handles comes from the sender.
LEMMA ReceivedFromSender ==
    ASSUME Inv, NEW p \in toReceiver, R_Receives(p)
    PROVE  /\ PeerIsTheSender' /\ rPc = "recv"
           /\ p.flag = "DATA" => /\ p.seq < Len(sent) /\ p.seq <= sequence
                                 /\ p.payload = sent[p.seq + 1]
           /\ p.flag = "FIN" => p.seq = Len(sent)
  BY DEF Inv, ToReceiverOK, R_Receives, Accepts, PeerIsTheSender

LEMMA ReceiverInv ==
    ASSUME TypeOK, Inv, ReceiverStep
    PROVE  Inv'
<1> USE DEF receiverBooks, ReceiverRaises
<1> DEFINE Still == UNCHANGED <<expectedSeq, temp, destination, notReceiver, toReceiver>>
           SamePeer == peer' = peer => PeerIsTheSender'
           Silent == toSender' = toSender => SendToSender({})
<1>a. SamePeer
  BY DEF Inv, PeerIsTheSender
<1>b. Silent
  BY DEF SendToSender
<1>1. CASE R_Start
  <2> USE DEF notReceiver, fileVars, senderVars, channels
  <2>1. TempOK'
    BY <1>1 DEF R_Start, Inv, TempOK, Writing, TypeOK
  <2>2. DestinationOK' /\ PeerIsTheSender'
    BY <1>1 DEF R_Start, Inv, DestinationOK, PeerIsTheSender, Writing
  <2>3. ToReceiverOK' /\ ToSenderOK' /\ SequenceOK'
    BY <1>1
    DEF R_Start, Inv, ToReceiverOK, ToSenderOK, SequenceOK, WindowOfOne
  <2> QED BY <2>1, <2>2, <2>3 DEF Inv
<1>2. CASE R_CheckCancelled
  <2> DEFINE ps == IF peer = NoPeer THEN {}
                   ELSE {FromReceiver("CANCEL", 0, NoPayload)}
  <2>1. \A p \in ps : p.flag = "CANCEL"
    BY DEF FromReceiver
  <2>2. SendToSender(ps)
    BY <1>2 DEF R_CheckCancelled
  <2> HIDE DEF ps
  <2> QED BY <1>2, <1>a, <2>1, <2>2, ReceiverFails DEF R_CheckCancelled, Writing
<1>3. CASE R_Poll
  BY <1>3, <1>a, <1>b, ReceiverStandsStill DEF R_Poll, channels
<1>4. CASE R_Quiet
  BY <1>4, <1>a, <1>b, ReceiverStandsStill DEF R_Quiet, channels
<1>5. CASE R_IdleTimeout
  BY <1>5, <1>a, <1>b, ReceiverFails DEF R_IdleTimeout, channels, Writing
<1>6. CASE R_Verify
  <2>1. CASE ~Verified
    BY <1>6, <2>1, <1>a, <1>b, ReceiverFails DEF R_Verify, channels, Writing
  <2>2. CASE Verified
    <3> USE DEF notReceiver, fileVars, senderVars, channels
    <3>1. temp = announced
      BY <2>2 DEF Verified, Digest
    <3>2. temp = sent
      <4>1. /\ temp \in Seq(Chunk) /\ sent \in Seq(Chunk)
            /\ Len(temp) = Len(sent)
            /\ \A i \in 1 .. Len(sent) : temp[i] = sent[i]
        BY <1>6 DEF R_Verify, Inv, TempOK, TypeOK, Writing
      <4> QED BY <4>1
    <3>3. \A p \in toSender : p.tid = Tid => p.flag # "FIN_ACK"
      BY <1>6 DEF R_Verify, Inv, ToSenderOK
    <3>4. sPc # "returned"
      BY <1>6 DEF R_Verify, Inv, DestinationOK
    <3>5. ToSenderOK'
      BY <1>6, <2>2, <3>3 DEF R_Verify, Inv, ToSenderOK
    <3>6. TempOK' /\ DestinationOK'
      BY <1>6, <2>2, <3>1, <3>2, <3>4
      DEF R_Verify, Inv, TempOK, DestinationOK, Writing
    <3>7. ToReceiverOK' /\ SequenceOK' /\ PeerIsTheSender'
      BY <1>6, <2>2
      DEF R_Verify, Inv, ToReceiverOK, SequenceOK, WindowOfOne, PeerIsTheSender
    <3> QED BY <3>5, <3>6, <3>7 DEF Inv
  <2> QED BY <2>1, <2>2
<1>7. ASSUME rPc \in {"finack", "linger"}, rPc' = "linger",
             SendToSender({FinAck(expectedSeq, destination)}),
             Still, temp' = temp, peer' = peer
      PROVE  Inv'
  <2> USE DEF notReceiver, fileVars, senderVars
  <2>1. sent = announced /\ destination = announced
    BY <1>7 DEF Inv, DestinationOK
  <2>2. ToSenderOK'
    BY <1>7, <2>1 DEF Inv, ToSenderOK, SendToSender, FinAck, FromReceiver
  <2>3. TempOK' /\ DestinationOK' /\ PeerIsTheSender'
    BY <1>7 DEF Inv, TempOK, DestinationOK, PeerIsTheSender, Writing
  <2>4. ToReceiverOK' /\ SequenceOK'
    BY <1>7 DEF Inv, ToReceiverOK, SequenceOK, WindowOfOne
  <2> QED BY <2>2, <2>3, <2>4 DEF Inv
<1>8. CASE R_FinAck BY <1>7, <1>8 DEF R_FinAck
<1>9. CASE R_LingerEnd
  <2> USE DEF notReceiver, fileVars, senderVars, channels
  <2>1. TempOK' /\ DestinationOK' /\ ToSenderOK'
    BY <1>9 DEF R_LingerEnd, Inv, TempOK, DestinationOK, ToSenderOK, Writing
  <2>2. ToReceiverOK' /\ SequenceOK' /\ PeerIsTheSender'
    BY <1>9
    DEF R_LingerEnd, Inv, ToReceiverOK, SequenceOK, WindowOfOne, PeerIsTheSender
  <2> QED BY <2>1, <2>2 DEF Inv
<1>10. CASE R_IoError
  BY <1>10, <1>a, <1>b, ReceiverFails DEF R_IoError, channels
<1>11. CASE R_Abort
  BY <1>11
  DEF R_Abort, Inv, ToReceiverOK, ToSenderOK, SequenceOK, WindowOfOne, TempOK,
      DestinationOK, PeerIsTheSender, notReceiver, fileVars, senderVars, channels
<1>12. ASSUME NEW p \in toReceiver, R_Ignore(p) PROVE Inv'
  <2>1. PeerIsTheSender'
    BY <1>12
    DEF R_Ignore, LatchedPeer, Accepts, Inv, ToReceiverOK, PeerIsTheSender
  <2> QED
    BY <1>12, <1>b, <2>1, ReceiverStandsStill DEF R_Ignore, channels
<1>13. ASSUME NEW p \in toReceiver, R_RecvCancel(p) PROVE Inv'
  BY <1>13, <1>b, ReceivedFromSender, ReceiverFails
  DEF R_RecvCancel, channels, Writing
<1>14. ASSUME NEW p \in toReceiver, R_AcceptData(p) PROVE Inv'
  <2> USE DEF notReceiver, fileVars, senderVars
  <2>1. /\ p.payload = sent[expectedSeq + 1]
        /\ expectedSeq < Len(sent) /\ expectedSeq <= sequence
        /\ PeerIsTheSender' /\ rPc = "recv"
    BY <1>14, ReceivedFromSender DEF R_AcceptData
  <2>2. /\ temp \in Seq(Chunk) /\ p.payload \in Chunk
        /\ Len(temp) = expectedSeq /\ expectedSeq \in Nat
        /\ \A i \in 1 .. expectedSeq : temp[i] = sent[i]
    BY <1>14, <2>1 DEF R_AcceptData, Inv, TempOK, TypeOK, Writing, Packet
  <2>3. /\ Len(Append(temp, p.payload)) = expectedSeq + 1
        /\ \A i \in 1 .. expectedSeq + 1 : Append(temp, p.payload)[i] = sent[i]
    BY <2>1, <2>2
  <2>4. TempOK'
    BY <1>14, <2>1, <2>3 DEF R_AcceptData, Inv, TempOK, Writing, TypeOK
  <2>5. DestinationOK'
    BY <1>14, <2>1 DEF R_AcceptData, Inv, DestinationOK, Writing
  <2>6. SequenceOK'
    BY <1>14, <2>1
    DEF R_AcceptData, Inv, SequenceOK, WindowOfOne, TypeOK
  <2>7. ToSenderOK'
    <3>1. \A q \in toSender : q.tid = Tid =>
              /\ q.flag # "FIN_ACK"
              /\ q.flag = "ACK" => q.ack < expectedSeq
      BY <2>1 DEF Inv, ToSenderOK
    <3>2. Ack(expectedSeq).flag = "ACK" /\ Ack(expectedSeq).ack = expectedSeq
      BY DEF Ack, FromReceiver
    <3> QED
      BY <1>14, <2>2, <3>1, <3>2
      DEF R_AcceptData, SendToSender, ToSenderOK, TypeOK, Packet
  <2>8. ToReceiverOK'
    BY <1>14 DEF R_AcceptData, Inv, ToReceiverOK
  <2> QED BY <2>1, <2>4, <2>5, <2>6, <2>7, <2>8 DEF Inv
<1>15. ASSUME NEW p \in toReceiver, R_TooMuchData(p) PROVE Inv'
  BY <1>15, <1>b, ReceivedFromSender, ReceiverFails
  DEF R_TooMuchData, channels, Writing
<1>16. ASSUME NEW p \in toReceiver, R_UnexpectedData(p) PROVE Inv'
  <2>1. p.seq \in Nat /\ expectedSeq \in Nat
    BY DEF TypeOK, Packet
  <2>2. \A q \in AcksFor(p.seq) : q.flag = "ACK" /\ q.ack < expectedSeq
    BY <2>1 DEF AcksFor, Ack, FromReceiver
  <2> QED
    BY <1>16, <2>2, ReceivedFromSender, ReceiverStandsStill
    DEF R_UnexpectedData
<1>17. ASSUME NEW p \in toReceiver, R_RecvFin(p) PROVE Inv'
  <2>1. PeerIsTheSender' /\ rPc = "recv" /\ expectedSeq = Len(sent)
    BY <1>17, ReceivedFromSender DEF R_RecvFin
  <2>2. CASE Len(temp) # Len(announced)
    BY <1>17, <1>b, <2>1, <2>2, ReceiverFails DEF R_RecvFin, channels, Writing
  <2>3. CASE Len(temp) = Len(announced)
    <3> USE DEF notReceiver, fileVars, senderVars, channels
    <3>1. TempOK' /\ DestinationOK' /\ ToSenderOK'
      BY <1>17, <2>1, <2>3
      DEF R_RecvFin, Inv, TempOK, DestinationOK, ToSenderOK, Writing
    <3>2. ToReceiverOK' /\ SequenceOK'
      BY <1>17, <2>3
      DEF R_RecvFin, Inv, ToReceiverOK, SequenceOK, WindowOfOne
    <3> QED BY <2>1, <3>1, <3>2 DEF Inv
  <2> QED BY <2>2, <2>3
<1>18. ASSUME NEW p \in toReceiver, R_LingerFin(p) PROVE Inv'
  BY <1>7, <1>18 DEF R_LingerFin, receiverVars
<1> QED
  BY <1>1, <1>2, <1>3, <1>4, <1>5, <1>6, <1>8, <1>9, <1>10, <1>11, <1>12,
     <1>13, <1>14, <1>15, <1>16, <1>17, <1>18 DEF ReceiverStep

LEMMA InvNext == TypeOK /\ Inv /\ [Next]_vars => Inv'
<1> SUFFICES ASSUME TypeOK, Inv, [Next]_vars PROVE Inv'
  OBVIOUS
<1>1. CASE SenderStep BY <1>1, SenderInv
<1>2. CASE ReceiverStep BY <1>2, ReceiverInv
<1>3. CASE UNCHANGED vars
  BY <1>3
  DEF Inv, ToReceiverOK, ToSenderOK, SequenceOK, WindowOfOne, TempOK,
      DestinationOK, PeerIsTheSender, vars, fileVars, senderVars,
      receiverVars, channels
<1> QED BY <1>1, <1>2, <1>3 DEF Next, Done

THEOREM Invariance == Spec => [](TypeOK /\ Inv)
<1>1. TypeOK /\ Inv /\ [Next]_vars => (TypeOK /\ Inv)'
  BY TypeNext, InvNext
<1> QED BY TypeInit, InvInit, <1>1, PTL DEF Spec

-------------------------------------------------------------------------------
(* The properties of StopAndWait.                                          *)

(* send_file returns normally only when the file it hashed, the file it    *)
(* streamed and the file announced over TCP are one and the destination    *)
(* holds it.                                                               *)
THEOREM SenderSuccess == Spec => []SenderSuccessMeansDelivered
<1>1. Inv => SenderSuccessMeansDelivered
  BY DEF Inv, DestinationOK, SenderSuccessMeansDelivered
<1> QED BY Invariance, <1>1, PTL

(* The temporary file is at every moment the beginning of the sender's     *)
(* file: no chunk is written twice, skipped, or taken from elsewhere.      *)
THEOREM InOrder == Spec => []WrittenOnceInOrder
<1>1. TypeOK /\ Inv => WrittenOnceInOrder
  <2> SUFFICES ASSUME TypeOK, Inv, temp # NoFile
               PROVE  expectedSeq <= Len(sent) /\ temp = SubSeq(sent, 1, expectedSeq)
    BY DEF WrittenOnceInOrder
  <2>1. /\ temp \in Seq(Chunk) /\ sent \in Seq(Chunk) /\ expectedSeq \in Nat
        /\ expectedSeq <= Len(sent) /\ Len(temp) = expectedSeq
        /\ \A i \in 1 .. expectedSeq : temp[i] = sent[i]
    BY DEF TypeOK, Inv, TempOK
  <2>2. /\ SubSeq(sent, 1, expectedSeq) \in Seq(Chunk)
        /\ Len(SubSeq(sent, 1, expectedSeq)) = expectedSeq
        /\ \A i \in 1 .. expectedSeq : SubSeq(sent, 1, expectedSeq)[i] = sent[i]
    BY <2>1
  <2> QED BY <2>1, <2>2
<1> QED BY Invariance, <1>1, PTL

(* Every chunk the receiver has acknowledged is in the temporary file or   *)
(* in the destination until the receiver fails.                            *)
THEOREM AcknowledgedKept == Spec => []AcknowledgedIsKept
<1>1. TypeOK /\ Inv => AcknowledgedIsKept
  <2> SUFFICES ASSUME TypeOK, Inv, NEW p \in toSender,
                      p.tid = Tid, p.flag = "ACK", rPc # "raised"
               PROVE  LET kept == IF temp # NoFile THEN temp ELSE destination
                      IN  p.ack < Len(kept) /\ kept[p.ack + 1] = sent[p.ack + 1]
    BY DEF AcknowledgedIsKept
  <2>1. p.ack \in Nat /\ p.ack < expectedSeq /\ expectedSeq \in Nat
    BY DEF TypeOK, Packet, Inv, ToSenderOK
  <2>2. CASE rPc \in Writing
    BY <2>1, <2>2 DEF TypeOK, Inv, TempOK
  <2>3. CASE rPc \in {"finack", "linger", "returned"}
    BY <2>1, <2>3 DEF TypeOK, Inv, TempOK, DestinationOK, Writing
  <2>4. rPc # "start"
    BY <2>1 DEF Inv, TempOK
  <2> QED BY <2>2, <2>3, <2>4 DEF TypeOK, ReceiverPcs, Writing
<1> QED BY Invariance, <1>1, PTL

(* The window never holds more than one packet.                            *)
THEOREM StopsAndWaits == Spec => []WindowOfOne
<1>1. Inv => WindowOfOne
  BY DEF Inv, SequenceOK
<1> QED BY Invariance, <1>1, PTL

(* No leftover datagram captures the address that acknowledgments go to.   *)
THEOREM PeerIsSender == Spec => []PeerIsTheSender
<1>1. Inv => PeerIsTheSender
  BY DEF Inv
<1> QED BY Invariance, <1>1, PTL

(* No temporary file outlives its receiver.                                *)
THEOREM TempRemoved == Spec => []NoTempLeft
<1>1. Inv => NoTempLeft
  BY DEF Inv, TempOK, NoTempLeft, Ended, Writing
<1> QED BY Invariance, <1>1, PTL

(* Where no operation raises OSError, a receiver that fails has left the   *)
(* destination as it was.                                                  *)
THEOREM FailureKeepsDestination ==
    ASSUME ~IoErrors
    PROVE  Spec => []FailedReceiverKeepsDestination
<1>1. Inv => FailedReceiverKeepsDestination
  BY DEF Inv, DestinationOK, FailedReceiverKeepsDestination
<1> QED BY Invariance, <1>1, PTL

\* What a cancellation that came before FIN fixes for ever.
CancelledEarly ==
    rCancelled /\ rPc \in {"start", "poll", "raised"} /\ destination = original

(* A cancellation the receiver sees before it has the whole file is final: *)
(* the destination keeps its old content for ever after.                   *)
THEOREM CancelIsFinal == Spec => CancelBeforeFinIsFinal
<1> DEFINE early == rCancelled /\ rPc \in {"start", "poll"}
           untouched == destination = original
<1>1. Inv /\ early => CancelledEarly
  BY DEF Inv, DestinationOK, CancelledEarly, Writing
<1>2. CancelledEarly /\ [Next]_vars => CancelledEarly'
  <2> SUFFICES ASSUME CancelledEarly, [Next]_vars PROVE CancelledEarly'
    OBVIOUS
  <2> USE DEF CancelledEarly
  <2>1. CASE SenderStep
    BY <2>1
    DEF SenderStep, notSender, fileVars, receiverVars, S_Start, S_FileMissing,
        S_EncodeError, S_Send, S_CheckCancelled, S_Poll, S_Timeout, S_Ignore,
        S_IoError, S_Abort, S_RecvAck, S_RecvFinAck, S_RecvCancel
  <2>2. CASE ReceiverStep
    BY <2>2
    DEF ReceiverStep, ReceiverRaises, receiverBooks, notReceiver, fileVars,
        R_Start, R_CheckCancelled, R_Poll, R_Quiet, R_IdleTimeout, R_Verify,
        R_FinAck, R_LingerEnd, R_IoError, R_Abort, R_Receives, R_Ignore,
        R_RecvCancel, R_AcceptData, R_TooMuchData, R_UnexpectedData,
        R_RecvFin, R_LingerFin
  <2>3. CASE UNCHANGED vars
    BY <2>3 DEF vars, fileVars, receiverVars
  <2> QED BY <2>1, <2>2, <2>3 DEF Next, Done
<1>3. CancelledEarly => untouched
  BY DEF CancelledEarly
<1>4. CancelBeforeFinIsFinal <=> [](early => []untouched)
  BY DEF CancelBeforeFinIsFinal
<1> HIDE DEF early, untouched
<1> QED BY Invariance, <1>1, <1>2, <1>3, <1>4, PTL DEF Spec

-------------------------------------------------------------------------------
(* The refinement.                                                         *)

LEMMA AbstractInit == Init => RD!Init
  BY DEF Init, RD!Init, Outcome, Ended

LEMMA SenderImplements ==
    ASSUME TypeOK, Inv, SenderStep
    PROVE  [RD!Next]_(RD!vars)
<1> USE DEF Outcome, Ended, RD!Next, RD!vars, RD!SenderRaises,
            RD!SenderReturns, SenderRaises, notSender, fileVars, receiverVars,
            TypeOK, SenderPcs
<1>1. CASE S_Start BY <1>1 DEF S_Start
<1>2. CASE S_FileMissing BY <1>2 DEF S_FileMissing
<1>3. CASE S_EncodeError BY <1>3 DEF S_EncodeError
<1>4. CASE S_Send BY <1>4 DEF S_Send
<1>5. CASE S_CheckCancelled BY <1>5 DEF S_CheckCancelled
<1>6. CASE S_Poll BY <1>6 DEF S_Poll
<1>7. CASE S_Timeout BY <1>7 DEF S_Timeout
<1>8. CASE S_Ignore BY <1>8 DEF S_Ignore
<1>9. CASE S_IoError BY <1>9 DEF S_IoError
<1>10. CASE S_Abort BY <1>10 DEF S_Abort
<1>11. ASSUME NEW p \in toSender, S_RecvAck(p) PROVE [RD!Next]_(RD!vars)
  BY <1>11 DEF S_RecvAck
<1>12. ASSUME NEW p \in toSender, S_RecvFinAck(p) PROVE [RD!Next]_(RD!vars)
  <2>1. destination = announced
    BY <1>12 DEF S_RecvFinAck, IsReply, ForSender, Inv, ToSenderOK
  <2> QED BY <1>12, <2>1 DEF S_RecvFinAck
<1>13. ASSUME NEW p \in toSender, S_RecvCancel(p) PROVE [RD!Next]_(RD!vars)
  BY <1>13 DEF S_RecvCancel
<1> QED
  BY <1>1, <1>2, <1>3, <1>4, <1>5, <1>6, <1>7, <1>8, <1>9, <1>10, <1>11,
     <1>12, <1>13 DEF SenderStep

LEMMA ReceiverImplements ==
    ASSUME TypeOK, Inv, ReceiverStep
    PROVE  [RD!Next]_(RD!vars)
<1> USE DEF Outcome, Ended, RD!Next, RD!vars, RD!ReceiverRaises,
            RD!ReceiverReturns, RD!Deliver, ReceiverRaises, receiverBooks,
            notReceiver, fileVars, senderVars, TypeOK, ReceiverPcs
<1>1. CASE R_Start BY <1>1 DEF R_Start
<1>2. CASE R_CheckCancelled BY <1>2 DEF R_CheckCancelled
<1>3. CASE R_Poll BY <1>3 DEF R_Poll
<1>4. CASE R_Quiet BY <1>4 DEF R_Quiet
<1>5. CASE R_IdleTimeout BY <1>5 DEF R_IdleTimeout
<1>6. CASE R_Verify
  <2>1. Verified => temp = announced
    BY DEF Verified, Digest
  <2> QED BY <1>6, <2>1 DEF R_Verify
<1>7. CASE R_FinAck BY <1>7 DEF R_FinAck
<1>8. CASE R_LingerEnd
  <2>1. destination = announced
    BY <1>8 DEF R_LingerEnd, Inv, DestinationOK
  <2> QED BY <1>8, <2>1 DEF R_LingerEnd
<1>9. CASE R_IoError BY <1>9 DEF R_IoError
<1>10. CASE R_Abort BY <1>10 DEF R_Abort
<1>11. ASSUME NEW p \in toReceiver, R_Ignore(p) PROVE [RD!Next]_(RD!vars)
  BY <1>11 DEF R_Ignore
<1>12. ASSUME NEW p \in toReceiver, R_RecvCancel(p) PROVE [RD!Next]_(RD!vars)
  BY <1>12 DEF R_RecvCancel, R_Receives
<1>13. ASSUME NEW p \in toReceiver, R_AcceptData(p) PROVE [RD!Next]_(RD!vars)
  BY <1>13 DEF R_AcceptData, R_Receives
<1>14. ASSUME NEW p \in toReceiver, R_TooMuchData(p) PROVE [RD!Next]_(RD!vars)
  BY <1>14 DEF R_TooMuchData, R_Receives
<1>15. ASSUME NEW p \in toReceiver, R_UnexpectedData(p) PROVE [RD!Next]_(RD!vars)
  BY <1>15 DEF R_UnexpectedData, R_Receives
<1>16. ASSUME NEW p \in toReceiver, R_RecvFin(p) PROVE [RD!Next]_(RD!vars)
  BY <1>16 DEF R_RecvFin, R_Receives
<1>17. ASSUME NEW p \in toReceiver, R_LingerFin(p) PROVE [RD!Next]_(RD!vars)
  BY <1>17 DEF R_LingerFin, receiverVars
<1> QED
  BY <1>1, <1>2, <1>3, <1>4, <1>5, <1>6, <1>7, <1>8, <1>9, <1>10, <1>11,
     <1>12, <1>13, <1>14, <1>15, <1>16, <1>17 DEF ReceiverStep

(* The protocol implements the abstract delivery: to the FTP layer the     *)
(* announced file appears at the destination in one step or not at all,    *)
(* and success is reported, on either side, only afterwards.               *)
THEOREM Implementation == Spec => Delivers
<1>1. TypeOK /\ Inv /\ [Next]_vars => [RD!Next]_(RD!vars)
  <2> SUFFICES ASSUME TypeOK, Inv, [Next]_vars PROVE [RD!Next]_(RD!vars)
    OBVIOUS
  <2>1. CASE SenderStep BY <2>1, SenderImplements
  <2>2. CASE ReceiverStep BY <2>2, ReceiverImplements
  <2>3. CASE UNCHANGED vars
    BY <2>3
    DEF vars, fileVars, senderVars, receiverVars, Outcome, RD!vars
  <2> QED BY <2>1, <2>2, <2>3 DEF Next, Done
<1> QED
  BY AbstractInit, Invariance, <1>1, PTL DEF Spec, Delivers, RD!Spec
===============================================================================
