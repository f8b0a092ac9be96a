----------------------------- MODULE StopAndWait -----------------------------
(***************************************************************************)
(* One transfer of the rdt package: StopAndWaitSender.send_file at one end *)
(* of a UDP path and StopAndWaitReceiver.receive_file at the other.        *)
(*                                                                         *)
(* A datagram once sent stays in its channel for ever and a receive takes  *)
(* a copy: it may be delivered never, late, twice or out of order.  That   *)
(* is UDP with the FaultInjector's loss and duplication.  A datagram       *)
(* corrupted on the way fails its CRC and is dropped by decode_packet,     *)
(* which the receiving loop does not tell from silence.                    *)
(*                                                                         *)
(* A file is a sequence of chunks; sizes are counted in chunks.            *)
(*                                                                         *)
(* RetriesOneTooMany, AttemptNotCounted, AnyReply, AnyHash,                *)
(* RaisesWithoutUnlink, R_PollIgnoringCancel, AcceptsAnyTransfer,          *)
(* LatchedUnfiltered, AcksNextExpected and NotVerified are faults the code *)
(* does not have.  No action uses them: each replaces the definition that  *)
(* follows it to see that a property notices.                              *)
(***************************************************************************)
EXTENDS Integers, Sequences

CONSTANTS
    Chunk,              \* payloads of DATA packets
    Files,              \* the contents a file can have
    NoFile, NoPayload,  \* a path that does not exist; an empty payload
    Tids, Tid,          \* transfer identifiers; the one of this transfer
    StraysToReceiver,   \* datagrams of other transfers found at the port of
    StraysToSender,     \*   the receiver and of the sender
    MaxRetries,         \* RDTConfig.maximum_retries
    MaxSeq,             \* the largest sequence number the header can carry
    IoErrors            \* may a socket or file operation raise OSError?

Addresses == {"sender", "receiver", "stranger"}
NoPeer == "none"
Flags == {"DATA", "ACK", "FIN", "FIN_ACK", "CANCEL"}

\* SHA-256, taken to be free of collisions.
Digest(f) == <<"sha256", f>>

Payloads == Chunk \cup {NoPayload} \cup {Digest(f) : f \in Files}

Packet ==
    {p \in [src : Addresses, flag : Flags, tid : Tids,
            seq : Nat, ack : Nat, payload : Payloads] :
        p.flag = "DATA" => p.payload \in Chunk}

ASSUME ParameterAssumption ==
    /\ Files \subseteq Seq(Chunk)
    /\ NoFile \notin Seq(Chunk)
    /\ Tid \in Tids
    /\ MaxRetries \in Nat
    /\ MaxSeq \in Nat
    /\ IoErrors \in BOOLEAN

\* The server draws the transfer identifier afresh, so what another transfer
\* left in the network carries another one.
ASSUME StrayAssumption ==
    /\ StraysToReceiver \subseteq Packet /\ StraysToSender \subseteq Packet
    /\ \A p \in StraysToReceiver \cup StraysToSender : p.tid # Tid

VARIABLES
    announced,      \* the content whose size and hash went over TCP
    hashed,         \* the content send_file hashed
    sent,           \* the content send_file then read, chunk by chunk
    original,       \* what was at the destination before
    sPc, sequence, attempt, sState, sCancelled,
    rPc, expectedSeq, peer, temp, destination, rState, rCancelled,
    toReceiver, toSender

fileVars == <<announced, hashed, sent, original>>
senderVars == <<sPc, sequence, attempt, sState, sCancelled>>
receiverVars == <<rPc, expectedSeq, peer, temp, destination, rState, rCancelled>>
channels == <<toReceiver, toSender>>
vars == <<fileVars, senderVars, receiverVars, channels>>

\* Groups of variables that most actions leave alone.
senderBooks == <<sequence, attempt, sState, sCancelled>>
receiverBooks == <<expectedSeq, temp, destination, rState, rCancelled>>
notSender == <<fileVars, receiverVars>>
notReceiver == <<fileVars, senderVars>>

SenderPcs == {"start", "send", "poll", "recv", "returned", "raised"}
ReceiverPcs == {"start", "poll", "recv", "verify", "finack", "linger",
                "returned", "raised"}
Writing == {"poll", "recv", "verify"}    \* the temporary file exists
Ended == {"returned", "raised"}
TransferStates == {"created", "running", "verifying", "completed", "failed",
                   "cancelled"}

TypeOK ==
    /\ announced \in Files /\ hashed \in Files /\ sent \in Files
    /\ original \in Files \cup {NoFile}
    /\ sPc \in SenderPcs
    /\ sequence \in Nat
    /\ attempt \in 0 .. MaxRetries
    /\ rPc \in ReceiverPcs
    /\ expectedSeq \in Nat
    /\ peer \in Addresses \cup {NoPeer}
    /\ temp \in Seq(Chunk) \cup {NoFile}
    /\ rPc \in Writing => temp \in Seq(Chunk)
    /\ destination \in Files \cup {NoFile}
    /\ rPc \in {"finack", "linger"} => destination \in Files
    /\ sState \in TransferStates /\ rState \in TransferStates
    /\ sCancelled \in BOOLEAN /\ rCancelled \in BOOLEAN
    /\ toReceiver \subseteq Packet /\ toSender \subseteq Packet

-------------------------------------------------------------------------------
(* The packets each side builds.                                           *)

FromSender(flag, seq, payload) ==
    [src |-> "sender", flag |-> flag, tid |-> Tid,
     seq |-> seq, ack |-> 0, payload |-> payload]

FromReceiver(flag, ack, payload) ==
    [src |-> "receiver", flag |-> flag, tid |-> Tid,
     seq |-> 0, ack |-> ack, payload |-> payload]

Data(n) == FromSender("DATA", n, sent[n + 1])
Fin(n) == FromSender("FIN", n, NoPayload)
Ack(n) == FromReceiver("ACK", n, NoPayload)
FinAck(n, f) == FromReceiver("FIN_ACK", n, Digest(f))

SendToReceiver(p) == toReceiver' = toReceiver \cup {p}
SendToSender(ps) == toSender' = toSender \cup ps

-------------------------------------------------------------------------------
(* The sender.                                                             *)

Streaming == sequence < Len(sent)

SenderRaises ==
    /\ sPc' = "raised"
    /\ sState' = IF sCancelled THEN sState ELSE "failed"
    /\ UNCHANGED <<sequence, attempt, sCancelled>>

S_Start ==
    /\ sPc = "start"
    /\ sPc' = "send"
    /\ sState' = "running"
    /\ UNCHANGED <<sequence, attempt, sCancelled, notSender, channels>>

\* The path is gone, or cannot be read, before the try block is entered.
S_FileMissing ==
    /\ IoErrors
    /\ sPc = "start"
    /\ sPc' = "raised"
    /\ UNCHANGED <<senderBooks, notSender, channels>>

S_EncodeError ==
    /\ sPc = "send" /\ attempt = 0
    /\ sequence > MaxSeq
    /\ SenderRaises
    /\ UNCHANGED <<notSender, channels>>

S_Send ==
    /\ sPc = "send" /\ ~sCancelled
    /\ sequence <= MaxSeq
    /\ SendToReceiver(IF Streaming THEN Data(sequence) ELSE Fin(sequence))
    /\ sPc' = "poll"
    /\ UNCHANGED <<senderBooks, notSender, toSender>>

\* _check_cancelled, at the head of an attempt or of the waiting loop.
S_CheckCancelled ==
    /\ sPc \in {"send", "poll"} /\ sCancelled
    /\ sequence <= MaxSeq
    /\ SendToReceiver(FromSender("CANCEL", 0, NoPayload))
    /\ SenderRaises
    /\ UNCHANGED <<notSender, toSender>>

S_Poll ==
    /\ sPc = "poll" /\ ~sCancelled
    /\ sPc' = "recv"
    /\ UNCHANGED <<senderBooks, notSender, channels>>

RetriesOneTooMany == attempt <= MaxRetries

RetriesLeft == attempt < MaxRetries

AttemptNotCounted == attempt

NextAttempt == attempt + 1

\* The retransmission deadline passes: the next attempt, or the last was made.
S_Timeout ==
    /\ sPc \in {"poll", "recv"}
    /\ IF RetriesLeft
       THEN /\ sPc' = "send"
            /\ attempt' = NextAttempt
            /\ UNCHANGED <<sequence, sState, sCancelled>>
       ELSE SenderRaises
    /\ UNCHANGED <<notSender, channels>>

ForSender(p) == p.src = "receiver" /\ p.tid = Tid

AnyReply(p) == ForSender(p) /\ p.flag = (IF Streaming THEN "ACK" ELSE "FIN_ACK")

IsReply(p) ==
    /\ ForSender(p)
    /\ p.flag = (IF Streaming THEN "ACK" ELSE "FIN_ACK")
    /\ p.ack = sequence

S_RecvAck(p) ==
    /\ sPc = "recv" /\ Streaming /\ IsReply(p)
    /\ sPc' = "send"
    /\ sequence' = sequence + 1
    /\ attempt' = 0
    /\ UNCHANGED <<sState, sCancelled, notSender, channels>>

AnyHash(p) == TRUE

SameHash(p) == p.payload = Digest(hashed)

S_RecvFinAck(p) ==
    /\ sPc = "recv" /\ ~Streaming /\ IsReply(p)
    /\ IF SameHash(p)
       THEN /\ sPc' = "returned"
            /\ sState' = "completed"
            /\ UNCHANGED <<sequence, attempt, sCancelled>>
       ELSE SenderRaises
    /\ UNCHANGED <<notSender, channels>>

S_RecvCancel(p) ==
    /\ sPc = "recv" /\ ForSender(p) /\ p.flag = "CANCEL"
    /\ sPc' = "raised"
    /\ sCancelled' = TRUE
    /\ sState' = "cancelled"
    /\ UNCHANGED <<sequence, attempt, notSender, channels>>

\* A datagram of another transfer, not the awaited reply, or a corrupted one.
S_Ignore ==
    /\ sPc = "recv" /\ toSender # {}
    /\ sPc' = "poll"
    /\ UNCHANGED <<senderBooks, notSender, channels>>

S_IoError ==
    /\ IoErrors
    /\ sPc \in {"send", "recv"}
    /\ SenderRaises
    /\ UNCHANGED <<notSender, channels>>

\* Another thread calls TransferContext.cancel.
S_Abort ==
    /\ sPc \notin Ended /\ ~sCancelled
    /\ sCancelled' = TRUE
    /\ sState' = "cancelled"
    /\ UNCHANGED <<sPc, sequence, attempt, notSender, channels>>

SenderStep ==
    \/ S_Start \/ S_FileMissing \/ S_EncodeError \/ S_Send
    \/ S_CheckCancelled \/ S_Poll \/ S_Timeout \/ S_Ignore \/ S_IoError \/ S_Abort
    \/ \E p \in toSender : S_RecvAck(p)
    \/ \E p \in toSender : S_RecvFinAck(p)
    \/ \E p \in toSender : S_RecvCancel(p)

-------------------------------------------------------------------------------
(* The receiver.  Its temporary file is named after the transfer identifier *)
(* and so belongs to it alone; raising removes it.                          *)

RaisesWithoutUnlink ==
    /\ rPc' = "raised"
    /\ rState' = IF rCancelled THEN rState ELSE "failed"
    /\ UNCHANGED <<expectedSeq, temp, destination, rCancelled>>

ReceiverRaises ==
    /\ rPc' = "raised"
    /\ temp' = NoFile
    /\ rState' = IF rCancelled THEN rState ELSE "failed"
    /\ UNCHANGED <<expectedSeq, destination, rCancelled>>

R_Start ==
    /\ rPc = "start"
    /\ rPc' = "poll"
    /\ temp' = <<>>
    /\ rState' = "running"
    /\ UNCHANGED <<expectedSeq, peer, destination, rCancelled, notReceiver, channels>>

\* The sender is told only if a packet of it has been seen.
R_CheckCancelled ==
    /\ rPc = "poll" /\ rCancelled
    /\ SendToSender(IF peer = NoPeer THEN {}
                    ELSE {FromReceiver("CANCEL", 0, NoPayload)})
    /\ ReceiverRaises
    /\ UNCHANGED <<peer, notReceiver, toReceiver>>

R_PollIgnoringCancel ==
    /\ rPc = "poll"
    /\ rPc' = "recv"
    /\ UNCHANGED <<receiverBooks, peer, notReceiver, channels>>

R_Poll ==
    /\ rPc = "poll" /\ ~rCancelled
    /\ rPc' = "recv"
    /\ UNCHANGED <<receiverBooks, peer, notReceiver, channels>>

\* The poll interval passes in silence, or what came does not decode.
R_Quiet ==
    /\ rPc = "recv"
    /\ rPc' = "poll"
    /\ UNCHANGED <<receiverBooks, peer, notReceiver, channels>>

R_IdleTimeout ==
    /\ rPc = "poll"
    /\ ReceiverRaises
    /\ UNCHANGED <<peer, notReceiver, channels>>

\* The two filters of the loop, and the source address latched between them.
AcceptsAnyTransfer(p) == peer \in {NoPeer, p.src}

Accepts(p) == p.tid = Tid /\ peer \in {NoPeer, p.src}

R_Receives(p) == rPc = "recv" /\ Accepts(p) /\ peer' = p.src

\* FIN out of place; anything that is neither DATA, FIN nor CANCEL.
OutOfPlace(p) ==
    p.flag \notin {"DATA", "CANCEL"} /\ (p.flag = "FIN" => p.seq # expectedSeq)

LatchedUnfiltered(p) == IF peer = NoPeer THEN p.src ELSE peer

LatchedPeer(p) == IF Accepts(p) THEN p.src ELSE peer

R_Ignore(p) ==
    /\ rPc = "recv" /\ (Accepts(p) => OutOfPlace(p))
    /\ peer' = LatchedPeer(p)
    /\ rPc' = "poll"
    /\ UNCHANGED <<receiverBooks, notReceiver, channels>>

R_RecvCancel(p) ==
    /\ R_Receives(p) /\ p.flag = "CANCEL"
    /\ rPc' = "raised"
    /\ temp' = NoFile
    /\ rCancelled' = TRUE
    /\ rState' = "cancelled"
    /\ UNCHANGED <<expectedSeq, destination, notReceiver, channels>>

R_AcceptData(p) ==
    /\ R_Receives(p) /\ p.flag = "DATA"
    /\ p.seq = expectedSeq
    /\ Len(temp) < Len(announced)
    /\ temp' = Append(temp, p.payload)
    /\ SendToSender({Ack(expectedSeq)})
    /\ expectedSeq' = expectedSeq + 1
    /\ rPc' = "poll"
    /\ UNCHANGED <<destination, rState, rCancelled, notReceiver, toReceiver>>

R_TooMuchData(p) ==
    /\ R_Receives(p) /\ p.flag = "DATA"
    /\ p.seq = expectedSeq
    /\ Len(temp) >= Len(announced)
    /\ ReceiverRaises
    /\ UNCHANGED <<notReceiver, channels>>

AcksNextExpected(n) == {Ack(expectedSeq)}

\* What an unexpected DATA packet is answered with.
AcksFor(n) ==
    IF n < expectedSeq THEN {Ack(n)}
    ELSE IF expectedSeq > 0 THEN {Ack(expectedSeq - 1)} ELSE {}

R_UnexpectedData(p) ==
    /\ R_Receives(p) /\ p.flag = "DATA"
    /\ p.seq # expectedSeq
    /\ SendToSender(AcksFor(p.seq))
    /\ rPc' = "poll"
    /\ UNCHANGED <<receiverBooks, notReceiver, toReceiver>>

\* The temporary file is complete: FIN carries the number after its last chunk.
R_RecvFin(p) ==
    /\ R_Receives(p) /\ p.flag = "FIN"
    /\ p.seq = expectedSeq
    /\ IF Len(temp) = Len(announced)
       THEN /\ rPc' = "verify"
            /\ rState' = "verifying"
            /\ UNCHANGED <<expectedSeq, temp, destination, rCancelled>>
       ELSE ReceiverRaises
    /\ UNCHANGED <<notReceiver, channels>>

NotVerified == TRUE

Verified == Digest(temp) = Digest(announced)

\* Path.replace puts the verified temporary file in place in one step.
R_Verify ==
    /\ rPc = "verify"
    /\ IF Verified
       THEN /\ rPc' = "finack"
            /\ destination' = temp
            /\ temp' = NoFile
            /\ UNCHANGED <<expectedSeq, rState, rCancelled>>
       ELSE ReceiverRaises
    /\ UNCHANGED <<peer, notReceiver, channels>>

R_FinAck ==
    /\ rPc = "finack"
    /\ SendToSender({FinAck(expectedSeq, destination)})
    /\ rPc' = "linger"
    /\ UNCHANGED <<receiverBooks, peer, notReceiver, toReceiver>>

\* _linger_for_duplicate_fin answers each further FIN with the same FIN_ACK.
R_LingerFin(p) ==
    /\ rPc = "linger"
    /\ p.src = peer /\ p.tid = Tid
    /\ p.flag = "FIN" /\ p.seq = expectedSeq
    /\ SendToSender({FinAck(expectedSeq, destination)})
    /\ UNCHANGED <<receiverVars, notReceiver, toReceiver>>

R_LingerEnd ==
    /\ rPc = "linger"
    /\ rPc' = "returned"
    /\ rState' = "completed"
    /\ UNCHANGED <<expectedSeq, peer, temp, destination, rCancelled, notReceiver, channels>>

R_IoError ==
    /\ IoErrors
    /\ rPc \in {"start", "recv", "verify", "finack", "linger"}
    /\ ReceiverRaises
    /\ UNCHANGED <<peer, notReceiver, channels>>

\* Another thread calls TransferContext.cancel.
R_Abort ==
    /\ rPc \notin Ended /\ ~rCancelled
    /\ rCancelled' = TRUE
    /\ rState' = "cancelled"
    /\ UNCHANGED <<rPc, expectedSeq, peer, temp, destination, notReceiver, channels>>

ReceiverStep ==
    \/ R_Start \/ R_CheckCancelled \/ R_Poll \/ R_Quiet \/ R_IdleTimeout
    \/ R_Verify \/ R_FinAck \/ R_LingerEnd \/ R_IoError \/ R_Abort
    \/ \E p \in toReceiver : R_Ignore(p)
    \/ \E p \in toReceiver : R_RecvCancel(p)
    \/ \E p \in toReceiver : R_AcceptData(p)
    \/ \E p \in toReceiver : R_TooMuchData(p)
    \/ \E p \in toReceiver : R_UnexpectedData(p)
    \/ \E p \in toReceiver : R_RecvFin(p)
    \/ \E p \in toReceiver : R_LingerFin(p)

-------------------------------------------------------------------------------
Init ==
    /\ announced \in Files /\ hashed \in Files /\ sent \in Files
    /\ original \in Files \cup {NoFile}
    /\ sPc = "start" /\ sequence = 0 /\ attempt = 0
    /\ sState = "created" /\ sCancelled = FALSE
    /\ rPc = "start" /\ expectedSeq = 0 /\ peer = NoPeer
    /\ temp = NoFile /\ destination = original
    /\ rState = "created" /\ rCancelled = FALSE
    /\ toReceiver = StraysToReceiver /\ toSender = StraysToSender

BothEnded == sPc \in Ended /\ rPc \in Ended

Done == BothEnded /\ UNCHANGED vars

Next == SenderStep \/ ReceiverStep \/ Done

Spec == Init /\ [][Next]_vars

(* Every step of the two loops happens, and every deadline passes.  A       *)
(* retransmission deadline is fixed before the loop that waits for it.  The *)
(* idle deadline moves with every datagram that decodes, but a datagram is  *)
(* delivered finitely often, so silence comes again and again: it is the    *)
(* one deadline that needs strong fairness, as it is disabled while a       *)
(* packet is handled.  Nothing is promised about delivery, errors or        *)
(* cancellation.                                                            *)
Fairness ==
    /\ WF_vars(S_Start) /\ WF_vars(S_EncodeError) /\ WF_vars(S_Send)
    /\ WF_vars(S_CheckCancelled) /\ WF_vars(S_Timeout)
    /\ WF_vars(R_Start) /\ WF_vars(R_CheckCancelled)
    /\ WF_vars(R_Poll) /\ WF_vars(R_Quiet) /\ SF_vars(R_IdleTimeout)
    /\ WF_vars(R_Verify) /\ WF_vars(R_FinAck) /\ WF_vars(R_LingerEnd)

FairSpec == Spec /\ Fairness

-------------------------------------------------------------------------------
(* Properties.                                                             *)

(* The sender's normal return (send_file, line 81) is a promise: the file   *)
(* it hashed is the file announced, and it is what the destination holds.   *)
SenderSuccessMeansDelivered ==
    sPc = "returned" =>
        hashed = announced /\ sent = announced /\ destination = announced

(* What the receiver writes is the sender's file from its first chunk on,   *)
(* each chunk once and in order, whatever was lost, repeated, reordered or  *)
(* left over from another transfer.                                         *)
WrittenOnceInOrder ==
    temp # NoFile =>
        expectedSeq <= Len(sent) /\ temp = SubSeq(sent, 1, expectedSeq)

(* No acknowledgment runs ahead of the disk: a chunk the receiver has       *)
(* acknowledged is in the temporary file or in the destination, as long as  *)
(* the receiver has not failed.                                             *)
AcknowledgedIsKept ==
    \A p \in toSender :
        p.tid = Tid /\ p.flag = "ACK" /\ rPc # "raised" =>
            LET kept == IF temp # NoFile THEN temp ELSE destination
            IN  p.ack < Len(kept) /\ kept[p.ack + 1] = sent[p.ack + 1]

(* Stop and wait: the sender is never more than one packet ahead of the     *)
(* receiver, nor the receiver more than one ahead of the sender.            *)
WindowOfOne == sequence <= expectedSeq /\ expectedSeq <= sequence + 1

(* A packet left over from another transfer never captures the receiver.    *)
PeerIsTheSender == peer \in {NoPeer, "sender"}

(* However the receiver ends, its temporary file is gone.                   *)
NoTempLeft == rPc \in Ended => temp = NoFile

(* docs/integration-guide.md:225: a failed transfer does not replace the    *)
(* destination.                                                             *)
FailedReceiverKeepsDestination == rPc = "raised" => destination = original

(* A receiver cancelled before it has the whole file never installs it.     *)
(* (Cancelled later, while a FIN is on its way through, it still may.)      *)
CancelBeforeFinIsFinal ==
    [](rCancelled /\ rPc \in {"start", "poll"} => [](destination = original))

(* Whatever the network does, both calls end.                               *)
Termination == <>[]BothEnded

(* The abstract specification of a delivery, and the refinement mapping.    *)
Outcome(pc) == IF pc \in Ended THEN pc ELSE "pending"

RD == INSTANCE ReliableDelivery WITH
    Contents <- Files, file <- announced,
    sender <- Outcome(sPc), receiver <- Outcome(rPc)

Delivers == RD!Spec
===============================================================================
