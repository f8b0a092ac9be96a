--------------------------- MODULE ReliableDelivery ---------------------------
(***************************************************************************)
(* What the rdt package promises to the FTP layer: a file announced over   *)
(* TCP is put in place whole or not at all, and a sender that returns      *)
(* normally may conclude that it is in place.  Nothing here mentions       *)
(* packets, sequence numbers, timers or temporary files.                   *)
(*                                                                         *)
(* The module StopAndWait is shown to implement this one.                  *)
(***************************************************************************)

CONSTANTS
    Contents,   \* the contents a file can have
    NoFile      \* the path does not exist

VARIABLES
    file,           \* the content announced over TCP
    destination,    \* the content found at the destination path
    sender,         \* how StopAndWaitSender.send_file ended, or "pending"
    receiver        \* how StopAndWaitReceiver.receive_file ended, or "pending"

vars == <<file, destination, sender, receiver>>

Result == {"pending", "returned", "raised"}

TypeOK ==
    /\ file \in Contents
    /\ destination \in Contents \cup {NoFile}
    /\ sender \in Result
    /\ receiver \in Result

Init ==
    /\ file \in Contents
    /\ destination \in Contents \cup {NoFile}
    /\ sender = "pending"
    /\ receiver = "pending"

(* The announced file replaces the destination in one step, and only the   *)
(* running receiver does it.                                               *)
Deliver ==
    /\ receiver = "pending"
    /\ destination' = file
    /\ UNCHANGED <<file, sender, receiver>>

(* Success is reported only for a file that is in place.                   *)
SenderReturns ==
    /\ sender = "pending"
    /\ destination = file
    /\ sender' = "returned"
    /\ UNCHANGED <<file, destination, receiver>>

ReceiverReturns ==
    /\ receiver = "pending"
    /\ destination = file
    /\ receiver' = "returned"
    /\ UNCHANGED <<file, destination, sender>>

(* Either side may fail or be cancelled at any time, on its own.           *)
SenderRaises ==
    /\ sender = "pending"
    /\ sender' = "raised"
    /\ UNCHANGED <<file, destination, receiver>>

ReceiverRaises ==
    /\ receiver = "pending"
    /\ receiver' = "raised"
    /\ UNCHANGED <<file, destination, sender>>

Next ==
    \/ Deliver
    \/ SenderReturns
    \/ ReceiverReturns
    \/ SenderRaises
    \/ ReceiverRaises

Spec == Init /\ [][Next]_vars
===============================================================================
