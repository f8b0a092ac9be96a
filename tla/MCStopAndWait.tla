---------------------------- MODULE MCStopAndWait ----------------------------
(* Small instances of StopAndWait for TLC.                                 *)
EXTENDS StopAndWait

CONSTANTS a, b, t, u    \* two chunks, two transfer identifiers

\* The empty file, files of equal size and different content, prefixes of others, and one
\* with a chunk more than the sequence numbers of the runs allow.
MCFiles == {<<>>, <<a>>, <<b>>, <<a, b>>, <<a, b, b>>}

\* Fewer, for the run that looks for one counterexample.
MCFewerFiles == {<<a>>, <<a, b>>, <<b, b>>, <<a, b, b>>}

Stray(src, flag, seq, ack, payload) ==
    [src |-> src, flag |-> flag, tid |-> u,
     seq |-> seq, ack |-> ack, payload |-> payload]

\* Left in the network by a transfer that used the same ports, and by one
\* that did not.
MCStraysToReceiver ==
    {Stray("sender", "DATA", 0, 0, b), Stray("stranger", "CANCEL", 0, 0, NoPayload)}

MCStraysToSender ==
    {Stray("receiver", "ACK", 0, 0, NoPayload)}
===============================================================================
