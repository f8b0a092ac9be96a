--------------------------- MODULE MCControlSession ---------------------------
(* A small instance of ControlSession for TLC.                             *)
EXTENDS ControlSession, TLC

CONSTANTS a, b

Relative(parts) == [absolute |-> FALSE, parts |-> parts]
Absolute(parts) == [absolute |-> TRUE, parts |-> parts]

MCInputs ==
    {Relative(<<"..", "srvold", "old">>), Absolute(<<>>)}
    \cup {Relative(<<n>>) : n \in Names} \cup {Absolute(<<n>>) : n \in Names}
    \cup {Relative(<<n, "..">>) : n \in Names} \cup {Relative(<<"..", n>>) : n \in Names}
    \cup {Relative(<<a, b>>), Relative(<<b, a>>)}

\* The inputs, like the names, are interchangeable.
MCSymmetry == Permutations(Names)

\* While an offer is pending the session sends no other command: the offer
\* is an absolute path, so that a CWD might as well come before it, and all
\* that this session could do to the storage the others do.
OfferAlone ==
    renameFrom # NoPath /\ pc = "read" => pc' \in {"read", "RNFR", "RNTO"}
===============================================================================
