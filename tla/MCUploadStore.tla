---------------------------- MODULE MCUploadStore ----------------------------
(* Small instances of UploadStore for TLC.                                 *)
EXTENDS UploadStore

CONSTANTS
    a, b,                   \* two text pieces
    noteTxt, noteMd, dir,   \* two targets with one stem, and a directory
    noteTmp, dirTmp

MCTargets == {noteTxt, noteMd, dir}
MCTempOf == [t \in MCTargets |-> IF t = dir THEN dirTmp ELSE noteTmp]

MCPieces == {a, b, "crlf", "lf"}

\* Contents of different lengths, with a line end, and the empty one.
MCContents == {<<a, "crlf">>, <<b>>, <<>>}

MCPlans ==
    {p \in [target : MCTargets, append : BOOLEAN, ascii : BOOLEAN, content : MCContents] :
        p.target = dir => p.content = <<b>>}
===============================================================================
