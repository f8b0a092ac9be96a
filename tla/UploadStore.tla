----------------------------- MODULE UploadStore -----------------------------
(***************************************************************************)
(* What udp_receive_file does to the server's disk after the rdt receiver  *)
(* has verified an upload: STOR and STOU replace a file, APPE extends one, *)
(* in binary or with CRLF turned into LF.  Each upload belongs to another  *)
(* session, so uploads run side by side and share nothing but the disk.    *)
(*                                                                         *)
(* The disk is that of POSIX: a name refers to a file, a file outlives its *)
(* name while it is open, and a rename replaces the new name in one step.  *)
(* Contents are sequences of pieces, the buffers in which copyfileobj      *)
(* copies; a piece is a line end or other text.                            *)
(*                                                                         *)
(* UploadNamedByTarget, TempIsTarget, U_CopyEndsUnclosed and               *)
(* ExceptKeepsUpload are faults the code does not have; each replaces the  *)
(* definition after it to see that a property notices.                     *)
(***************************************************************************)
EXTENDS Integers, Sequences, Functions

CONSTANTS
    Jobs,           \* uploads accepted with 150
    Plans,          \* what a data command may ask for
    Pieces,         \* "crlf", "lf" and other text
    Contents,       \* contents of files and uploads
    Targets,        \* the paths that uploads may name ...
    Directories,    \* ... of which these are directories
    TempOf,         \* destination.with_suffix(".tmp.ascii"), for each target
    NoFile,         \* no such path; nothing stored
    IoErrors,       \* may a file operation raise OSError?
    SharedTemps     \* may two ASCII uploads have one temporary file?

\* The file found at a target, received by a job, or created by one.
FileIds == ({"old"} \X Targets) \cup ({"received", "created"} \X Jobs)

Temps == {TempOf[t] : t \in Targets}

ASSUME StoreAssumption ==
    /\ Plans \subseteq [target : Targets, append : BOOLEAN, ascii : BOOLEAN,
                        content : Contents]
    /\ {"crlf", "lf"} \subseteq Pieces
    /\ Contents \subseteq Seq(Pieces)
    /\ Directories \subseteq Targets
    /\ NoFile \notin FileIds /\ NoFile \notin Seq(Pieces)
    /\ IoErrors \in BOOLEAN /\ SharedTemps \in BOOLEAN

\* No upload names a temporary file.
ASSUME NameAssumption ==
    /\ Targets \cap Temps = {}
    /\ (Targets \cup Temps) \cap ({"upload"} \X Targets \X Jobs) = {}

VARIABLES
    plan, pc,
    names,      \* the file that each path refers to, or NoFile
    data,       \* the content of each file
    handle,     \* the file a job has open for writing
    text,       \* what the job read from its upload, as it is to be stored
    copied,     \* pieces appended so far
    stored,     \* what the job's rename put at its destination
    original    \* the targets' contents before

vars == <<plan, pc, names, data, handle, text, copied, stored, original>>

UploadNamedByTarget(j) == <<"upload", plan[j].target, CHOOSE k \in Jobs : TRUE>>

\* f"{file_path}.upload.{transfer_id}"
Upload(j) == <<"upload", plan[j].target, j>>

TempIsTarget(j) == plan[j].target

Temp(j) == TempOf[plan[j].target]

Names == Targets \cup Temps \cup ({"upload"} \X Targets \X Jobs)

PCs == {"receive", "install", "copy", "write", "rename", "unlink", "except",
        "success", "failed", "raised"}
Ended == {"success", "failed", "raised"}

\* data.replace(b"\r\n", b"\n")
ToLf(c) == [i \in DOMAIN c |-> IF c[i] = "crlf" THEN "lf" ELSE c[i]]

\* How a job stores the content it has received.
Stored(j, c) == IF plan[j].ascii THEN ToLf(c) ELSE c

Read(name) == IF names[name] = NoFile THEN NoFile ELSE data[names[name]]

UsesTemp(j) == plan[j].ascii /\ ~plan[j].append

Init ==
    /\ plan \in [Jobs -> Plans]
    /\ SharedTemps \/ \A i, j \in Jobs :
          i # j /\ UsesTemp(i) /\ UsesTemp(j) => Temp(i) # Temp(j)
    /\ original \in [Targets -> Contents \cup {NoFile}]
    /\ \A t \in Directories : original[t] = NoFile
    /\ pc = [j \in Jobs |-> "receive"]
    /\ names = [n \in Names |-> IF n \in Targets /\ original[n] # NoFile
                                THEN <<"old", n>> ELSE NoFile]
    /\ data = [f \in FileIds |-> IF f[1] = "old" /\ original[f[2]] # NoFile
                                 THEN original[f[2]] ELSE <<>>]
    /\ handle = [j \in Jobs |-> NoFile]
    /\ text = [j \in Jobs |-> <<>>]
    /\ copied = [j \in Jobs |-> 0]
    /\ stored = [j \in Jobs |-> NoFile]

-------------------------------------------------------------------------------
Goto(j, place) == pc' = [pc EXCEPT ![j] = place]

\* receive_file returns, or raises after it has put the upload in place.
U_Receive(j) ==
    /\ pc[j] = "receive"
    /\ names' = [names EXCEPT ![Upload(j)] = <<"received", j>>]
    /\ data' = [data EXCEPT ![<<"received", j>>] = plan[j].content]
    /\ \E place \in {"install"} \cup (IF IoErrors THEN {"except"} ELSE {}) : Goto(j, place)
    /\ UNCHANGED <<plan, handle, text, copied, stored, original>>

\* Cancelled, timed out or mismatched.
U_ReceiveFails(j) ==
    /\ pc[j] = "receive"
    /\ Goto(j, "except")
    /\ UNCHANGED <<plan, names, data, handle, text, copied, stored, original>>

IsDirectory(j) == plan[j].target \in Directories

\* STOR in binary: one rename.
U_Replace(j) ==
    /\ pc[j] = "install" /\ ~plan[j].ascii /\ ~plan[j].append
    /\ IF IsDirectory(j) \/ names[Upload(j)] = NoFile
       THEN Goto(j, "except") /\ UNCHANGED <<names, stored>>
       ELSE /\ names' = [names EXCEPT ![plan[j].target] = names[Upload(j)],
                                      ![Upload(j)] = NoFile]
            /\ stored' = [stored EXCEPT ![j] = Read(Upload(j))]
            /\ Goto(j, "success")
    /\ UNCHANGED <<plan, data, handle, text, copied, original>>

\* The ASCII branch reads the upload and checks its hash once more.
Verified(j) == plan[j].ascii => Read(Upload(j)) = plan[j].content

Readable(j) == names[Upload(j)] # NoFile /\ Verified(j)

ReadsUpload(j) == text' = [text EXCEPT ![j] = Stored(j, Read(Upload(j)))]

Created(j) == <<"created", j>>

OpensToWrite(j, name) ==
    LET file == IF names[name] = NoFile THEN Created(j) ELSE names[name]
    IN  /\ names' = [names EXCEPT ![name] = file]
        /\ handle' = [handle EXCEPT ![j] = file]
        /\ data' = [data EXCEPT ![file] = <<>>]

\* open("ab"): a missing file is created, what is there stays.
OpensToAppend(j, name) ==
    LET file == IF names[name] = NoFile THEN Created(j) ELSE names[name]
    IN  /\ names' = [names EXCEPT ![name] = file]
        /\ handle' = [handle EXCEPT ![j] = file]
        /\ UNCHANGED data

U_OpenAppend(j) ==
    /\ pc[j] = "install" /\ plan[j].append
    /\ IF IsDirectory(j) \/ ~Readable(j)
       THEN Goto(j, "except") /\ UNCHANGED <<names, data, handle, text>>
       ELSE /\ OpensToAppend(j, plan[j].target)
            /\ ReadsUpload(j)
            /\ Goto(j, "copy")
    /\ UNCHANGED <<plan, copied, stored, original>>

CopyEnds(j) == copied[j] = Len(text[j])

\* The pieces follow each other in binary; the converted text is one write.
Write(j) == IF plan[j].ascii THEN text[j] ELSE <<text[j][copied[j] + 1]>>

U_Copy(j) ==
    /\ pc[j] = "copy" /\ ~CopyEnds(j)
    /\ data' = [data EXCEPT ![handle[j]] = @ \o Write(j)]
    /\ copied' = [copied EXCEPT ![j] = @ + Len(Write(j))]
    /\ UNCHANGED <<plan, pc, names, handle, text, stored, original>>

U_CopyEndsUnclosed(j) ==
    /\ pc[j] = "copy" /\ CopyEnds(j)
    /\ Goto(j, "unlink")
    /\ UNCHANGED <<plan, names, data, handle, text, copied, stored, original>>

U_CopyEnds(j) ==
    /\ pc[j] = "copy" /\ CopyEnds(j)
    /\ Goto(j, "unlink")
    /\ handle' = [handle EXCEPT ![j] = NoFile]
    /\ UNCHANGED <<plan, names, data, text, copied, stored, original>>

\* write_bytes of the temporary file: open("wb"), then write.
U_OpenTemp(j) ==
    /\ pc[j] = "install" /\ UsesTemp(j)
    /\ IF Readable(j)
       THEN /\ OpensToWrite(j, Temp(j))
            /\ ReadsUpload(j)
            /\ Goto(j, "write")
       ELSE Goto(j, "except") /\ UNCHANGED <<names, data, handle, text>>
    /\ UNCHANGED <<plan, copied, stored, original>>

\* From the start of the file; what another job has put further on stays.
Overwrites(old, new) == new \o SubSeq(old, Len(new) + 1, Len(old))

U_WriteTemp(j) ==
    /\ pc[j] = "write"
    /\ data' = [data EXCEPT ![handle[j]] = Overwrites(@, text[j])]
    /\ handle' = [handle EXCEPT ![j] = NoFile]
    /\ Goto(j, "rename")
    /\ UNCHANGED <<plan, names, text, copied, stored, original>>

RenamesTemp(j) ==
    [names EXCEPT ![plan[j].target] = names[Temp(j)], ![Temp(j)] = NoFile]

U_RenameTemp(j) ==
    /\ pc[j] = "rename"
    /\ IF IsDirectory(j) \/ names[Temp(j)] = NoFile   \* and Temp(j) stays
       THEN Goto(j, "except") /\ UNCHANGED <<names, stored>>
       ELSE /\ names' = RenamesTemp(j)
            /\ stored' = [stored EXCEPT ![j] = Read(Temp(j))]
            /\ Goto(j, "unlink")
    /\ UNCHANGED <<plan, data, handle, text, copied, original>>

U_Unlink(j) ==
    /\ pc[j] = "unlink"
    /\ names' = [names EXCEPT ![Upload(j)] = NoFile]
    /\ Goto(j, "success")
    /\ UNCHANGED <<plan, data, handle, text, copied, stored, original>>

U_IoError(j) ==
    /\ IoErrors
    /\ pc[j] \in {"install", "copy", "write", "rename", "unlink"}
    /\ Goto(j, "except")
    /\ handle' = [handle EXCEPT ![j] = NoFile]
    /\ UNCHANGED <<plan, names, data, text, copied, stored, original>>

ExceptKeepsUpload(j) ==
    /\ pc[j] = "except"
    /\ Goto(j, "failed")
    /\ UNCHANGED <<plan, names, data, handle, text, copied, stored, original>>

\* The cleanup may itself raise; the call then returns no result.
U_Except(j) ==
    /\ pc[j] = "except"
    /\ \/ /\ names' = [names EXCEPT ![Upload(j)] = NoFile]
          /\ Goto(j, "failed")
       \/ /\ IoErrors
          /\ Goto(j, "raised")
          /\ UNCHANGED names
    /\ UNCHANGED <<plan, data, handle, text, copied, stored, original>>

Step(j) ==
    \/ U_Receive(j) \/ U_ReceiveFails(j) \/ U_Replace(j) \/ U_OpenAppend(j)
    \/ U_Copy(j) \/ U_CopyEnds(j) \/ U_OpenTemp(j) \/ U_WriteTemp(j)
    \/ U_RenameTemp(j) \/ U_Unlink(j) \/ U_IoError(j) \/ U_Except(j)

Done == (\A j \in Jobs : pc[j] \in Ended) /\ UNCHANGED vars

Next == (\E j \in Jobs : Step(j)) \/ Done

Spec == Init /\ [][Next]_vars

-------------------------------------------------------------------------------
TypeOK ==
    /\ plan \in [Jobs -> Plans]
    /\ pc \in [Jobs -> PCs]
    /\ names \in [Names -> FileIds \cup {NoFile}]
    /\ data \in [FileIds -> Seq(Pieces)]
    /\ handle \in [Jobs -> FileIds \cup {NoFile}]
    /\ \A j \in Jobs : pc[j] \in {"copy", "write"} <=> handle[j] # NoFile
    /\ text \in [Jobs -> Seq(Pieces)]
    /\ copied \in [Jobs -> Nat]
    /\ stored \in [Jobs -> Seq(Pieces) \cup {NoFile}]
    /\ original \in [Targets -> Contents \cup {NoFile}]

Wanted(j) == Stored(j, plan[j].content)

(* Whatever runs beside it, a file changes only by becoming the whole of a *)
(* received upload, or by growing by the next piece of an append.          *)
BecomesUpload(t, j) == ~plan[j].append /\ Read(t)' = Wanted(j)

GrowsByAppend(t, j) ==
    /\ plan[j].append
    /\ LET old == IF Read(t) = NoFile THEN <<>> ELSE Read(t)
       IN  Read(t)' = old \o SubSeq(Wanted(j), copied[j] + 1, copied'[j])

ChangedWhole ==
    [][\A t \in Targets : Read(t)' # Read(t) =>
          \E j \in Jobs : /\ plan[j].target = t /\ pc[j] # "receive"
                         /\ (BecomesUpload(t, j) \/ GrowsByAppend(t, j))]_vars

(* The result is true: success means that the upload was put in place as   *)
(* received, failure that nothing was.  docs/integration-guide.md:229,     *)
(* final size and SHA-256 match the source, and :225, a failed transfer    *)
(* does not replace the destination.  (An ASCII upload may also fail in    *)
(* its very last step, the removal of the staged upload: then all of it is *)
(* in place.)                                                              *)
OutcomeIsTrue ==
    \A j \in Jobs : ~plan[j].append =>
        /\ pc[j] = "success" => stored[j] = Wanted(j)
        /\ pc[j] \in {"failed", "raised"} =>
              \/ stored[j] = NoFile
              \/ IoErrors /\ plan[j].ascii /\ stored[j] = Wanted(j)

Before(t) == IF original[t] = NoFile THEN <<>> ELSE original[t]
Now(t) == IF Read(t) = NoFile THEN <<>> ELSE Read(t)

\* What the uploads to a target have copied so far: <<j, i>> is j's piece i.
CopiedTo(t) == UNION {{j} \X (1 .. copied[j]) : j \in {k \in Jobs : plan[k].target = t}}

\* Each piece is at its place, and those of one upload are in its order.
InOrder(t, place) ==
    \A p, q \in CopiedTo(t) :
        /\ Now(t)[place[p]] = Wanted(p[1])[p[2]]
        /\ p[1] = q[1] /\ p[2] < q[2] => place[p] < place[q]

(* Appends to one file, however they interleave and fail, lose nothing and *)
(* add nothing else: it is the old file followed by what each has copied   *)
(* so far, every piece at a place of its own, those of an upload in their  *)
(* order, and a successful one has copied all of its upload.               *)
AppendsAddUp ==
    \A t \in Targets \ Directories :
        (\A j \in Jobs : plan[j].target = t => plan[j].append) =>
            /\ \A i \in DOMAIN Before(t) : i \in DOMAIN Now(t) /\ Now(t)[i] = Before(t)[i]
            /\ \E place \in Bijection(CopiedTo(t), Len(Before(t)) + 1 .. Len(Now(t))) :
                  InOrder(t, place)
            /\ \A j \in Jobs : plan[j].target = t /\ pc[j] = "success" =>
                  copied[j] = Len(Wanted(j))

(* docs/integration-guide.md:226, temporary files are removed after        *)
(* failure: it holds of the staged upload of every call that returns (the  *)
(* one whose removal raises stays), and not of the file for the            *)
(* conversion.                                                             *)
UploadRemoved ==
    \A j \in Jobs : pc[j] \in {"success", "failed"} =>
        \A t \in Targets : names[<<"upload", t, j>>] = NoFile
===============================================================================
