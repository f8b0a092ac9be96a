---------------------------- MODULE ControlSession ----------------------------
(***************************************************************************)
(* The commands of a session that name files (handle_client_session): how  *)
(* resolve_safe_path turns an argument into a path, what CWD, CDUP, MKD,   *)
(* RMD, DELE, RNFR and RNTO do with it, and where an upload is staged,     *)
(* converted and installed.                                                *)
(*                                                                         *)
(* A handler resolves its argument, tests the path, and calls the file     *)
(* system.  Other sessions work in the same storage meanwhile, so these    *)
(* are three steps.  The session is logged in.                             *)
(*                                                                         *)
(* JoinedPath, HasRootAsPrefix, PathFromRoot, S_RemovesAnyDirectory,       *)
(* S_ChangesAnyway, InStorage and U_InstallKeepsStaged are faults the code *)
(* does not have; each replaces the definition after it to see that a      *)
(* property notices.                                                       *)
(***************************************************************************)
EXTENDS FileTree

CONSTANTS
    Names,          \* what files and directories are called
    Inputs          \* arguments of commands

ASSUME InputsAssumption ==
    Inputs \subseteq [absolute : BOOLEAN, parts : Seq(Names \cup Dots \cup {"srvold", "old"})]

VARIABLES
    tree,
    \* fields of FTPSession
    currentDir, renameFrom,     \* renameFrom is NoPath for ""
    \* the handler: its next step, and the path it has resolved
    pc, path,
    \* the upload, from the start of its worker to the end
    upPc, upTarget,
    \* history
    displaced       \* another session has moved or removed a staged file

handlerVars == <<currentDir, renameFrom, pc, path>>
uploadVars == <<upPc, upTarget>>
vars == <<tree, handlerVars, uploadVars, displaced>>

\* storage/server_files, beside a directory whose name begins like its own.
Root == <<"srv">>
Beside == <<"srvold">>
Part == "part"
Converted == "converted"

\* A name is not empty, not "." or "..", and not that of a file which the
\* server makes for an upload.
ASSUME NamesAssumption == Names \cap ({"", Part, Converted} \cup Dots) = {}

InitialTree ==
    [p \in {<<>>, Root, Beside, Append(Beside, "old")} |->
        IF p = Append(Beside, "old") THEN "file" ELSE "dir"]

\* The entries that others, and users of this session, give names to.
Places ==
    {Append(p, n) : p \in {q \in DOMAIN tree : Under(q, Root) /\ tree[q] = "dir"}, n \in Names}

Commands == {"CWD", "CDUP", "MKD", "RMD", "DELE", "RNFR", "RNTO", "STOR"}
UploadPcs == {"none", "parent", "open", "receive", "install", "rename", "convert",
              "replace", "append", "cleanup"}

Components == Names \cup Dots \cup {"srv", "srvold", "old", Part, Converted}

InStorageOrNot(p) == p = NoPath \/ (p \in Seq(Components) /\ Under(p, Root))

TypeOK ==
    /\ WellFormed(tree)
    /\ \A p \in DOMAIN tree : p \in Seq(Components) /\ tree[p] \in {"dir", "file"}
    /\ currentDir # NoPath
    /\ \A p \in {currentDir, renameFrom, path, upTarget} : InStorageOrNot(p)
    /\ pc \in Commands \cup {"read", "makedirs", "rmdir", "remove"} /\ upPc \in UploadPcs
    /\ displaced \in BOOLEAN

Init ==
    /\ tree = InitialTree
    /\ currentDir = Root /\ renameFrom = NoPath
    /\ pc = "read" /\ path = NoPath
    /\ upPc = "none" /\ upTarget = NoPath
    /\ displaced = FALSE

-------------------------------------------------------------------------------
(* resolve_safe_path and get_ftp_path.                                     *)

\* The path meant by an argument, before "." and ".." are followed.
Target(base, input) == (IF input.absolute THEN Root ELSE base) \o input.parts

\* A path that does not exist is that of its parent, and its last name.
JoinedPath(t, target) ==
    IF Exists(t, target) THEN Walk(t, target)
    ELSE IF Exists(t, Front(target)) THEN target
    ELSE NoPath

RealPath(t, target) ==
    IF Exists(t, target) THEN Walk(t, target)
    ELSE IF Exists(t, Front(target)) THEN Append(Walk(t, Front(target)), Last(target))
    ELSE NoPath

\* out_abs_path.startswith(real_root), as strings ...
HasRootAsPrefix(p) == p # <<>> /\ p[1] \in {"srv", "srvold"}

\* ... and the separator that follows.
InsideRoot(p) == HasRootAsPrefix(p) /\ p[1] = "srv"

\* NoPath if the argument is refused.
Resolve(t, base, input) ==
    LET out == RealPath(t, Target(base, input))
    IN  IF InsideRoot(out) THEN out ELSE NoPath

\* The path shown to the client, and sent back by it.
PathFromRoot(p) == [absolute |-> FALSE, parts |-> SubSeq(p, 2, Len(p))]

FtpPath(p) == [absolute |-> TRUE, parts |-> SubSeq(p, 2, Len(p))]

-------------------------------------------------------------------------------
(* The commands.                                                           *)

Empty == [absolute |-> FALSE, parts |-> <<>>]
Parent == [absolute |-> FALSE, parts |-> <<"..">>]

Arguments == Inputs \cup {Empty, Parent}

Ready == pc = "read" /\ upPc = "none"

\* The argument is resolved; what comes next is up to the command.  During
\* a transfer the command is refused (450).
S_Command ==
    /\ Ready
    /\ \E input \in Arguments :
          LET out == Resolve(tree, currentDir, input)
          IN  \E command \in Commands :
                /\ command = "CDUP" => input = Parent
                /\ command = "MKD" => input # Empty
                /\ command = "RNTO" => renameFrom # NoPath
                /\ command = "STOR" => ~displaced
                /\ pc' = command
                /\ path' = out
    /\ UNCHANGED <<tree, currentDir, renameFrom, uploadVars, displaced>>

Replies == pc' = "read" /\ path' = NoPath

\* A test of the resolved path, and the call that follows if it holds.
Tests(condition, next) ==
    /\ IF condition THEN pc' = next /\ UNCHANGED path ELSE Replies
    /\ UNCHANGED <<tree, currentDir, renameFrom, uploadVars, displaced>>

Calls(result) ==
    /\ tree' = result
    /\ Replies
    /\ UNCHANGED <<currentDir, uploadVars, displaced>>

Valid == path # NoPath

S_ChangesAnyway ==
    /\ pc = "CWD"
    /\ currentDir' = path
    /\ Replies
    /\ UNCHANGED <<tree, renameFrom, uploadVars, displaced>>

S_ChangeDirectory ==
    /\ pc = "CWD"
    /\ currentDir' = IF Valid /\ IsDirectory(tree, path) THEN path ELSE currentDir
    /\ Replies
    /\ UNCHANGED <<tree, renameFrom, uploadVars, displaced>>

\* At the root, or where there is no parent any more: to the root.
S_ChangeToParent ==
    /\ pc = "CDUP"
    /\ currentDir' = IF Valid /\ IsDirectory(tree, path) THEN path ELSE Root
    /\ Replies
    /\ UNCHANGED <<tree, renameFrom, uploadVars, displaced>>

S_MayMake == pc = "MKD" /\ Tests(Valid /\ ~Exists(tree, path), "makedirs")

S_MakesDirectory ==
    /\ pc = "makedirs"
    /\ Calls(MakeDirs(tree, path)) /\ UNCHANGED renameFrom

S_RemovesAnyDirectory ==
    /\ pc = "RMD" /\ Tests(Valid /\ IsDirectory(tree, path), "rmdir")

S_MayRemoveDirectory ==
    /\ pc = "RMD"
    /\ Tests(Valid /\ IsDirectory(tree, path) /\ path # Root, "rmdir")

S_RemovesDirectory ==
    /\ pc = "rmdir"
    /\ Calls(RemoveDir(tree, path)) /\ UNCHANGED renameFrom

S_MayDelete == pc = "DELE" /\ Tests(Valid /\ ~IsDirectory(tree, path), "remove")

S_Deletes ==
    /\ pc = "remove"
    /\ Calls(RemoveFile(tree, path)) /\ UNCHANGED renameFrom

\* An earlier offer survives one that fails.
S_RenameFrom ==
    /\ pc = "RNFR"
    /\ renameFrom' = IF Valid /\ Exists(tree, path) THEN path ELSE renameFrom
    /\ Replies
    /\ UNCHANGED <<tree, currentDir, uploadVars, displaced>>

S_RenameTo ==
    /\ pc = "RNTO"
    /\ Calls(IF Valid THEN Rename(tree, renameFrom, path) ELSE tree)
    /\ renameFrom' = NoPath

\* STOR, STOU or APPE: 150, and the worker starts.
S_Store ==
    /\ pc = "STOR"
    /\ upPc' = IF Valid THEN "parent" ELSE "none"
    /\ upTarget' = path
    /\ Replies
    /\ UNCHANGED <<tree, currentDir, renameFrom, displaced>>

Session ==
    \/ S_Command \/ S_ChangeDirectory \/ S_ChangeToParent
    \/ S_MayMake \/ S_MakesDirectory
    \/ S_MayRemoveDirectory \/ S_RemovesDirectory
    \/ S_MayDelete \/ S_Deletes
    \/ S_RenameFrom \/ S_RenameTo \/ S_Store

-------------------------------------------------------------------------------
(* The upload, as far as it uses directories; contents are UploadStore's.  *)
(* The staged file is <target>.upload.<TID>.part.<TID>, then               *)
(* <target>.upload.<TID>; both are called Part here.  An ASCII upload is   *)
(* converted into <stem of the target>.tmp.ascii, called Converted here.   *)

Directory == Front(upTarget)

InStorage == Append(Root, Part)

Staged == Append(Directory, Part)
Conversion == Append(Directory, Converted)

Goes(place) == upPc' = place /\ UNCHANGED upTarget

UploadEnds == upPc' = "none" /\ upTarget' = NoPath

HandlerStays == UNCHANGED <<handlerVars, displaced>>

\* destination.parent.mkdir(parents=True, exist_ok=True)
U_MakeParent ==
    /\ upPc = "parent"
    /\ tree' = MakeDirs(tree, Directory)
    /\ Goes(IF IsDirectory(tree', Directory) THEN "open" ELSE "cleanup")
    /\ HandlerStays

U_Open ==
    /\ upPc = "open"
    /\ tree' = CreateFile(tree, Staged)
    /\ Goes(IF CanCreate(tree, Staged) THEN "receive" ELSE "cleanup")
    /\ HandlerStays

\* The receiver renames its temporary file at the end, if it gets there.
U_Receive ==
    /\ upPc = "receive"
    /\ \E place \in {"cleanup"} \cup (IF Exists(tree, Staged) THEN {"install"} ELSE {}) :
          Goes(place)
    /\ UNCHANGED tree /\ HandlerStays

U_MakeParentAgain ==
    /\ upPc = "install"
    /\ tree' = MakeDirs(tree, Directory)
    /\ \E place \in {"rename", "convert", "append"} :
          Goes(IF IsDirectory(tree', Directory) THEN place ELSE "cleanup")
    /\ HandlerStays

U_InstallKeepsStaged ==
    /\ upPc = "rename"
    /\ tree' = Rename(tree, Staged, upTarget)
    /\ UploadEnds
    /\ HandlerStays

U_Install ==
    /\ upPc = "rename"
    /\ tree' = Rename(tree, Staged, upTarget)
    /\ IF CanRename(tree, Staged, upTarget) THEN UploadEnds ELSE Goes("cleanup")
    /\ HandlerStays

\* STOR in ASCII: the upload is read, and the converted text written, ...
U_Convert ==
    /\ upPc = "convert"
    /\ IF Exists(tree, Staged) /\ CanCreate(tree, Conversion)
       THEN tree' = CreateFile(tree, Conversion) /\ Goes("replace")
       ELSE Goes("cleanup") /\ UNCHANGED tree
    /\ HandlerStays

\* ... and then renamed; where that fails, the converted file stays.
U_Replace ==
    /\ upPc = "replace"
    /\ tree' = Rename(tree, Conversion, upTarget)
    /\ Goes("cleanup")
    /\ HandlerStays

\* APPE opens its target before the upload in binary, after it in ASCII.
U_Append ==
    /\ upPc = "append"
    /\ \/ tree' = CreateFile(tree, upTarget)
       \/ ~Exists(tree, Staged) /\ UNCHANGED tree
    /\ Goes("cleanup")
    /\ HandlerStays

\* unlink, after APPE and ASCII, and in both exception handlers.
U_CleanUp ==
    /\ upPc = "cleanup"
    /\ tree' = RemoveFile(tree, Staged)
    /\ UploadEnds
    /\ HandlerStays

Upload ==
    \/ U_MakeParent \/ U_Open \/ U_Receive \/ U_MakeParentAgain
    \/ U_Install \/ U_Convert \/ U_Replace \/ U_Append \/ U_CleanUp

-------------------------------------------------------------------------------
(* The other sessions, one call at a time: all that their handlers, and    *)
(* their uploads, do in the storage.                                       *)

IsStaged(p) == Under(p, Root) /\ p # Root /\ Last(p) = Part

OwnVarsStay == UNCHANGED <<handlerVars, uploadVars>>

O_Makes ==
    /\ \E p \in Places \ DOMAIN tree : tree' \in {MakeDir(tree, p), CreateFile(tree, p)}
    /\ OwnVarsStay /\ UNCHANGED displaced

StagedOf(t) == {p \in DOMAIN t : IsStaged(p)}

O_Removes ==
    /\ \E p \in {q \in DOMAIN tree : Under(q, Root) /\ q # Root} :
          tree' \in {RemoveDir(tree, p), RemoveFile(tree, p)}
    /\ displaced' = (displaced \/ StagedOf(tree') # StagedOf(tree))
    /\ OwnVarsStay

\* To rename any other entry is to remove it and to make one.
O_Renames ==
    /\ \E p \in {q \in DOMAIN tree : Under(q, Root) /\ q # Root}, new \in Places :
          /\ IsStaged(p) \/ ~IsEmpty(tree, p)
          /\ CanRename(tree, p, new)
          /\ tree' = Rename(tree, p, new)
    /\ displaced' = (displaced \/ StagedOf(tree') # StagedOf(tree))
    /\ OwnVarsStay

Others == O_Makes \/ O_Removes \/ O_Renames

Next == Session \/ Upload \/ Others

Spec == Init /\ [][Next]_vars

-------------------------------------------------------------------------------
(* Properties.                                                             *)

Outside(t) == {<<p, t[p]>> : p \in {q \in DOMAIN t : ~Under(q, Root)}}

\* What an upload to the root itself makes beside it.
StagedOutside == <<<<Part>>, "file">>
ConvertedOutside == <<<<Converted>>, "file">>

(* file_system.py:1 - operations are constrained to the storage root.      *)
(* Whatever the sessions do to the directories that a handler has resolved *)
(* a path through, before it uses the path, nothing that is outside the    *)
(* root is removed, renamed or replaced, and nothing is made there but by  *)
(* an upload to the root itself: its staged file, as long as it is under   *)
(* way, and the file that it converts into.                                *)
OutsideKept ==
    /\ Outside(tree) \ {StagedOutside, ConvertedOutside} = Outside(InitialTree)
    /\ StagedOutside \in Outside(tree) => upTarget = Root

(* file_system.py:1 - filesystem operations are constrained to the         *)
(* configured storage root; docs/integration-guide.md:226 - temporary      *)
(* files are removed after failure or cancellation.  The code leaves what  *)
(* an ASCII upload to the root has converted beside the root.              *)
NothingLeftOutside == upPc = "none" => Outside(tree) = Outside(InitialTree)

(* The storage root stays a directory: neither RMD nor RNFR and RNTO reach *)
(* it, by no name and in no order with the other sessions' commands.       *)
RootStays == IsDirAt(tree, Root)

(* resolve_safe_path accepts an argument only if the kernel, given the     *)
(* joined path as it is, would find or make the same entry inside the      *)
(* root, or none; and it refuses no argument that leads to one.            *)
ResolveAgrees ==
    Ready => \A input \in Arguments :
        LET out == Resolve(tree, currentDir, input)
            meant == Entry(tree, Target(currentDir, input))
            inside == meant # NoPath /\ Under(meant, Root)
        IN  /\ out # NoPath => Entry(tree, out) = meant /\ (inside \/ meant = NoPath)
            /\ inside => out # NoPath

(* CWD to what PWD has shown leads back, from wherever the session is.     *)
PwdLeadsBack ==
    Ready /\ Exists(tree, currentDir) =>
        \A base \in {Root, currentDir} :
            Resolve(tree, base, FtpPath(currentDir)) = Walk(tree, currentDir)

(* An upload leaves no staged file behind, however it ends, if no other    *)
(* session has moved the file or a directory above it.                     *)
StagedIsRemoved == upPc = "none" /\ ~displaced => StagedOf(tree) = {}

(* The directory of an upload is held by the staged file in it: the mkdir  *)
(* before the file is installed makes nothing, and so the upload brings    *)
(* back no directory that another session has removed meanwhile.           *)
ParentHeld ==
    [][upPc = "install" /\ upPc' # "install" /\ ~displaced
        => UNCHANGED tree]_vars
===============================================================================
